--------------------------- MODULE ControllerProofs ---------------------------
(***************************************************************************)
(* The kube controller's reconcile loop: what the runs check of it holds   *)
(* for any operations, policies, drives, specs and bounds.  The invariant  *)
(* is built part by part, each with the lemmas of what keeps it; then each *)
(* action keeps it whole; the theorems are at the end.                     *)
(***************************************************************************)
EXTENDS Controller, FiniteSetTheorems, SequenceTheorems, TLAPS

-----------------------------------------------------------------------------
(* What the variables hold.  CTyped is the type invariant in the form the    *)
(* proofs need: the pass's record field by field, and where the pass may be  *)
(* with which object (Placed).                                               *)
Names == Ops \cup Policies
\* An object, with a uid that was given.
ObjectIs(o) ==
  /\ o = [uid |-> o.uid, gen |-> o.gen, spec |-> o.spec, resume |-> o.resume, stamped |-> o.stamped,
          deleting |-> o.deleting, status |-> o.status]
  /\ o.uid \in 1..uid /\ o.gen \in 1..MaxGen /\ o.resume \in Nat /\ o.status \in Statuses
  /\ o \in ObjectRecords
\* The worker's jobs, and the jobs made.
JobSet == [kept : BOOLEAN, cancel : BOOLEAN, owner : Names \cup {None}, dj : [Drives -> DjStates]]
MadeSet == [uid : Nat, gen : Nat, drives : SUBSET Drives]
\* The pass: where it is, what is on its list, what it is about to write.
CtlIs(c) ==
  /\ c = [pc |-> c.pc, seen |-> c.seen, todo |-> c.todo, cur |-> c.cur, run |-> c.run, recs |-> c.recs, patch |-> c.patch]
  /\ c.pc \in Pcs /\ c.todo \subseteq DOMAIN c.seen /\ c.run \subseteq Drives /\ c.recs \in [Drives -> Parts]
  /\ c.patch = [name |-> c.patch.name, st |-> c.patch.st, part |-> c.patch.part]
  /\ c.patch.st \in Statuses /\ c.patch.part \subseteq All
  /\ DOMAIN c.seen \subseteq Ops \/ DOMAIN c.seen \subseteq Policies
  /\ \A n \in DOMAIN c.seen : ObjectIs(c.seen[n])
\* Which object it is at, and whose list it goes through.
Placed(c) ==
  /\ c.pc \in {"ops", "policies"} => c.cur = None
  /\ c.pc \in {"put", "submit"} => c.cur \in c.todo
  /\ c.pc = "put" => c.patch.name = c.cur
  /\ c.pc = "ops" => DOMAIN c.seen \subseteq Ops
  /\ c.pc \in {"policies", "submit"} => DOMAIN c.seen \subseteq Policies
\* The variables hold what they are to hold.
CTyped ==
  /\ DOMAIN objs = Names /\ \A n \in Names : objs[n] # None => ObjectIs(objs[n])
  /\ allowed \in BOOLEAN
  /\ jobs \in [Jobs -> JobSet]
  /\ rec \in [Drives -> Drive]
  /\ CtlIs(ctl) /\ Placed(ctl)
  /\ told \in [Names -> (Statuses \X SUBSET All) \cup {None}]
  /\ made \in Seq(MadeSet) /\ Len(made) <= MaxJobs
  /\ uid \in 0..MaxUid /\ probed \subseteq Policies \X Drives
  /\ limit \in [Trouble -> Nat] /\ spent \in [Trouble -> Nat]

\* What is assumed of the constants.
LEMMA ConstantsHold ==
  /\ MaxUid \in Nat /\ MaxGen \in Nat /\ 1 <= MaxGen /\ MaxJobs \in Nat /\ KeepJobs \in Nat
  /\ Ops \cap Policies = {} /\ None \notin Names /\ None \notin DrivePart
BY ControllerAssumption, NoneAssumption DEF Names

\* The empty records of a status, and the empty status.
LEMMA NoPartsTyped == NoStatus.drives \in [Drives -> Parts] /\ Rest.recs \in [Drives -> Parts]
BY DEF NoStatus, Rest, Parts
LEMMA NoStatusTyped == NoStatus \in Statuses
<1>1. 0 \in 0..MaxGen /\ 0 \in 0..MaxJobs /\ 0 \in Nat
  BY ConstantsHold
<1>2. "" \in Phases
  BY DEF Phases
<1>3. [d \in Drives |-> None] \in [Drives -> Parts]
  BY DEF Parts
<1> QED
  BY <1>1, <1>2, <1>3 DEF NoStatus, Statuses

\* The fields of the empty status.
LEMMA NoStatusIs ==
  /\ NoStatus.phase = "" /\ NoStatus.observed = 0 /\ NoStatus.resumed = 0 /\ NoStatus.job = 0
  /\ \A d \in Drives : NoStatus.drives[d] = None
  /\ \A d \in Drives : Rest.recs[d] = None
BY DEF NoStatus, Rest

\* A status is its fields, and its fields make it.
LEMMA StatusOf ==
  ASSUME NEW s \in Statuses
  PROVE  /\ s = [phase |-> s.phase, observed |-> s.observed, resumed |-> s.resumed, job |-> s.job, drives |-> s.drives]
         /\ s.phase \in Phases /\ s.observed \in 0..MaxGen /\ s.resumed \in Nat /\ s.job \in 0..MaxJobs
         /\ s.drives \in [Drives -> Parts]
BY DEF Statuses
LEMMA StatusMade ==
  ASSUME NEW p \in Phases, NEW g \in 0..MaxGen, NEW r \in Nat, NEW j \in 0..MaxJobs, NEW ds \in [Drives -> Parts]
  PROVE  [phase |-> p, observed |-> g, resumed |-> r, job |-> j, drives |-> ds] \in Statuses
BY DEF Statuses

\* A drive's record is its fields, and its fields make it.
LEMMA PartIs ==
  ASSUME NEW r \in Parts, r # None
  PROVE  r \in DrivePart /\ r = [state |-> r.state, job |-> r.job, gen |-> r.gen]
         /\ r.state \in Words /\ r.job \in 0..MaxJobs /\ r.gen \in 1..MaxGen
BY DEF Parts, DrivePart
LEMMA PartMade ==
  ASSUME NEW w \in Words, NEW j \in 0..MaxJobs, NEW g \in 1..MaxGen
  PROVE  [state |-> w, job |-> j, gen |-> g] \in DrivePart /\ [state |-> w, job |-> j, gen |-> g] # None
         /\ [state |-> w, job |-> j, gen |-> g] \in Parts
<1>1. [state |-> w, job |-> j, gen |-> g] \in DrivePart
  BY DEF DrivePart
<1> QED
  BY <1>1, ConstantsHold DEF Parts
\* What a merge keeps of a drive's record.
LEMMA MergedRecordIs ==
  ASSUME NEW old \in Parts, NEW new \in Parts
  PROVE  /\ MergedRecord(old, new) \in Parts
         /\ new = None => MergedRecord(old, new) = old
         /\ new # None => /\ MergedRecord(old, new) # None
                          /\ MergedRecord(old, new).gen = new.gen
                          /\ MergedRecord(old, new).job =
                               IF old = None \/ new.job # 0 THEN new.job ELSE old.job
<1>1. CASE new = None
  BY <1>1 DEF MergedRecord
<1>2. CASE new # None /\ (old = None \/ new.job # 0)
  BY <1>2 DEF MergedRecord
<1>3. CASE new # None /\ old # None /\ new.job = 0
  <2>1. /\ new = [state |-> new.state, job |-> new.job, gen |-> new.gen]
        /\ new.state \in Words /\ new.gen \in 1..MaxGen /\ old.job \in 0..MaxJobs
    BY <1>3, PartIs
  <2>2. MergedRecord(old, new) = [new EXCEPT !.job = old.job]
    BY <1>3 DEF MergedRecord
  <2>3. [new EXCEPT !.job = old.job] = [state |-> new.state, job |-> old.job, gen |-> new.gen]
    BY <2>1
  <2> DEFINE r == [state |-> new.state, job |-> old.job, gen |-> new.gen]
  <2>4. r \in Parts /\ r # None
    BY <2>1, PartMade
  <2>5. r.gen = new.gen /\ r.job = old.job
    OBVIOUS
  <2>6. MergedRecord(old, new) = r
    BY <2>2, <2>3
  <2> HIDE DEF r
  <2> QED
    BY <1>3, <2>4, <2>5, <2>6
<1> QED
  BY <1>1, <1>2, <1>3

\* What a merge keeps of a status: the fields named are the new ones.
LEMMA MergedIs ==
  ASSUME NEW old \in Statuses, NEW st \in Statuses, NEW part \in SUBSET All
  PROVE  /\ Merged(old, st, part) \in Statuses
         /\ Merged(old, st, part).phase = IF "phase" \in part THEN st.phase ELSE old.phase
         /\ Merged(old, st, part).observed = IF "observed" \in part THEN st.observed ELSE old.observed
         /\ \A d \in Drives : Merged(old, st, part).drives[d] = MergedRecord(old.drives[d], st.drives[d])
<1> DEFINE a == IF "phase" \in part THEN st.phase ELSE old.phase
           b == IF "observed" \in part THEN st.observed ELSE old.observed
           c == IF "resumed" \in part THEN st.resumed ELSE old.resumed
           e == IF "job" \in part THEN st.job ELSE old.job
           ds == [d \in Drives |-> MergedRecord(old.drives[d], st.drives[d])]
<1>1. Merged(old, st, part) = [phase |-> a, observed |-> b, resumed |-> c, job |-> e, drives |-> ds]
  BY DEF Merged
<1>2. a \in Phases /\ b \in 0..MaxGen /\ c \in Nat /\ e \in 0..MaxJobs
  BY StatusOf
<1>3. \A d \in Drives : old.drives[d] \in Parts /\ st.drives[d] \in Parts
  BY StatusOf
<1>4. ds \in [Drives -> Parts]
  BY <1>3, MergedRecordIs
<1>5. \A d \in Drives : ds[d] = MergedRecord(old.drives[d], st.drives[d])
  OBVIOUS
<1> HIDE DEF a, b, c, e, ds
<1>6. Merged(old, st, part) \in Statuses
  BY <1>1, <1>2, <1>4, StatusMade
<1> QED
  BY <1>1, <1>5, <1>6 DEF a, b

\* A job is its fields, and its fields make it.
LEMMA JobFields ==
  ASSUME NEW b \in JobSet
  PROVE  /\ b = [kept |-> b.kept, cancel |-> b.cancel, owner |-> b.owner, dj |-> b.dj]
         /\ b.kept \in BOOLEAN /\ b.cancel \in BOOLEAN /\ b.owner \in Names \cup {None} /\ b.dj \in [Drives -> DjStates]
BY DEF JobSet
LEMMA JobMade ==
  ASSUME NEW k \in BOOLEAN, NEW c \in BOOLEAN, NEW o \in Names \cup {None}, NEW ds \in [Drives -> DjStates]
  PROVE  [kept |-> k, cancel |-> c, owner |-> o, dj |-> ds] \in JobSet
BY DEF JobSet

\* The job that is not there.
LEMMA NoJobIs ==
  /\ NoJob \in JobSet /\ NoJob.kept = FALSE /\ NoJob.cancel = FALSE /\ NoJob.owner = None
  /\ \A d \in Drives : NoJob.dj[d] = "absent"
<1>1. [d \in Drives |-> "absent"] \in [Drives -> DjStates]
  BY DEF DjStates
<1> QED
  BY <1>1 DEF NoJob, JobSet
\* Of a job that is saved nothing is changed, or nothing is kept; and what has not
\* ended is kept.
LEMMA SavedIs ==
  ASSUME NEW js \in [Jobs -> JobSet]
  PROVE  /\ Saved(js) \in [Jobs -> JobSet]
         /\ \A j \in Jobs : Saved(js)[j] = js[j] \/ Saved(js)[j] = NoJob
         /\ \A j \in Jobs, d \in Drives : js[j].dj[d] \notin Ended \cup {"absent"} => Saved(js)[j] = js[j]
<1> DEFINE kept == {j \in Jobs : js[j].kept}
           done == {j \in kept : {js[j].dj[d] : d \in Drives} \subseteq Ended \cup {"absent"}}
           drop == {j \in done : Cardinality({k \in done : k <= j}) + KeepJobs <= Cardinality(kept)}
<1>1. Saved(js) = [j \in Jobs |-> IF j \in drop THEN NoJob ELSE js[j]]
  BY DEF Saved
<1>2. drop \subseteq done
  OBVIOUS
<1>3. \A j \in Jobs, d \in Drives : js[j].dj[d] \notin Ended \cup {"absent"} => j \notin done
  OBVIOUS
<1> HIDE DEF drop, done
<1>4. \A j \in Jobs : Saved(js)[j] = IF j \in drop THEN NoJob ELSE js[j]
  BY <1>1
<1>5. Saved(js) \in [Jobs -> JobSet]
  BY <1>1, NoJobIs
<1> QED
  BY <1>2, <1>3, <1>4, <1>5

\* A resume queues what was interrupted, unless the job is cancelled.
LEMMA ResumedIs ==
  ASSUME NEW b \in JobSet
  PROVE  /\ Resumed(b) \in JobSet /\ Resumed(b).kept = b.kept /\ Resumed(b).cancel = b.cancel /\ Resumed(b).owner = b.owner
         /\ b.cancel => Resumed(b) = b
         /\ ~b.cancel => \A d \in Drives : Resumed(b).dj[d] = IF b.dj[d] = "interrupted" THEN "queued" ELSE b.dj[d]
<1> DEFINE ds == [d \in Drives |-> IF b.dj[d] = "interrupted" THEN "queued" ELSE b.dj[d]]
<1>1. b = [kept |-> b.kept, cancel |-> b.cancel, owner |-> b.owner, dj |-> b.dj]
  BY JobFields
<1>2. "queued" \in DjStates
  BY DEF DjStates
<1>3. ds \in [Drives -> DjStates]
  BY <1>2, JobFields
<1>4. \A d \in Drives : ds[d] = IF b.dj[d] = "interrupted" THEN "queued" ELSE b.dj[d]
  OBVIOUS
<1>5. Resumed(b) = IF b.cancel THEN b ELSE [b EXCEPT !.dj = ds]
  BY DEF Resumed
<1> HIDE DEF ds
<1>6. [b EXCEPT !.dj = ds] = [kept |-> b.kept, cancel |-> b.cancel, owner |-> b.owner, dj |-> ds]
  BY <1>1
<1>7. [kept |-> b.kept, cancel |-> b.cancel, owner |-> b.owner, dj |-> ds] \in JobSet
  BY <1>3, JobFields, JobMade
<1> QED
  BY <1>4, <1>5, <1>6, <1>7

\* A cancel stops what has not started.
LEMMA CancelledIs ==
  ASSUME NEW b \in JobSet
  PROVE  /\ CancelledJob(b) \in JobSet /\ CancelledJob(b).kept = b.kept /\ CancelledJob(b).cancel = TRUE
         /\ CancelledJob(b).owner = b.owner
         /\ \A d \in Drives : CancelledJob(b).dj[d] = IF b.dj[d] \in {"queued", "interrupted"} THEN "cancelled" ELSE b.dj[d]
<1> DEFINE ds == [d \in Drives |-> IF b.dj[d] \in {"queued", "interrupted"} THEN "cancelled" ELSE b.dj[d]]
<1>1. b = [kept |-> b.kept, cancel |-> b.cancel, owner |-> b.owner, dj |-> b.dj]
  BY JobFields
<1>2. "cancelled" \in DjStates
  BY DEF DjStates, Ended
<1>3. ds \in [Drives -> DjStates]
  BY <1>2, JobFields
<1>4. \A d \in Drives : ds[d] = IF b.dj[d] \in {"queued", "interrupted"} THEN "cancelled" ELSE b.dj[d]
  OBVIOUS
<1>5. CancelledJob(b) = [kept |-> b.kept, cancel |-> TRUE, owner |-> b.owner, dj |-> ds]
  BY DEF CancelledJob
<1> HIDE DEF ds
<1>6. [kept |-> b.kept, cancel |-> TRUE, owner |-> b.owner, dj |-> ds] \in JobSet
  BY <1>3, JobFields, JobMade
<1> QED
  BY <1>4, <1>5, <1>6
\* One drive of a job goes on.
LEMMA DriveGoes ==
  ASSUME NEW b \in JobSet, NEW d \in Drives, NEW w \in DjStates
  PROVE  /\ [b EXCEPT !.dj[d] = w] \in JobSet /\ [b EXCEPT !.dj[d] = w].kept = b.kept
         /\ [b EXCEPT !.dj[d] = w].cancel = b.cancel /\ [b EXCEPT !.dj[d] = w].owner = b.owner
         /\ \A e \in Drives : [b EXCEPT !.dj[d] = w].dj[e] = IF e = d THEN w ELSE b.dj[e]
<1> DEFINE ds == [b.dj EXCEPT ![d] = w]
<1>1. b = [kept |-> b.kept, cancel |-> b.cancel, owner |-> b.owner, dj |-> b.dj]
  BY JobFields
<1>2. ds \in [Drives -> DjStates] /\ \A e \in Drives : ds[e] = IF e = d THEN w ELSE b.dj[e]
  BY JobFields
<1>3. [b EXCEPT !.dj[d] = w] = [b EXCEPT !.dj = ds]
  OBVIOUS
<1> HIDE DEF ds
<1>4. [b EXCEPT !.dj = ds] = [kept |-> b.kept, cancel |-> b.cancel, owner |-> b.owner, dj |-> ds]
  BY <1>1
<1>5. [kept |-> b.kept, cancel |-> b.cancel, owner |-> b.owner, dj |-> ds] \in JobSet
  BY <1>2, JobFields, JobMade
<1> QED
  BY <1>2, <1>3, <1>4, <1>5

-----------------------------------------------------------------------------
(* The jobs made, and the way the pass goes on: a status that is the last    *)
(* one again lets it move on, any other is about to be put.                  *)
MadeOf == DOMAIN made

\* A set of numbers up to a bound has a largest.
LEMMA LargestOf ==
  ASSUME NEW N \in Nat, NEW S \in SUBSET (1..N), S # {}
  PROVE  \E m \in S : \A x \in S : x <= m
<1> DEFINE from == {n .. N : n \in S}
<1>1. IsWellFoundedOn(StrictSubsetOrdering(1..N), FiniteSubsetsOf(1..N))
  BY FS_StrictSubsetOrderingWellFounded
<1>2. from \subseteq FiniteSubsetsOf(1..N)
  <2>1. \A n \in S : IsFiniteSet(n .. N) /\ n .. N \subseteq 1..N
    <3> TAKE n \in S
    <3>1. n \in Nat /\ n \in Int /\ N \in Int /\ 1 <= n
      OBVIOUS
    <3>2. IsFiniteSet(n .. N)
      BY <3>1, FS_Interval
    <3>3. n .. N \subseteq 1..N
      BY <3>1
    <3> QED
      BY <3>2, <3>3
  <2> QED
    BY <2>1 DEF FiniteSubsetsOf
<1>3. from # {}
  OBVIOUS
<1>4. PICK c \in from : \A e \in from : <<e, c>> \notin StrictSubsetOrdering(1..N)
  BY <1>1, <1>2, <1>3, WFMin
<1>5. PICK n \in S : c = n .. N
  OBVIOUS
<1>6. \A x \in S : x <= n
  <2> SUFFICES ASSUME NEW x \in S, ~(x <= n) PROVE FALSE
    OBVIOUS
  <2>1. x \in Nat /\ n \in Nat /\ n < x /\ x <= N /\ 1 <= n
    OBVIOUS
  <2>2. x .. N \in from /\ x .. N \subseteq n .. N /\ n \in (n .. N) /\ n \notin (x .. N) /\ n .. N \subseteq 1..N
    BY <2>1
  <2>3. <<x .. N, n .. N>> \in StrictSubsetOrdering(1..N)
    BY <2>2 DEF StrictSubsetOrdering
  <2> QED
    BY <1>4, <1>5, <2>2, <2>3
<1> QED
  BY <1>6

\* A job that is kept was made; of one that is not nothing is left.
KeptJobs ==
  \A j \in Jobs : (jobs[j].kept => j \in MadeOf) /\ (~jobs[j].kept => jobs[j] = NoJob)

\* by_operation finds a kept job of that name.
LEMMA JobOfIs ==
  ASSUME CTyped, KeptJobs, NEW n \in Names, HasJob(n)
  PROVE  JobOf(n) \in Jobs /\ jobs[JobOf(n)].kept /\ jobs[JobOf(n)].owner = n
<1> DEFINE S == {j \in Jobs : jobs[j].kept /\ jobs[j].owner = n}
<1>1. S \in SUBSET (1..MaxJobs) /\ S # {}
  BY DEF HasJob, Jobs
<1>2. MaxJobs \in Nat /\ n # None
  BY ConstantsHold
<1> HIDE DEF S
<1>3. PICK m \in S : \A x \in S : x <= m
  BY <1>1, <1>2, LargestOf
<1> USE DEF S
<1>4. m \in Jobs /\ jobs[m].kept /\ jobs[m].owner = n
  BY <1>3
<1>5. \A k \in Jobs : k > m => jobs[k].owner # n
  <2> SUFFICES ASSUME NEW k \in Jobs, k > m, jobs[k].owner = n PROVE FALSE
    OBVIOUS
  <2>1. jobs[k].kept
    BY <1>2, NoJobIs DEF KeptJobs
  <2>2. k <= m
    BY <2>1, <1>3
  <2>3. k \in Int /\ m \in Int
    BY <1>4 DEF Jobs
  <2> QED
    BY <2>2, <2>3
<1> QED
  BY <1>4, <1>5 DEF JobOf

\* Trouble is only ever added.
LEMMA SpendIs ==
  ASSUME spent \in [Trouble -> Nat], NEW k \in Trouble, Spend(k)
  PROVE  spent' \in [Trouble -> Nat] /\ \A t \in Trouble : spent[t] <= spent'[t]
BY DEF Spend
SpentMore == spent' \in [Trouble -> Nat] /\ \A t \in Trouble : spent[t] <= spent'[t]

\* Once troubled, always troubled.
LEMMA TroubleStays ==
  ASSUME spent \in [Trouble -> Nat], SpentMore
  PROVE  Troubled => Troubled'
<1>1. spent["lost"] \in Nat /\ spent["crash"] \in Nat /\ spent'["lost"] \in Nat /\ spent'["crash"] \in Nat
      /\ spent["lost"] <= spent'["lost"] /\ spent["crash"] <= spent'["crash"]
  BY DEF SpentMore, Trouble
<1> QED
  BY <1>1 DEF Troubled

\* The pass has gone on to the next object.
MovedOn(n) ==
  /\ ctl'.pc = (IF n \in Ops THEN "ops" ELSE "policies")
  /\ ctl'.seen = ctl.seen /\ ctl'.todo = ctl.todo \ {n} /\ ctl'.cur = None
\* The status st of the object n goes to the apiserver next.
AboutToPut(n, st, part) ==
  /\ ctl'.pc = "put" /\ ctl'.seen = ctl.seen /\ ctl'.todo = ctl.todo /\ ctl'.cur = n
  /\ ctl'.patch.st = st /\ ctl'.patch.part = part

\* A pass that moves on is a pass.
LEMMA CtlMoved ==
  ASSUME CtlIs(ctl), uid' = uid, NEW n \in ctl.todo, NEW run \in SUBSET Drives, NEW recs \in [Drives -> Parts], NEW p,
         p = [name |-> p.name, st |-> p.st, part |-> p.part], p.st \in Statuses, p.part \subseteq All,
         ctl' = [pc |-> IF n \in Ops THEN "ops" ELSE "policies", seen |-> ctl.seen, todo |-> ctl.todo \ {n}, cur |-> None,
                 run |-> run, recs |-> recs, patch |-> p]
  PROVE  CtlIs(ctl)' /\ Placed(ctl)' /\ MovedOn(n)
<1>1. /\ ctl'.pc = (IF n \in Ops THEN "ops" ELSE "policies") /\ ctl'.seen = ctl.seen /\ ctl'.todo = ctl.todo \ {n}
      /\ ctl'.cur = None /\ ctl'.run = run /\ ctl'.recs = recs /\ ctl'.patch = p
      /\ ctl' = [pc |-> ctl'.pc, seen |-> ctl'.seen, todo |-> ctl'.todo, cur |-> ctl'.cur, run |-> ctl'.run,
                 recs |-> ctl'.recs, patch |-> ctl'.patch]
  OBVIOUS
<1>2. \A m \in DOMAIN ctl.seen : ObjectIs(ctl.seen[m])'
  BY <1>1 DEF CtlIs, ObjectIs
<1>3. DOMAIN ctl.seen \subseteq Ops \/ DOMAIN ctl.seen \subseteq Policies
  BY DEF CtlIs
<1>4. n \in DOMAIN ctl.seen /\ Ops \cap Policies = {}
  BY ConstantsHold DEF CtlIs
<1>5. IF n \in Ops THEN DOMAIN ctl.seen \subseteq Ops ELSE DOMAIN ctl.seen \subseteq Policies
  BY <1>3, <1>4
<1>6. Placed(ctl)'
  BY <1>1, <1>5 DEF Placed
<1>7. CtlIs(ctl)'
  BY <1>1, <1>2, <1>3 DEF CtlIs, Pcs
<1> QED
  BY <1>1, <1>6, <1>7 DEF MovedOn

\* A status said is the last one again, or about to be put.
LEMMA SayIs ==
  ASSUME CtlIs(ctl), uid' = uid, NEW n \in ctl.todo, NEW st \in Statuses, NEW part \in SUBSET All, Say(n, st, part)
  PROVE  /\ CtlIs(ctl)' /\ Placed(ctl)'
         /\ \/ told[n] = <<st, part>> /\ MovedOn(n)
            \/ told[n] # <<st, part>> /\ AboutToPut(n, st, part)
<1> DEFINE c == ctl
<1>1. c = [pc |-> c.pc, seen |-> c.seen, todo |-> c.todo, cur |-> c.cur, run |-> c.run, recs |-> c.recs, patch |-> c.patch]
  BY DEF CtlIs
<1>2. CASE told[n] = <<st, part>>
  <2>1. ctl' = [ctl EXCEPT !.pc = IF n \in Ops THEN "ops" ELSE "policies", !.todo = @ \ {n},
                          !.cur = None, !.run = {}, !.recs = Rest.recs]
    BY <1>2 DEF Say
  <2> DEFINE q == IF n \in Ops THEN "ops" ELSE "policies"
             r == Rest.recs
             t == ctl.todo \ {n}
  <2>2. ctl' = [ctl EXCEPT !.pc = q, !.todo = t, !.cur = None, !.run = {}, !.recs = r]
    BY <2>1
  <2>3. r \in [Drives -> Parts]
    BY NoPartsTyped
  <2>4. ctl.patch = [name |-> ctl.patch.name, st |-> ctl.patch.st, part |-> ctl.patch.part]
        /\ ctl.patch.st \in Statuses /\ ctl.patch.part \subseteq All
    BY DEF CtlIs
  <2> HIDE DEF q, r, t
  <2>5. ctl' = [pc |-> q, seen |-> ctl.seen, todo |-> t, cur |-> None, run |-> {}, recs |-> r, patch |-> ctl.patch]
    BY <1>1, <2>2
  <2>6. ctl' = [pc |-> IF n \in Ops THEN "ops" ELSE "policies", seen |-> ctl.seen, todo |-> ctl.todo \ {n}, cur |-> None,
                run |-> {}, recs |-> r, patch |-> ctl.patch]
    BY <2>5 DEF q, t
  <2> QED
    BY <1>2, <2>3, <2>4, <2>6, CtlMoved
<1>3. CASE told[n] # <<st, part>>
  <2> DEFINE r == Rest.recs
             p == [name |-> n, st |-> st, part |-> part]
  <2>1. ctl' = [ctl EXCEPT !.pc = "put", !.cur = n, !.run = {}, !.recs = r, !.patch = p]
    BY <1>3 DEF Say
  <2>2. r \in [Drives -> Parts]
    BY NoPartsTyped
  <2>3. p = [name |-> p.name, st |-> p.st, part |-> p.part] /\ p.st = st /\ p.part = part /\ p.name = n
    OBVIOUS
  <2> HIDE DEF r, p
  <2>4. ctl' = [pc |-> "put", seen |-> ctl.seen, todo |-> ctl.todo, cur |-> n, run |-> {}, recs |-> r, patch |-> p]
    BY <1>1, <2>1
  <2>5. /\ ctl'.pc = "put" /\ ctl'.seen = ctl.seen /\ ctl'.todo = ctl.todo
        /\ ctl'.cur = n /\ ctl'.run = {} /\ ctl'.recs = r /\ ctl'.patch = p
        /\ ctl' = [pc |-> ctl'.pc, seen |-> ctl'.seen, todo |-> ctl'.todo, cur |-> ctl'.cur, run |-> ctl'.run,
                   recs |-> ctl'.recs, patch |-> ctl'.patch]
    BY <2>4
  <2>6. \A m \in DOMAIN ctl.seen : ObjectIs(ctl.seen[m])'
    BY <2>5 DEF CtlIs, ObjectIs
  <2>7. CtlIs(ctl)'
    BY <2>2, <2>3, <2>5, <2>6 DEF CtlIs, Pcs
  <2>8. Placed(ctl)'
    BY <2>3, <2>5 DEF Placed
  <2> QED
    BY <1>3, <2>3, <2>5, <2>7, <2>8 DEF AboutToPut
<1> QED
  BY <1>2, <1>3

\* A write that is over lets the pass move on.
LEMMA PutDoneIs ==
  ASSUME CtlIs(ctl), uid' = uid, NEW n \in ctl.todo, PutDone(n)
  PROVE  CtlIs(ctl)' /\ Placed(ctl)' /\ MovedOn(n)
<1> DEFINE c == ctl
<1>1. c = [pc |-> c.pc, seen |-> c.seen, todo |-> c.todo, cur |-> c.cur, run |-> c.run, recs |-> c.recs, patch |-> c.patch]
  BY DEF CtlIs
<1> DEFINE q == IF n \in Ops THEN "ops" ELSE "policies"
           t == ctl.todo \ {n}
           p == NoPatch
<1>2. ctl' = [ctl EXCEPT !.pc = q, !.todo = t, !.cur = None, !.patch = p]
  BY DEF PutDone
<1>3. p = [name |-> p.name, st |-> p.st, part |-> p.part] /\ p.st \in Statuses /\ p.part \subseteq All
  BY NoStatusTyped DEF NoPatch
<1>4. ctl.run \subseteq Drives /\ ctl.recs \in [Drives -> Parts]
  BY DEF CtlIs
<1> HIDE DEF q, t, p, c
<1>5. ctl' = [pc |-> q, seen |-> c.seen, todo |-> t, cur |-> None, run |-> c.run, recs |-> c.recs, patch |-> p]
  <2>1. ctl' = [c EXCEPT !.pc = q, !.todo = t, !.cur = None, !.patch = p]
    BY <1>2 DEF c
  <2> QED
    BY <1>1, <2>1
<1>6. ctl' = [pc |-> IF n \in Ops THEN "ops" ELSE "policies", seen |-> ctl.seen, todo |-> ctl.todo \ {n}, cur |-> None,
              run |-> ctl.run, recs |-> ctl.recs, patch |-> p]
  BY <1>5 DEF q, t, c
<1> QED
  BY <1>3, <1>4, <1>6, CtlMoved
\* The job k was made for n: queued on the drives run, refused on the rest of ds.
MadeJob(k, n, ds, run) ==
  /\ k \in Jobs /\ k \notin DOMAIN made /\ k = Len(made) + 1
  /\ made' \in Seq(MadeSet) /\ Len(made') = k /\ DOMAIN made' = DOMAIN made \cup {k}
  /\ \A i \in DOMAIN made : made'[i] = made[i]
  /\ made'[k].drives = run
  /\ n = None => made'[k].uid = 0
  /\ n # None => made'[k].uid = ctl.seen[n].uid /\ made'[k].gen = ctl.seen[n].gen
  /\ jobs' \in [Jobs -> JobSet]
  /\ \A j \in Jobs : j # k => jobs'[j] = jobs[j] \/ jobs'[j] = NoJob
  /\ jobs'[k].kept /\ jobs'[k].owner = n /\ ~jobs'[k].cancel
  /\ \A d \in Drives : jobs'[k].dj[d] = IF d \in run THEN "queued" ELSE IF d \in ds THEN "refused" ELSE "absent"

\* submit_tagged makes such a job.
LEMMA MakeIs ==
  ASSUME CTyped, NEW n \in Names \cup {None}, NEW ds \in SUBSET Drives, NEW run \in SUBSET ds, run # {},
         n # None => n \in DOMAIN ctl.seen, Make(n, ds, run)
  PROVE  MadeJob(Len(made) + 1, n, ds, run)
<1> DEFINE k == Len(made) + 1
           dj == [d \in Drives |-> IF d \in run THEN "queued" ELSE IF d \in ds THEN "refused" ELSE "absent"]
           b == [kept |-> TRUE, cancel |-> FALSE, owner |-> n, dj |-> dj]
           m == IF n = None THEN [uid |-> 0, gen |-> 0, drives |-> run]
                ELSE [uid |-> ctl.seen[n].uid, gen |-> ctl.seen[n].gen, drives |-> run]
           js == [jobs EXCEPT ![k] = b]
<1>1. k \in Jobs /\ jobs' = Saved(js) /\ made' = Append(made, m)
  BY DEF Make
<1>2. dj \in [Drives -> DjStates] /\ \A d \in Drives : dj[d] = IF d \in run THEN "queued" ELSE IF d \in ds THEN "refused" ELSE "absent"
  BY DEF DjStates, Ended
<1>3. b \in JobSet
  BY <1>2, JobMade
<1>4. b.kept /\ b.owner = n /\ ~b.cancel /\ b.dj = dj
  OBVIOUS
<1>5. m \in MadeSet /\ m.drives = run /\ (n = None => m.uid = 0)
      /\ (n # None => m.uid = ctl.seen[n].uid /\ m.gen = ctl.seen[n].gen)
  <2>1. CASE n = None
    BY <2>1 DEF MadeSet
  <2>2. CASE n # None
    <3>1. ObjectIs(ctl.seen[n])
      BY <2>2 DEF CTyped, CtlIs
    <3>2. ctl.seen[n].uid \in 1..uid /\ ctl.seen[n].gen \in 1..MaxGen /\ uid \in 0..MaxUid /\ MaxUid \in Nat /\ MaxGen \in Nat
      BY <3>1, ConstantsHold DEF ObjectIs, CTyped
    <3>3. ctl.seen[n].uid \in Nat /\ ctl.seen[n].gen \in Nat
      BY <3>2
    <3> QED
      BY <2>2, <3>3 DEF MadeSet
  <2> QED
    BY <2>1, <2>2
<1>6. made \in Seq(MadeSet) /\ jobs \in [Jobs -> JobSet]
  BY DEF CTyped
<1> HIDE DEF m, b, dj
<1>7. /\ made' \in Seq(MadeSet) /\ Len(made') = k /\ DOMAIN made' = DOMAIN made \cup {k} /\ k \notin DOMAIN made
      /\ made'[k] = m /\ \A i \in DOMAIN made : made'[i] = made[i]
  <2>1. Len(made) \in Nat /\ DOMAIN made = 1..Len(made)
    BY <1>6
  <2>2. made' \in Seq(MadeSet) /\ Len(made') = k /\ DOMAIN made' = 1..k
        /\ made'[k] = m /\ \A i \in DOMAIN made : made'[i] = made[i]
    BY <1>1, <1>5, <1>6
  <2> QED
    BY <2>1, <2>2
<1>8. js \in [Jobs -> JobSet] /\ js[k] = b /\ \A j \in Jobs : j # k => js[j] = jobs[j]
  BY <1>1, <1>3, <1>6
<1> HIDE DEF js, k
<1>9. jobs' \in [Jobs -> JobSet] /\ \A j \in Jobs : jobs'[j] = js[j] \/ jobs'[j] = NoJob
  BY <1>1, <1>8, SavedIs
<1>10. jobs'[k] = b
  <2>1. PICK d \in run : TRUE
    OBVIOUS
  <2>2. js[k].dj[d] = "queued" /\ d \in Drives
    BY <1>2, <1>4, <1>8
  <2>3. "queued" \notin Ended \cup {"absent"}
    BY DEF Ended
  <2> QED
    BY <1>1, <1>8, <2>2, <2>3, SavedIs
<1>11. MadeJob(k, n, ds, run)
  BY <1>1, <1>2, <1>4, <1>5, <1>7, <1>8, <1>9, <1>10 DEF MadeJob, k
<1> QED
  BY <1>11 DEF k

-----------------------------------------------------------------------------
(* UidsInv: who is who.  No two objects share a uid; an object on the pass's *)
(* list is the one of that name or an earlier one, with a generation not     *)
(* above its own, and no job was made for a generation that is still to      *)
(* come.                                                                     *)
Ahead == ctl.todo \ {ctl.cur}
\* The job i was made for that object at its generation.
Match(o, i) == made[i].uid = o.uid /\ made[i].gen = o.gen
\* One uid, one object.
UidsOnce ==
  /\ \A n \in Names : \A m \in Names : objs[n] # None /\ objs[m] # None /\ objs[n].uid = objs[m].uid => n = m
  /\ \A n \in DOMAIN ctl.seen : \A m \in DOMAIN ctl.seen : ctl.seen[n].uid = ctl.seen[m].uid => n = m
\* An object on the list is of that name, and no newer than what is there.
SeenWas ==
  \A n \in DOMAIN ctl.seen : \A m \in Names : objs[m] # None /\ objs[m].uid = ctl.seen[n].uid =>
    /\ n = m /\ ctl.seen[n].gen <= objs[m].gen
    /\ n \in ctl.todo => objs[m].status = ctl.seen[n].status
\* The records that an object still to come has are those seen, or none yet.
SeenCovers ==
  \A n \in ctl.todo : objs[n] # None =>
    \/ objs[n].status.drives = ctl.seen[n].status.drives \/ objs[n].status.drives = NoStatus.drives
\* No job was made for a uid or a generation still to come.
MadeWas ==
  \A i \in MadeOf :
    /\ made[i].uid <= uid
    /\ \A n \in Names : objs[n] # None /\ made[i].uid = objs[n].uid =>
          made[i].gen <= objs[n].gen /\ (n \in DOMAIN ctl.seen => ctl.seen[n].uid = objs[n].uid)
    /\ \A n \in DOMAIN ctl.seen : made[i].uid = ctl.seen[n].uid => made[i].gen <= ctl.seen[n].gen
UidsInv == UidsOnce /\ SeenWas /\ SeenCovers /\ MadeWas

\* The jobs made stand, but for the drives that were done.
SameMade == /\ DOMAIN made' = DOMAIN made
            /\ \A i \in DOMAIN made : made'[i].uid = made[i].uid /\ made'[i].gen = made[i].gen
                                      /\ made'[i].drives \subseteq made[i].drives

\* A step that makes no job, and leaves the list, keeps UidsInv.
LEMMA UidsStay ==
  ASSUME UidsInv, SameMade, uid' = uid, objs' = objs, ctl'.seen = ctl.seen, ctl'.todo \subseteq ctl.todo
  PROVE  UidsInv'
<1>1. UidsOnce'
  BY DEF UidsInv, UidsOnce
<1>2. SeenWas'
  BY DEF UidsInv, SeenWas
<1>3. SeenCovers'
  BY DEF UidsInv, SeenCovers
<1>4. MadeWas'
  BY DEF UidsInv, MadeWas, SameMade, MadeOf
<1> QED
  BY <1>1, <1>2, <1>3, <1>4 DEF UidsInv

\* So does one that makes a job for an object on the list.
LEMMA UidsMade ==
  ASSUME CTyped, UidsInv, uid' = uid, objs' = objs, ctl'.seen = ctl.seen, ctl'.todo \subseteq ctl.todo,
         NEW n \in ctl.todo \cup {None}, NEW ds, NEW run, NEW k, MadeJob(k, n, ds, run)
  PROVE  UidsInv'
<1>1. UidsOnce'
  BY DEF UidsInv, UidsOnce
<1>2. SeenWas'
  BY DEF UidsInv, SeenWas
<1>3. SeenCovers'
  BY DEF UidsInv, SeenCovers
<1>4. MadeWas'
  <2> SUFFICES ASSUME NEW i \in MadeOf'
               PROVE  /\ made'[i].uid <= uid
                      /\ \A m \in Names : objs[m] # None /\ made'[i].uid = objs[m].uid =>
                            made'[i].gen <= objs[m].gen /\ (m \in DOMAIN ctl.seen => ctl.seen[m].uid = objs[m].uid)
                      /\ \A m \in DOMAIN ctl.seen : made'[i].uid = ctl.seen[m].uid => made'[i].gen <= ctl.seen[m].gen
    BY DEF MadeWas
  <2>0. i \in DOMAIN made \/ i = k
    BY DEF MadeJob, MadeOf
  <2>1. CASE i \in DOMAIN made
    <3>1. made'[i] = made[i]
      BY <2>1 DEF MadeJob
    <3> QED
      BY <2>1, <3>1 DEF UidsInv, MadeWas, MadeOf
  <2>2. CASE i = k /\ n = None
    <3>1. made'[i].uid = 0
      BY <2>2 DEF MadeJob
    <3>2. \A m \in Names : objs[m] # None => objs[m].uid \in 1..uid
      BY DEF CTyped, ObjectIs
    <3>3. \A m \in DOMAIN ctl.seen : ctl.seen[m].uid \in 1..uid
      BY DEF CTyped, CtlIs, ObjectIs
    <3>4. uid \in 0..MaxUid
      BY DEF CTyped
    <3> QED
      BY <3>1, <3>2, <3>3, <3>4, ConstantsHold
  <2>3. CASE i = k /\ n # None
    <3>1. made'[i].uid = ctl.seen[n].uid /\ made'[i].gen = ctl.seen[n].gen /\ n \in DOMAIN ctl.seen
      BY <2>3 DEF MadeJob, CTyped, CtlIs
    <3>2. ObjectIs(ctl.seen[n])
      BY <3>1 DEF CTyped, CtlIs
    <3>3. ctl.seen[n].uid \in 1..uid /\ ctl.seen[n].gen \in 1..MaxGen /\ uid \in 0..MaxUid
      BY <3>2 DEF ObjectIs, CTyped
    <3>4. \A m \in Names : objs[m] # None /\ objs[m].uid = ctl.seen[n].uid => m = n /\ ctl.seen[n].gen <= objs[m].gen
      BY <3>1 DEF UidsInv, SeenWas
    <3>5. \A m \in DOMAIN ctl.seen : ctl.seen[m].uid = ctl.seen[n].uid => m = n
      BY <3>1 DEF UidsInv, UidsOnce
    <3>6. \A m \in Names : objs[m] # None /\ made'[i].uid = objs[m].uid =>
            made'[i].gen <= objs[m].gen /\ (m \in DOMAIN ctl.seen => ctl.seen[m].uid = objs[m].uid)
      BY <3>1, <3>4
    <3>7. \A m \in DOMAIN ctl.seen : made'[i].uid = ctl.seen[m].uid => made'[i].gen <= ctl.seen[m].gen
      BY <3>1, <3>3, <3>5, ConstantsHold
    <3>8. made'[i].uid <= uid
      BY <3>1, <3>3, ConstantsHold
    <3> QED
      BY <3>6, <3>7, <3>8
  <2> QED
    BY <2>0, <2>1, <2>2, <2>3
<1> QED
  BY <1>1, <1>2, <1>3, <1>4 DEF UidsInv

\* A job made is one of the jobs.
LEMMA MadeFields ==
  ASSUME CTyped, NEW i \in MadeOf
  PROVE  i \in Jobs /\ made[i].uid \in Nat /\ made[i].gen \in Nat /\ made[i].drives \subseteq Drives
<1>1. made \in Seq(MadeSet) /\ Len(made) <= MaxJobs /\ MaxJobs \in Nat
  BY ConstantsHold DEF CTyped
<1>2. DOMAIN made = 1..Len(made) /\ Len(made) \in Nat /\ i \in DOMAIN made
  BY <1>1 DEF MadeOf
<1>3. made[i] \in MadeSet
  BY <1>1, <1>2
<1> QED
  BY <1>1, <1>2, <1>3 DEF MadeSet, Jobs
\* A list was fetched: it is what is there.
Listed(names) ==
  /\ DOMAIN ctl'.seen = {x \in names : objs[x] # None} /\ \A n \in DOMAIN ctl'.seen : ctl'.seen[n] = objs[n]
  /\ ctl'.todo \subseteq DOMAIN ctl'.seen /\ ctl'.cur = None /\ ctl'.pc \notin {"put", "submit"}

\* A list keeps UidsInv.
LEMMA UidsListed ==
  ASSUME UidsInv, CTyped, SameMade, uid' = uid, objs' = objs, NEW names \in SUBSET Names, Listed(names)
  PROVE  UidsInv'
<1>1. \A n \in DOMAIN ctl'.seen : n \in Names /\ objs[n] # None /\ ctl'.seen[n] = objs[n]
  BY DEF Listed
<1>2. UidsOnce'
  BY <1>1 DEF UidsInv, UidsOnce
<1>3. \A n \in DOMAIN ctl'.seen : ctl'.seen[n].gen <= objs[n].gen
  <2> TAKE n \in DOMAIN ctl'.seen
  <2>1. ObjectIs(objs[n]) /\ ctl'.seen[n] = objs[n]
    BY <1>1 DEF CTyped
  <2>2. objs[n].gen \in 1..MaxGen
    BY <2>1 DEF ObjectIs
  <2> QED
    BY <2>1, <2>2, ConstantsHold
<1>4. SeenWas'
  BY <1>1, <1>3 DEF UidsInv, UidsOnce, SeenWas
<1>5. SeenCovers'
  BY <1>1 DEF Listed, SeenCovers
<1>6. MadeWas'
  BY <1>1 DEF UidsInv, MadeWas, SameMade, MadeOf
<1> QED
  BY <1>2, <1>4, <1>5, <1>6 DEF UidsInv

\* What users do to an object there is: they delete it, or raise its generation.
Turned(o, m) ==
  \/ o = m \/ o = None
  \/ /\ o # None /\ m # None /\ o.uid = m.uid /\ o.status = m.status /\ o.gen = m.gen
  \/ /\ o # None /\ m # None /\ o.uid = m.uid /\ o.status = m.status /\ o.gen = m.gen + 1

\* Users who delete and edit keep UidsInv.
LEMMA UidsTurned ==
  ASSUME UidsInv, CTyped, CTyped', made' = made, uid' = uid, ctl' = ctl, \A n \in Names : Turned(objs'[n], objs[n])
  PROVE  UidsInv'
<1>1. \A n \in Names : objs'[n] # None => objs[n] # None /\ objs'[n].uid = objs[n].uid /\ objs'[n].status = objs[n].status
                          /\ objs[n].gen <= objs'[n].gen /\ objs[n].gen \in Nat /\ objs'[n].gen \in Nat
  <2> SUFFICES ASSUME NEW n \in Names, objs'[n] # None
               PROVE  objs[n] # None /\ objs'[n].uid = objs[n].uid /\ objs'[n].status = objs[n].status
                      /\ objs[n].gen <= objs'[n].gen /\ objs[n].gen \in Nat /\ objs'[n].gen \in Nat
    OBVIOUS
  <2>1. objs[n] # None /\ objs'[n].uid = objs[n].uid /\ objs'[n].status = objs[n].status
        /\ (objs'[n].gen = objs[n].gen \/ objs'[n].gen = objs[n].gen + 1)
    BY DEF Turned
  <2>2. objs[n].gen \in 1..MaxGen
    BY <2>1 DEF CTyped, ObjectIs
  <2> QED
    BY <2>1, <2>2, ConstantsHold
<1>2. UidsOnce'
  BY <1>1 DEF UidsInv, UidsOnce
<1>3. SeenWas'
  <2> SUFFICES ASSUME NEW n \in DOMAIN ctl.seen, NEW m \in Names, objs'[m] # None, objs'[m].uid = ctl.seen[n].uid
               PROVE  /\ n = m /\ ctl.seen[n].gen <= objs'[m].gen
                      /\ n \in ctl.todo => objs'[m].status = ctl.seen[n].status
    BY DEF SeenWas
  <2>1. n = m /\ ctl.seen[n].gen <= objs[m].gen /\ (n \in ctl.todo => objs[m].status = ctl.seen[n].status)
    BY <1>1 DEF UidsInv, SeenWas
  <2>2. ctl.seen[n].gen \in 1..MaxGen
    BY DEF CTyped, CtlIs, ObjectIs
  <2>3. ctl.seen[n].gen <= objs'[m].gen
    BY <2>1, <2>2, <1>1, ConstantsHold
  <2> QED
    BY <2>1, <2>3, <1>1
<1>4. SeenCovers'
  <2>1. ctl.todo \subseteq Names
    BY DEF CTyped, CtlIs, Names
  <2> QED
    BY <1>1, <2>1 DEF UidsInv, SeenCovers
<1>5. MadeWas'
  <2> SUFFICES ASSUME NEW i \in MadeOf
               PROVE  /\ made[i].uid <= uid
                      /\ \A n \in Names : objs'[n] # None /\ made[i].uid = objs'[n].uid =>
                            made[i].gen <= objs'[n].gen /\ (n \in DOMAIN ctl.seen => ctl.seen[n].uid = objs'[n].uid)
                      /\ \A n \in DOMAIN ctl.seen : made[i].uid = ctl.seen[n].uid => made[i].gen <= ctl.seen[n].gen
    BY DEF MadeWas, MadeOf
  <2>1. made[i].gen \in Nat
    BY MadeFields
  <2>2. /\ made[i].uid <= uid
        /\ \A n \in Names : objs[n] # None /\ made[i].uid = objs[n].uid =>
              made[i].gen <= objs[n].gen /\ (n \in DOMAIN ctl.seen => ctl.seen[n].uid = objs[n].uid)
        /\ \A n \in DOMAIN ctl.seen : made[i].uid = ctl.seen[n].uid => made[i].gen <= ctl.seen[n].gen
    BY DEF UidsInv, MadeWas
  <2>3. ASSUME NEW n \in Names, objs'[n] # None, made[i].uid = objs'[n].uid
        PROVE  made[i].gen <= objs'[n].gen /\ (n \in DOMAIN ctl.seen => ctl.seen[n].uid = objs'[n].uid)
    <3>1. made[i].gen <= objs[n].gen /\ (n \in DOMAIN ctl.seen => ctl.seen[n].uid = objs[n].uid)
      BY <1>1, <2>2, <2>3
    <3>2. made[i].gen <= objs'[n].gen
      BY <3>1, <2>1, <1>1, <2>3
    <3> QED
      BY <3>1, <3>2, <1>1, <2>3
  <2> QED
    BY <2>2, <2>3
<1> QED
  BY <1>2, <1>3, <1>4, <1>5 DEF UidsInv

\* An object with a new uid is there under a name that was free.
Created(n) ==
  /\ n \in Names /\ objs[n] = None /\ objs'[n] # None /\ uid' = uid + 1 /\ objs'[n].uid = uid' /\ objs'[n].status = NoStatus
  /\ \A m \in Names : m # n => objs'[m] = objs[m]

\* Users who create keep UidsInv.
LEMMA UidsCreated ==
  ASSUME UidsInv, CTyped, CTyped', made' = made, ctl' = ctl, NEW n \in Names, Created(n)
  PROVE  UidsInv'
<1>1. uid \in Nat /\ uid' = uid + 1 /\ objs'[n] # None /\ objs'[n].uid = uid + 1
  BY ConstantsHold DEF CTyped, Created
<1>2. \A m \in Names : objs[m] # None => objs[m].uid \in 1..uid
  BY DEF CTyped, ObjectIs
<1>3. \A m \in Names : objs[m] # None => objs[m].uid # uid + 1
  BY <1>1, <1>2
<1>4. \A m \in DOMAIN ctl.seen : ctl.seen[m].uid # uid + 1
  <2>1. \A m \in DOMAIN ctl.seen : ctl.seen[m].uid \in 1..uid
    BY DEF CTyped, CtlIs, ObjectIs
  <2> QED
    BY <1>1, <2>1
<1>5. \A i \in MadeOf : made[i].uid # uid + 1 /\ made[i].uid <= uid + 1
  <2> TAKE i \in MadeOf
  <2>1. made[i].uid \in Nat /\ made[i].uid <= uid
    BY MadeFields DEF UidsInv, MadeWas
  <2> QED
    BY <1>1, <2>1
<1>6. \A m \in Names : m # n => objs'[m] = objs[m]
  BY DEF Created
<1>7. UidsOnce'
  <2>1. \A a \in Names : \A b \in Names : objs[a] # None /\ objs[b] # None /\ objs[a].uid = objs[b].uid => a = b
    BY DEF UidsInv, UidsOnce
  <2>2. \A a \in Names : \A b \in Names : objs'[a] # None /\ objs'[b] # None /\ objs'[a].uid = objs'[b].uid => a = b
    BY <1>1, <1>3, <1>6, <2>1
  <2> QED
    BY <2>2 DEF UidsInv, UidsOnce
<1>8. SeenWas'
  <2>1. \A m \in DOMAIN ctl.seen : \A a \in Names : objs[a] # None /\ objs[a].uid = ctl.seen[m].uid =>
          /\ m = a /\ ctl.seen[m].gen <= objs[a].gen
          /\ m \in ctl.todo => objs[a].status = ctl.seen[m].status
    BY DEF UidsInv, SeenWas
  <2>2. \A m \in DOMAIN ctl.seen : \A a \in Names : objs'[a] # None /\ objs'[a].uid = ctl.seen[m].uid => a # n
    BY <1>1, <1>4
  <2>3. \A m \in DOMAIN ctl.seen : \A a \in Names : objs'[a] # None /\ objs'[a].uid = ctl.seen[m].uid =>
          /\ m = a /\ ctl.seen[m].gen <= objs'[a].gen
          /\ m \in ctl.todo => objs'[a].status = ctl.seen[m].status
    BY <1>6, <2>1, <2>2
  <2> QED
    BY <2>3 DEF SeenWas
<1>9. SeenCovers'
  <2>1. ctl.todo \subseteq Names
    BY DEF CTyped, CtlIs, Names
  <2>2. \A m \in ctl.todo : m # n => objs'[m] = objs[m]
    BY <1>6, <2>1
  <2>3. objs'[n].status.drives = NoStatus.drives
    BY DEF Created
  <2> QED
    BY <2>2, <2>3 DEF UidsInv, SeenCovers
<1>10. MadeWas'
  <2>1. \A i \in MadeOf : \A m \in Names : objs'[m] # None /\ made[i].uid = objs'[m].uid => m # n
    BY <1>1, <1>5
  <2>2. \A i \in MadeOf :
          /\ \A m \in Names : objs[m] # None /\ made[i].uid = objs[m].uid =>
                made[i].gen <= objs[m].gen /\ (m \in DOMAIN ctl.seen => ctl.seen[m].uid = objs[m].uid)
          /\ \A m \in DOMAIN ctl.seen : made[i].uid = ctl.seen[m].uid => made[i].gen <= ctl.seen[m].gen
    BY DEF UidsInv, MadeWas
  <2>3. \A i \in MadeOf : \A m \in Names : objs'[m] # None /\ made[i].uid = objs'[m].uid =>
                made[i].gen <= objs'[m].gen /\ (m \in DOMAIN ctl.seen => ctl.seen[m].uid = objs'[m].uid)
    BY <1>6, <2>1, <2>2
  <2> QED
    BY <1>1, <1>5, <2>2, <2>3 DEF MadeWas, MadeOf
<1> QED
  BY <1>7, <1>8, <1>9, <1>10 DEF UidsInv

\* A status written: the object of that name, whichever it is now.
Wrote(n, st, part) ==
  /\ n \in Names /\ objs[n] # None /\ objs'[n] # None
  /\ objs'[n].uid = objs[n].uid /\ objs'[n].gen = objs[n].gen /\ objs'[n].status = Merged(objs[n].status, st, part)
  /\ \A m \in Names : m # n => objs'[m] = objs[m]

\* A status written keeps UidsInv.
LEMMA UidsWrote ==
  ASSUME UidsInv, CTyped, made' = made, uid' = uid, NEW n \in ctl.todo, NEW st, NEW part, MovedOn(n), Wrote(n, st, part)
  PROVE  UidsInv'
<1>1. \A m \in Names : objs'[m] # None => objs[m] # None /\ objs'[m].uid = objs[m].uid /\ objs'[m].gen = objs[m].gen
  BY DEF Wrote
<1>2. ctl'.seen = ctl.seen /\ ctl'.todo = ctl.todo \ {n}
  BY DEF MovedOn
<1>3. \A m \in ctl'.todo : m # n /\ m \in Names /\ objs'[m] = objs[m]
  BY <1>2 DEF Wrote, CTyped, CtlIs, Names
<1>4. UidsOnce'
  BY <1>1, <1>2 DEF UidsInv, UidsOnce
<1>5. SeenWas'
  BY <1>1, <1>2, <1>3 DEF UidsInv, SeenWas
<1>6. SeenCovers'
  BY <1>2, <1>3 DEF UidsInv, SeenCovers
<1>7. MadeWas'
  BY <1>1, <1>2 DEF UidsInv, MadeWas, MadeOf
<1> QED
  BY <1>4, <1>5, <1>6, <1>7 DEF UidsInv

-----------------------------------------------------------------------------
(* AnswerInv: a generation of an operation a job was made for is answered,   *)
(* in the object, on the list of the pass or in the status about to be       *)
(* written: a pass never takes it for new, but after trouble.                *)
Final(st) == st.phase \notin {"", "Pending"}
\* The status answers the generation the job i was made for.
Said(o, i) == Final(o.status) /\ o.status.observed = made[i].gen
\* ... and so does the one about to be put.
Saying(i) == /\ "phase" \in ctl.patch.part /\ "observed" \in ctl.patch.part
             /\ Final(ctl.patch.st) /\ ctl.patch.st.observed = made[i].gen
\* In the object, or once what is about to be put is written.
AnsweredHere ==
  \A o \in Ops : \A i \in MadeOf : objs[o] # None /\ Match(objs[o], i) =>
     Said(objs[o], i) \/ (ctl.pc = "put" /\ ctl.cur = o /\ Saying(i))
\* On the list, of an operation that is still to come.
AnsweredSeen ==
  \A o \in Ahead \cap Ops : \A i \in MadeOf : Match(ctl.seen[o], i) => Said(ctl.seen[o], i)
\* In what is about to be put, whoever it is for by then.
AnsweredNext ==
  \A o \in Ops : \A i \in MadeOf : ctl.pc = "put" /\ ctl.cur = o /\ Match(ctl.seen[o], i) =>
     Saying(i) \/ ("phase" \notin ctl.patch.part /\ "observed" \notin ctl.patch.part)
AnswerInv == Troubled \/ (AnsweredHere /\ AnsweredSeen /\ AnsweredNext)

\* A step that makes no job and leaves the pass keeps AnswerInv.
LEMMA AnswerStays ==
  ASSUME AnswerInv, Troubled => Troubled', SameMade, objs' = objs, ctl' = ctl
  PROVE  AnswerInv'
<1>1. AnsweredHere => AnsweredHere'
  BY DEF AnsweredHere, SameMade, MadeOf, Match, Said, Saying
<1>2. AnsweredSeen => AnsweredSeen'
  BY DEF AnsweredSeen, SameMade, MadeOf, Match, Said, Ahead
<1>3. AnsweredNext => AnsweredNext'
  BY DEF AnsweredNext, SameMade, MadeOf, Match, Saying
<1> QED
  BY <1>1, <1>2, <1>3 DEF AnswerInv

\* A pass that moves on has fewer ahead.
LEMMA AheadMoved ==
  ASSUME CTyped, NEW n \in ctl.todo, ctl.cur \in {None, n}, MovedOn(n)
  PROVE  Ahead' = Ahead \ {n}
<1>1. ctl.todo \subseteq Names /\ None \notin Names
  BY ConstantsHold DEF CTyped, CtlIs, Names
<1> QED
  BY <1>1 DEF MovedOn, Ahead

\* A pass that moves on keeps AnswerInv.
LEMMA AnswerMoved ==
  ASSUME AnswerInv, CTyped, Troubled => Troubled', SameMade, objs' = objs, NEW n \in ctl.todo,
         ctl.pc # "put" \/ objs[n] = None, ctl.cur \in {None, n}, MovedOn(n)
  PROVE  AnswerInv'
<1>1. Ahead' = Ahead \ {n}
  BY AheadMoved
<1>2. ctl'.pc # "put" /\ ctl'.seen = ctl.seen
  BY DEF MovedOn
<1>3. AnsweredHere => AnsweredHere'
  <2> SUFFICES ASSUME AnsweredHere, NEW o \in Ops, NEW i \in MadeOf, objs[o] # None, Match(objs[o], i)
               PROVE  Said(objs[o], i)
    BY DEF AnsweredHere, SameMade, MadeOf, Match, Said
  <2>1. Said(objs[o], i) \/ (ctl.pc = "put" /\ ctl.cur = o)
    BY DEF AnsweredHere
  <2>2. o # None
    BY ConstantsHold DEF Names
  <2> QED
    BY <2>1, <2>2
<1>4. AnsweredSeen => AnsweredSeen'
  BY <1>1, <1>2 DEF AnsweredSeen, SameMade, MadeOf, Match, Said
<1>5. AnsweredNext'
  BY <1>2 DEF AnsweredNext
<1> QED
  BY <1>3, <1>4, <1>5 DEF AnswerInv

\* So does one that is about to put an answer.
LEMMA AnswerPut ==
  ASSUME AnswerInv, CTyped, Troubled => Troubled', SameMade, objs' = objs, NEW n \in ctl.todo,
         ctl.pc # "put", ctl.cur \in {None, n}, NEW st, NEW part, AboutToPut(n, st, part),
         n \in Ops => \A i \in MadeOf : Match(ctl.seen[n], i) =>
                         \/ "phase" \in part /\ "observed" \in part /\ Final(st) /\ st.observed = made[i].gen
                         \/ "phase" \notin part /\ "observed" \notin part
  PROVE  AnswerInv'
<1>1. ctl'.pc = "put" /\ ctl'.seen = ctl.seen /\ ctl'.todo = ctl.todo /\ ctl'.cur = n /\ ctl'.patch.st = st /\ ctl'.patch.part = part
  BY DEF AboutToPut
<1>2. Ahead' \subseteq Ahead
  <2>1. ctl.todo \subseteq Names /\ None \notin Names
    BY ConstantsHold DEF CTyped, CtlIs, Names
  <2> QED
    BY <1>1, <2>1 DEF Ahead
<1>3. AnsweredHere => AnsweredHere'
  BY DEF AnsweredHere, SameMade, MadeOf, Match, Said
<1>4. AnsweredSeen => AnsweredSeen'
  BY <1>1, <1>2 DEF AnsweredSeen, SameMade, MadeOf, Match, Said
<1>5. AnsweredNext'
  BY <1>1 DEF AnsweredNext, SameMade, MadeOf, Match, Saying
<1> QED
  BY <1>3, <1>4, <1>5 DEF AnswerInv

\* A job that is for no operation.
LEMMA MadeForOthers ==
  ASSUME CTyped, UidsInv, NEW n \in ctl.todo \cup {None}, n \notin Ops, NEW ds, NEW run, NEW k, MadeJob(k, n, ds, run)
  PROVE  /\ \A o \in Ops : objs[o] # None => made'[k].uid # objs[o].uid
         /\ \A o \in DOMAIN ctl.seen \cap Ops : made'[k].uid # ctl.seen[o].uid
<1>1. \A o \in Names : objs[o] # None => objs[o].uid \in 1..uid
  BY DEF CTyped, ObjectIs
<1>2. \A o \in DOMAIN ctl.seen : ctl.seen[o].uid \in 1..uid
  BY DEF CTyped, CtlIs, ObjectIs
<1>3. uid \in Nat /\ Ops \subseteq Names
  BY ConstantsHold DEF CTyped, Names
<1>4. CASE n = None
  <2>1. made'[k].uid = 0
    BY <1>4 DEF MadeJob
  <2> QED
    BY <1>1, <1>2, <1>3, <2>1
<1>5. CASE n # None
  <2>1. made'[k].uid = ctl.seen[n].uid /\ n \in DOMAIN ctl.seen
    BY <1>5 DEF MadeJob, CTyped, CtlIs
  <2> QED
    BY <1>3, <2>1 DEF UidsInv, UidsOnce, SeenWas
<1> QED
  BY <1>4, <1>5

\* ... and it keeps AnswerInv.
LEMMA AnswerMadeForOthers ==
  ASSUME AnswerInv, CTyped, UidsInv, Troubled => Troubled', objs' = objs, NEW n \in ctl.todo \cup {None}, n \notin Ops,
         NEW ds, NEW run, NEW k, MadeJob(k, n, ds, run),
         ctl'.pc = ctl.pc, ctl'.seen = ctl.seen, ctl'.todo = ctl.todo, ctl'.cur = ctl.cur, ctl'.patch = ctl.patch
  PROVE  AnswerInv'
<1>1. /\ \A o \in Ops : objs[o] # None => made'[k].uid # objs[o].uid
      /\ \A o \in DOMAIN ctl.seen \cap Ops : made'[k].uid # ctl.seen[o].uid
  BY MadeForOthers
<1>2. MadeOf' = MadeOf \cup {k} /\ \A i \in MadeOf : made'[i] = made[i]
  BY DEF MadeJob, MadeOf
<1>3. ctl.todo \subseteq DOMAIN ctl.seen /\ (ctl.pc = "put" => ctl.cur \in DOMAIN ctl.seen)
  BY DEF CTyped, CtlIs, Placed
<1>4. AnsweredHere => AnsweredHere'
  BY <1>1, <1>2 DEF AnsweredHere, Match, Said, Saying
<1>5. AnsweredSeen => AnsweredSeen'
  BY <1>1, <1>2, <1>3 DEF AnsweredSeen, Match, Said, Ahead
<1>6. AnsweredNext => AnsweredNext'
  BY <1>1, <1>2, <1>3 DEF AnsweredNext, Match, Saying
<1> QED
  BY <1>4, <1>5, <1>6 DEF AnswerInv

\* A job made for an operation, with its answer about to be put, keeps AnswerInv.
LEMMA AnswerMade ==
  ASSUME AnswerInv, CTyped, UidsInv, Troubled => Troubled', objs' = objs, NEW n \in ctl.todo \cap Ops,
         NEW ds, NEW run, NEW k, MadeJob(k, n, ds, run), ctl.pc # "put", ctl.cur = None,
         NEW st, NEW part, AboutToPut(n, st, part),
         "phase" \in part /\ "observed" \in part /\ Final(st) /\ st.observed = ctl.seen[n].gen
  PROVE  AnswerInv'
<1>1. ctl'.pc = "put" /\ ctl'.seen = ctl.seen /\ ctl'.todo = ctl.todo /\ ctl'.cur = n /\ ctl'.patch.st = st /\ ctl'.patch.part = part
  BY DEF AboutToPut
<1>2. MadeOf' = MadeOf \cup {k} /\ (\A i \in MadeOf : made'[i] = made[i])
      /\ made'[k].uid = ctl.seen[n].uid /\ made'[k].gen = ctl.seen[n].gen
  <2>1. n # None
    BY ConstantsHold DEF Names
  <2> QED
    BY <2>1 DEF MadeJob, MadeOf
<1>3. n \in DOMAIN ctl.seen /\ ctl.todo \subseteq DOMAIN ctl.seen
  BY DEF CTyped, CtlIs
<1>4. \A o \in Ops : objs[o] # None /\ objs[o].uid = ctl.seen[n].uid => o = n
  BY <1>3 DEF UidsInv, SeenWas, Names
<1>5. \A o \in DOMAIN ctl.seen : ctl.seen[o].uid = ctl.seen[n].uid => o = n
  BY <1>3 DEF UidsInv, UidsOnce
<1>6. AnsweredHere => AnsweredHere'
  <2> SUFFICES ASSUME AnsweredHere, NEW o \in Ops, NEW i \in MadeOf', objs[o] # None, Match(objs[o], i)'
               PROVE  Said(objs[o], i)' \/ (ctl'.pc = "put" /\ ctl'.cur = o /\ Saying(i)')
    BY DEF AnsweredHere
  <2>1. CASE i \in MadeOf
    BY <1>2, <2>1 DEF AnsweredHere, Match, Said
  <2>2. CASE i = k
    BY <1>1, <1>2, <1>4, <2>2 DEF Match, Saying
  <2> QED
    BY <1>2, <2>1, <2>2
<1>7. AnsweredSeen => AnsweredSeen'
  <2> SUFFICES ASSUME AnsweredSeen, NEW o \in Ahead' \cap Ops, NEW i \in MadeOf', Match(ctl.seen[o], i)'
               PROVE  Said(ctl.seen[o], i)'
    BY DEF AnsweredSeen
  <2>1. o \in ctl.todo /\ o # n /\ o \in DOMAIN ctl.seen /\ o # None
    BY <1>1, <1>3, ConstantsHold DEF Ahead, Names
  <2>2. i # k
    BY <1>1, <1>2, <1>5, <2>1 DEF Match
  <2>3. i \in MadeOf /\ made'[i] = made[i] /\ o \in Ahead
    BY <1>2, <2>1, <2>2 DEF Ahead
  <2> QED
    BY <1>1, <2>3 DEF AnsweredSeen, Match, Said
<1>8. AnsweredNext => AnsweredNext'
  <2> SUFFICES ASSUME NEW i \in MadeOf', Match(ctl.seen[n], i)' PROVE Saying(i)'
    BY <1>1 DEF AnsweredNext
  <2>1. made'[i].gen = ctl.seen[n].gen
    BY <1>1 DEF Match
  <2> QED
    BY <1>1, <2>1 DEF Saying
<1> QED
  BY <1>6, <1>7, <1>8 DEF AnswerInv

\* A list keeps AnswerInv.
LEMMA AnswerListed ==
  ASSUME AnswerInv, Troubled => Troubled', SameMade, objs' = objs, ctl.pc # "put", NEW names, Listed(names)
  PROVE  AnswerInv'
<1>1. AnsweredHere => AnsweredHere'
  BY DEF AnsweredHere, SameMade, MadeOf, Match, Said
<1>2. \A o \in Ahead' : o \in DOMAIN ctl'.seen /\ ctl'.seen[o] = objs[o] /\ objs[o] # None
  BY DEF Listed, Ahead
<1>3. AnsweredHere => AnsweredSeen'
  BY <1>2 DEF AnsweredHere, AnsweredSeen, SameMade, MadeOf, Match, Said
<1>4. AnsweredNext'
  BY DEF AnsweredNext, Listed
<1> QED
  BY <1>1, <1>3, <1>4 DEF AnswerInv

\* Users who delete and edit keep AnswerInv.
LEMMA AnswerTurned ==
  ASSUME AnswerInv, UidsInv, CTyped, Troubled => Troubled', made' = made, ctl' = ctl, \A n \in Names : Turned(objs'[n], objs[n])
  PROVE  AnswerInv'
<1>1. \A n \in Names : \A i \in MadeOf : objs'[n] # None /\ Match(objs'[n], i) =>
        objs[n] # None /\ Match(objs[n], i) /\ objs'[n].status = objs[n].status
  <2> SUFFICES ASSUME NEW n \in Names, NEW i \in MadeOf, objs'[n] # None, Match(objs'[n], i)
               PROVE  objs[n] # None /\ Match(objs[n], i) /\ objs'[n].status = objs[n].status
    OBVIOUS
  <2>1. objs[n] # None /\ objs'[n].uid = objs[n].uid /\ objs'[n].status = objs[n].status
        /\ (objs'[n].gen = objs[n].gen \/ objs'[n].gen = objs[n].gen + 1)
    BY DEF Turned
  <2>2. objs[n].gen \in 1..MaxGen
    BY <2>1 DEF CTyped, ObjectIs
  <2>3. made[i].uid = objs[n].uid /\ made[i].gen = objs'[n].gen
    BY <2>1 DEF Match
  <2>4. made[i].gen <= objs[n].gen
    BY <2>1, <2>3 DEF UidsInv, MadeWas
  <2>5. objs'[n].gen = objs[n].gen
    BY <2>1, <2>2, <2>3, <2>4, ConstantsHold
  <2> QED
    BY <2>1, <2>3, <2>5 DEF Match
<1>2. AnsweredHere => AnsweredHere'
  <2> SUFFICES ASSUME AnsweredHere, NEW o \in Ops, NEW i \in MadeOf, objs'[o] # None, Match(objs'[o], i)
               PROVE  Said(objs'[o], i) \/ (ctl.pc = "put" /\ ctl.cur = o /\ Saying(i))
    BY DEF AnsweredHere, MadeOf, Match, Said, Saying
  <2>1. objs[o] # None /\ Match(objs[o], i) /\ objs'[o].status = objs[o].status
    BY <1>1 DEF Names
  <2> QED
    BY <2>1 DEF AnsweredHere, Said
<1>3. AnsweredSeen => AnsweredSeen'
  BY DEF AnsweredSeen, MadeOf, Match, Said, Ahead
<1>4. AnsweredNext => AnsweredNext'
  BY DEF AnsweredNext, MadeOf, Match, Saying
<1> QED
  BY <1>2, <1>3, <1>4 DEF AnswerInv

\* Users who create keep AnswerInv.
LEMMA AnswerCreated ==
  ASSUME AnswerInv, UidsInv, CTyped, Troubled => Troubled', made' = made, ctl' = ctl, NEW n \in Names, Created(n)
  PROVE  AnswerInv'
<1>1. \A i \in MadeOf : made[i].uid # objs'[n].uid
  <2> TAKE i \in MadeOf
  <2>1. made[i].uid \in Nat /\ made[i].uid <= uid
    BY MadeFields DEF UidsInv, MadeWas
  <2>2. uid \in Nat /\ objs'[n].uid = uid + 1
    BY ConstantsHold DEF CTyped, Created
  <2> QED
    BY <2>1, <2>2
<1>2. \A m \in Names : m # n => objs'[m] = objs[m]
  BY DEF Created
<1>3. AnsweredHere => AnsweredHere'
  BY <1>1, <1>2 DEF AnsweredHere, MadeOf, Match, Said, Saying, Names
<1>4. AnsweredSeen => AnsweredSeen'
  BY DEF AnsweredSeen, MadeOf, Match, Said, Ahead
<1>5. AnsweredNext => AnsweredNext'
  BY DEF AnsweredNext, MadeOf, Match, Saying
<1> QED
  BY <1>3, <1>4, <1>5 DEF AnswerInv

\* What was made for the object there is now and its generation was made for the one the pass saw.
LEMMA SeenMatches ==
  ASSUME UidsInv, CTyped, NEW n \in DOMAIN ctl.seen, n \in Names, objs[n] # None, NEW i \in MadeOf, Match(objs[n], i)
  PROVE  Match(ctl.seen[n], i) /\ ctl.seen[n].uid = objs[n].uid
<1>1. ctl.seen[n].uid = objs[n].uid
  BY DEF UidsInv, MadeWas, Match
<1>2. made[i].gen <= ctl.seen[n].gen
  BY <1>1 DEF UidsInv, MadeWas, Match
<1>3. ctl.seen[n].gen <= objs[n].gen
  BY <1>1 DEF UidsInv, SeenWas
<1>4. made[i].gen = objs[n].gen /\ made[i].gen \in Nat
  BY MadeFields DEF Match
<1>5. ctl.seen[n].gen \in 1..MaxGen
  BY DEF CTyped, CtlIs, ObjectIs
<1>6. ctl.seen[n].gen = made[i].gen
  BY <1>2, <1>3, <1>4, <1>5, ConstantsHold
<1> QED
  BY <1>1, <1>6 DEF Match

\* A status written keeps AnswerInv.
LEMMA AnswerWrote ==
  ASSUME AnswerInv, UidsInv, CTyped, Troubled => Troubled', made' = made, ctl.pc = "put", NEW n \in ctl.todo, n = ctl.cur,
         MovedOn(n), Wrote(n, ctl.patch.st, ctl.patch.part)
  PROVE  AnswerInv'
<1>1. Ahead' = Ahead \ {n}
  BY AheadMoved
<1>2. ctl'.pc # "put" /\ ctl'.seen = ctl.seen
  BY DEF MovedOn
<1>3. \A m \in Names : m # n => objs'[m] = objs[m]
  BY DEF Wrote
<1>4. ASSUME AnsweredHere, AnsweredNext, NEW o \in Ops, NEW i \in MadeOf, objs'[o] # None, Match(objs'[o], i)
      PROVE  Said(objs'[o], i)
  <2>1. CASE o # n
    BY <1>3, <1>4, <2>1 DEF AnsweredHere, Said, Names
  <2>2. CASE o = n
    <3>1. objs[n] # None /\ Match(objs[n], i) /\ objs'[n].status = Merged(objs[n].status, ctl.patch.st, ctl.patch.part)
      BY <1>4, <2>2 DEF Wrote, Match
    <3>2. n \in Names /\ n \in DOMAIN ctl.seen
      BY DEF CTyped, CtlIs, Names
    <3>3. objs[n].status \in Statuses /\ ctl.patch.st \in Statuses /\ ctl.patch.part \in SUBSET All
      BY <3>1, <3>2 DEF CTyped, CtlIs, ObjectIs
    <3> DEFINE s == Merged(objs[n].status, ctl.patch.st, ctl.patch.part)
    <3>4. /\ s.phase = IF "phase" \in ctl.patch.part THEN ctl.patch.st.phase ELSE objs[n].status.phase
          /\ s.observed = IF "observed" \in ctl.patch.part THEN ctl.patch.st.observed ELSE objs[n].status.observed
      BY <3>3, MergedIs
    <3> HIDE DEF s
    <3>5. objs'[n].status = s
      BY <3>1 DEF s
    <3>6. CASE Saying(i)
      BY <3>4, <3>5, <3>6, <2>2 DEF Saying, Said, Final
    <3>7. CASE ~Saying(i)
      <4>1. Said(objs[n], i)
        BY <1>4, <2>2, <3>1, <3>7 DEF AnsweredHere
      <4>2. Match(ctl.seen[n], i)
        BY <3>1, <3>2, SeenMatches
      <4>3. "phase" \notin ctl.patch.part /\ "observed" \notin ctl.patch.part
        BY <1>4, <2>2, <3>7, <4>2 DEF AnsweredNext
      <4> QED
        BY <3>4, <3>5, <4>1, <4>3, <2>2 DEF Said, Final
    <3> QED
      BY <3>6, <3>7
  <2> QED
    BY <2>1, <2>2
<1>5. AnsweredHere /\ AnsweredNext => AnsweredHere'
  BY <1>4 DEF AnsweredHere, MadeOf, Match, Said
<1>6. AnsweredSeen => AnsweredSeen'
  BY <1>1, <1>2 DEF AnsweredSeen, MadeOf, Match, Said
<1>7. AnsweredNext'
  BY <1>2 DEF AnsweredNext
<1> QED
  BY <1>5, <1>6, <1>7 DEF AnswerInv

-----------------------------------------------------------------------------
(* OpRunsOnce follows: a job is made only for an operation that is not       *)
(* answered.                                                                 *)
\* No new job and no new owner: OpRunsOnce stands.
LEMMA OnceStays ==
  ASSUME OpRunsOnce, CTyped, Troubled => Troubled', SameMade, \A j \in Jobs : jobs'[j].owner \in {jobs[j].owner, None}
  PROVE  OpRunsOnce'
<1>1. \A i \in DOMAIN made : \A k \in DOMAIN made : Same(i, k)' => Same(i, k)
  BY DEF SameMade, Same
<1>2. \A k \in DOMAIN made : k \in Jobs
  BY MadeFields DEF MadeOf
<1>3. None \notin Ops
  BY ConstantsHold DEF Names
<1> SUFFICES ASSUME NEW i \in DOMAIN made, NEW k \in DOMAIN made, Same(i, k)', NEW o \in Ops, jobs'[k].owner = o
             PROVE  Troubled'
  BY DEF OpRunsOnce, SameMade
<1>4. jobs[k].owner = o
  BY <1>2, <1>3
<1> QED
  BY <1>1, <1>4 DEF OpRunsOnce

\* A new job that repeats no other, or after trouble.
LEMMA OnceMade ==
  ASSUME OpRunsOnce, CTyped, Troubled => Troubled',
         NEW n \in ctl.todo \cup {None}, NEW ds, NEW run, NEW k, MadeJob(k, n, ds, run),
         n \in Ops => Troubled \/ \A i \in MadeOf : ~Match(ctl.seen[n], i)
  PROVE  OpRunsOnce'
<1>1. DOMAIN made' = DOMAIN made \cup {k} /\ (\A i \in DOMAIN made : made'[i] = made[i]) /\ k = Len(made) + 1 /\ k \notin DOMAIN made
      /\ jobs'[k].owner = n /\ (\A j \in Jobs : j # k => jobs'[j] = jobs[j] \/ jobs'[j] = NoJob)
      /\ (n # None => made'[k].uid = ctl.seen[n].uid /\ made'[k].gen = ctl.seen[n].gen)
  BY DEF MadeJob
<1>2. DOMAIN made = 1..Len(made) /\ Len(made) \in Nat
  BY DEF CTyped
<1>3. None \notin Ops /\ NoJob.owner = None
  BY ConstantsHold, NoJobIs DEF Names
<1>4. \A i \in DOMAIN made : i \in Jobs
  BY MadeFields DEF MadeOf
<1> SUFFICES ASSUME NEW a \in DOMAIN made', NEW b \in DOMAIN made', Same(a, b)', NEW o \in Ops, jobs'[b].owner = o
             PROVE  Troubled'
  BY DEF OpRunsOnce
<1>5. a < b /\ made'[a].uid = made'[b].uid /\ made'[a].gen = made'[b].gen /\ made'[a].uid # 0
  BY DEF Same
<1>6. a \in DOMAIN made /\ made'[a] = made[a]
  <2>1. a # k
    BY <1>1, <1>2, <1>5
  <2> QED
    BY <1>1, <2>1
<1>7. CASE b \in DOMAIN made
  <2>1. b # k /\ b \in Jobs
    BY <1>1, <1>4, <1>7
  <2>2. jobs[b].owner = o
    BY <1>1, <1>3, <2>1
  <2>3. Same(a, b)
    BY <1>1, <1>5, <1>6, <1>7 DEF Same
  <2> QED
    BY <1>6, <1>7, <2>2, <2>3 DEF OpRunsOnce
<1>8. CASE b = k
  <2>1. n = o /\ n # None
    BY <1>1, <1>3, <1>8
  <2>2. Match(ctl.seen[n], a)
    BY <1>1, <1>5, <1>6, <1>8, <2>1 DEF Match
  <2> QED
    BY <1>6, <2>1, <2>2 DEF MadeOf
<1> QED
  BY <1>1, <1>7, <1>8

-----------------------------------------------------------------------------
(* JobsInv and RefInv: the jobs and the records that name them.  A drive     *)
(* that a kept job has not done is waiting, at work, interrupted or given    *)
(* up; a record names only jobs of its own object, or dropped ones.          *)
Held == {"queued", "running", "interrupted", "failed", "cancelled"}
\* A drive that a kept job has not done: how it may stand.
HeldStates ==
  \A j \in Jobs : \A d \in Drives : jobs[j].kept /\ d \in made[j].drives => jobs[j].dj[d] \in Held
\* Nothing of a cancelled job is interrupted, but after trouble.
CancelledStay ==
  Troubled \/ \A j \in Jobs : \A d \in Drives : jobs[j].cancel => jobs[j].dj[d] # "interrupted"
JobsInv == KeptJobs /\ HeldStates /\ CancelledStay

\* A record of a drive names no job that was not made, and none of another object.
RefsFine(n, drives) ==
  \A d \in Drives : drives[d] # None =>
    /\ drives[d].job \in 0..Len(made)
    /\ drives[d].job # 0 => jobs[drives[d].job].owner \in {n, None}
\* ... in the objects, on the list, in what is about to be put, submitted or was told.
RefInv ==
  /\ \A n \in Names : objs[n] # None => RefsFine(n, objs[n].status.drives)
  /\ \A n \in DOMAIN ctl.seen : RefsFine(n, ctl.seen[n].status.drives)
  /\ ctl.pc = "put" => RefsFine(ctl.cur, ctl.patch.st.drives) /\ ctl.patch.st.job <= Len(made)
  /\ ctl.pc = "submit" => RefsFine(ctl.cur, ctl.recs)
  /\ \A n \in Names : told[n] # None => RefsFine(n, told[n][1].drives) /\ told[n][1].job <= Len(made)

\* The records name the job j; somebody's do.
RefIn(drives, j) == \E d \in Drives : drives[d] # None /\ drives[d].job = j
Ref(j) == \/ \E n \in Names : objs[n] # None /\ RefIn(objs[n].status.drives, j)
          \/ \E n \in DOMAIN ctl.seen : RefIn(ctl.seen[n].status.drives, j)
          \/ ctl.pc = "put" /\ RefIn(ctl.patch.st.drives, j)
          \/ ctl.pc = "submit" /\ RefIn(ctl.recs, j)
\* The drive d is to be worked at by the job j, now or once it is resumed.
Live(j, d) == jobs[j].dj[d] \in {"queued", "running"} \/ (jobs[j].dj[d] = "interrupted" /\ ~jobs[j].cancel)
\* It is interrupted, and nobody names it.
Lost(j, d) == jobs[j].dj[d] = "interrupted" /\ ~Ref(j)

\* What a step may do to the jobs there are.
JobGoes(j) ==
  /\ jobs'[j].kept => jobs[j].kept /\ jobs'[j].owner = jobs[j].owner
  /\ ~jobs'[j].kept => jobs'[j] = NoJob
  /\ \A d \in Drives : jobs'[j].kept /\ jobs[j].dj[d] \in Held => jobs'[j].dj[d] \in Held \/ d \notin made'[j].drives
  /\ \A d \in Drives : jobs'[j].cancel /\ jobs'[j].dj[d] = "interrupted" =>
        Troubled' \/ (jobs[j].cancel /\ jobs[j].dj[d] = "interrupted")
  /\ jobs[j].owner \in Policies => \A d \in Drives : Live(j, d)' =>
        Live(j, d) /\ (~Ref(j) /\ jobs[j].dj[d] = "interrupted" => jobs'[j].dj[d] = "interrupted")
\* ... to all of them.
JobsGo == \A j \in Jobs : JobGoes(j)
OwnersStay == \A j \in Jobs : jobs'[j].owner \in {jobs[j].owner, None}

\* The number of jobs made stands.
LEMMA SameLen ==
  ASSUME CTyped, SameMade, made' \in Seq(MadeSet) PROVE Len(made') = Len(made) /\ Len(made) \in Nat
BY DEF CTyped, SameMade

\* A job may be dropped.
LEMMA NoJobGoes ==
  ASSUME NEW j \in Jobs, jobs'[j] = NoJob PROVE JobGoes(j)
BY NoJobIs DEF JobGoes, Live

\* Nobody's job comes to be another's.
LEMMA JobsOwned ==
  ASSUME JobsGo PROVE OwnersStay
<1> SUFFICES ASSUME NEW j \in Jobs PROVE jobs'[j].owner \in {jobs[j].owner, None}
  BY DEF OwnersStay
<1>1. JobGoes(j)
  BY DEF JobsGo
<1> QED
  BY <1>1, NoJobIs DEF JobGoes

\* Jobs that go on keep JobsInv.
LEMMA JobsKeepGoing ==
  ASSUME CTyped, JobsInv, JobsGo, SameMade, Troubled => Troubled'
  PROVE  JobsInv'
<1>1. \A j \in Jobs : JobGoes(j)
  BY DEF JobsGo
<1>2. KeptJobs'
  BY <1>1 DEF JobGoes, JobsInv, KeptJobs, SameMade, MadeOf
<1>3. HeldStates'
  <2> SUFFICES ASSUME NEW j \in Jobs, NEW d \in Drives, jobs'[j].kept, d \in made'[j].drives
               PROVE  jobs'[j].dj[d] \in Held
    BY DEF HeldStates
  <2>1. jobs[j].kept /\ j \in DOMAIN made
    BY <1>1 DEF JobGoes, JobsInv, KeptJobs, MadeOf
  <2>2. d \in made[j].drives
    BY <2>1 DEF SameMade
  <2>3. jobs[j].dj[d] \in Held
    BY <2>1, <2>2 DEF JobsInv, HeldStates
  <2> QED
    BY <1>1, <2>3 DEF JobGoes
<1>4. CancelledStay'
  <2> SUFFICES ASSUME ~Troubled', NEW j \in Jobs, NEW d \in Drives, jobs'[j].cancel, jobs'[j].dj[d] = "interrupted" PROVE FALSE
    BY DEF CancelledStay
  <2>1. jobs[j].cancel /\ jobs[j].dj[d] = "interrupted"
    BY <1>1 DEF JobGoes
  <2> QED
    BY <2>1 DEF JobsInv, CancelledStay
<1> QED
  BY <1>2, <1>3, <1>4 DEF JobsInv

\* A new job keeps JobsInv.
LEMMA JobsMade ==
  ASSUME CTyped, JobsInv, Troubled => Troubled', NEW n, NEW ds, NEW run \in SUBSET Drives, NEW k, MadeJob(k, n, ds, run)
  PROVE  JobsInv'
<1>1. /\ k \in Jobs /\ k \notin DOMAIN made /\ DOMAIN made' = DOMAIN made \cup {k} /\ \A i \in DOMAIN made : made'[i] = made[i]
      /\ made'[k].drives = run /\ \A j \in Jobs : j # k => jobs'[j] = jobs[j] \/ jobs'[j] = NoJob
      /\ jobs'[k].kept /\ ~jobs'[k].cancel /\ \A d \in run : jobs'[k].dj[d] = "queued"
  BY DEF MadeJob
<1>2. KeptJobs'
  BY <1>1, NoJobIs DEF JobsInv, KeptJobs, MadeOf
<1>3. HeldStates'
  <2> SUFFICES ASSUME NEW j \in Jobs, NEW d \in Drives, jobs'[j].kept, d \in made'[j].drives
               PROVE  jobs'[j].dj[d] \in Held
    BY DEF HeldStates
  <2>1. CASE j = k
    BY <1>1, <2>1 DEF Held
  <2>2. CASE j # k
    <3>1. jobs'[j] = jobs[j] /\ jobs[j].kept
      BY <1>1, <2>2, NoJobIs
    <3>2. j \in DOMAIN made
      BY <3>1 DEF JobsInv, KeptJobs, MadeOf
    <3> QED
      BY <1>1, <3>1, <3>2 DEF JobsInv, HeldStates
  <2> QED
    BY <2>1, <2>2
<1>4. CancelledStay'
  BY <1>1, NoJobIs DEF JobsInv, CancelledStay
<1> QED
  BY <1>2, <1>3, <1>4 DEF JobsInv

\* ... after a step.
FineNext(n, drives) ==
  \A d \in Drives : drives[d] # None =>
    /\ drives[d].job \in 0..Len(made')
    /\ drives[d].job # 0 => jobs'[drives[d].job].owner \in {n, None}

\* What was fine to name is fine after a step.
LEMMA RefsStay ==
  ASSUME CTyped, Len(made) <= Len(made'), Len(made') \in Nat,
         \A j \in DOMAIN made : jobs'[j].owner \in {jobs[j].owner, None},
         NEW n, NEW drives, RefsFine(n, drives)
  PROVE  FineNext(n, drives)
<1>1. DOMAIN made = 1..Len(made) /\ Len(made) \in Nat
  BY DEF CTyped
<1> SUFFICES ASSUME NEW d \in Drives, drives[d] # None
             PROVE  /\ drives[d].job \in 0..Len(made')
                    /\ drives[d].job # 0 => jobs'[drives[d].job].owner \in {n, None}
  BY DEF FineNext
<1>2. drives[d].job \in 0..Len(made) /\ (drives[d].job # 0 => jobs[drives[d].job].owner \in {n, None})
  BY DEF RefsFine
<1>3. drives[d].job # 0 => drives[d].job \in DOMAIN made
  BY <1>1, <1>2
<1> QED
  BY <1>1, <1>2, <1>3

\* A merge of fine records is fine.
LEMMA RefsMerged ==
  ASSUME NEW n, NEW old \in [Drives -> Parts], NEW new \in [Drives -> Parts], RefsFine(n, old), RefsFine(n, new), NEW ds,
         \A d \in Drives : ds[d] = MergedRecord(old[d], new[d])
  PROVE  RefsFine(n, ds)
<1> SUFFICES ASSUME NEW d \in Drives, ds[d] # None
             PROVE  /\ ds[d].job \in 0..Len(made)
                    /\ ds[d].job # 0 => jobs[ds[d].job].owner \in {n, None}
  BY DEF RefsFine
<1>1. old[d] \in Parts /\ new[d] \in Parts
  OBVIOUS
<1>2. /\ new[d] = None => ds[d] = old[d]
      /\ new[d] # None => ds[d].job = IF old[d] = None \/ new[d].job # 0 THEN new[d].job ELSE old[d].job
  BY <1>1, MergedRecordIs
<1>3. /\ old[d] # None => old[d].job \in 0..Len(made) /\ (old[d].job # 0 => jobs[old[d].job].owner \in {n, None})
      /\ new[d] # None => new[d].job \in 0..Len(made) /\ (new[d].job # 0 => jobs[new[d].job].owner \in {n, None})
  BY DEF RefsFine
<1> QED
  BY <1>2, <1>3

\* The empty records name nothing.
LEMMA NoRefs ==
  /\ \A n : RefsFine(n, NoStatus.drives) /\ RefsFine(n, Rest.recs)
  /\ \A j : ~RefIn(NoStatus.drives, j) /\ ~RefIn(Rest.recs, j)
BY NoStatusIs DEF RefsFine, RefIn

-----------------------------------------------------------------------------
(* How the jobs and the records' names grow.                                 *)
\* Nothing that a record may name is given to another.
Growing ==
  /\ Len(made) <= Len(made') /\ Len(made') \in Nat
  /\ \A j \in DOMAIN made : jobs'[j].owner \in {jobs[j].owner, None}

\* Jobs that go on are such a step,
LEMMA GoesGrowing ==
  ASSUME CTyped, JobsGo, SameMade, made' \in Seq(MadeSet) PROVE Growing
<1>1. Len(made') = Len(made) /\ Len(made) \in Nat
  BY SameLen
<1>2. \A j \in DOMAIN made : j \in Jobs
  BY MadeFields DEF MadeOf
<1>3. OwnersStay
  BY JobsOwned
<1> QED
  BY <1>1, <1>2, <1>3 DEF Growing, OwnersStay

\* ... and so is a new job.
LEMMA MadeGrowing ==
  ASSUME CTyped, NEW n, NEW ds, NEW run, NEW k, MadeJob(k, n, ds, run) PROVE Growing
<1>1. Len(made) \in Nat
  BY DEF CTyped
<1>2. Len(made') = Len(made) + 1 /\ k \notin DOMAIN made /\ \A j \in Jobs : j # k => jobs'[j] = jobs[j] \/ jobs'[j] = NoJob
  BY DEF MadeJob
<1>3. \A j \in DOMAIN made : j \in Jobs
  BY MadeFields DEF MadeOf
<1>4. \A j \in DOMAIN made : jobs'[j].owner \in {jobs[j].owner, None}
  BY <1>2, <1>3, NoJobIs
<1> QED
  BY <1>1, <1>2, <1>4 DEF Growing

\* What a record names after a step was fine before it, or is of this step: RefInv is kept.
LEMMA RefsKept ==
  ASSUME CTyped, RefInv, Growing,
         \A n \in Names : objs'[n] # None => \/ objs[n] # None /\ objs'[n].status = objs[n].status
                                             \/ FineNext(n, objs'[n].status.drives),
         \A n \in DOMAIN ctl'.seen : \/ n \in DOMAIN ctl.seen /\ ctl'.seen[n] = ctl.seen[n]
                                     \/ FineNext(n, ctl'.seen[n].status.drives),
         ctl'.pc = "put" => \/ ctl.pc = "put" /\ ctl'.cur = ctl.cur /\ ctl'.patch = ctl.patch
                            \/ FineNext(ctl'.cur, ctl'.patch.st.drives) /\ ctl'.patch.st.job <= Len(made'),
         ctl'.pc = "submit" => \/ ctl.pc = "submit" /\ ctl'.cur = ctl.cur /\ ctl'.recs = ctl.recs
                               \/ FineNext(ctl'.cur, ctl'.recs),
         \A n \in Names : told'[n] # None => \/ told'[n] = told[n]
                                             \/ FineNext(n, told'[n][1].drives) /\ told'[n][1].job <= Len(made')
  PROVE  RefInv'
<1>1. \A j \in DOMAIN made : jobs'[j].owner \in {jobs[j].owner, None}
  BY DEF Growing
<1>2. Len(made) <= Len(made') /\ Len(made') \in Nat
  BY DEF Growing
<1>3. \A n \in Names : objs'[n] # None => FineNext(n, objs'[n].status.drives)
  <2> SUFFICES ASSUME NEW n \in Names, objs[n] # None, objs'[n].status = objs[n].status
               PROVE  FineNext(n, objs'[n].status.drives)
    OBVIOUS
  <2> DEFINE x == objs'[n].status.drives
  <2>1. PICK y : y = objs'[n].status.drives
    OBVIOUS
  <2>2. RefsFine(n, y)
    BY <2>1 DEF RefInv
  <2>3. FineNext(n, y)
    BY <1>1, <1>2, <2>2, RefsStay
  <2> QED
    BY <2>1, <2>3
<1>4. \A n \in DOMAIN ctl'.seen : FineNext(n, ctl'.seen[n].status.drives)
  <2> SUFFICES ASSUME NEW n \in DOMAIN ctl'.seen, n \in DOMAIN ctl.seen, ctl'.seen[n] = ctl.seen[n]
               PROVE  FineNext(n, ctl'.seen[n].status.drives)
    OBVIOUS
  <2>1. PICK y : y = ctl.seen[n].status.drives
    OBVIOUS
  <2>2. RefsFine(n, y)
    BY <2>1 DEF RefInv
  <2>3. FineNext(n, y)
    BY <1>1, <1>2, <2>2, RefsStay
  <2> QED
    BY <2>1, <2>3
<1>5. ctl'.pc = "put" => FineNext(ctl'.cur, ctl'.patch.st.drives) /\ ctl'.patch.st.job <= Len(made')
  <2> SUFFICES ASSUME ctl.pc = "put" /\ ctl'.cur = ctl.cur /\ ctl'.patch = ctl.patch
               PROVE  FineNext(ctl'.cur, ctl'.patch.st.drives) /\ ctl'.patch.st.job <= Len(made')
    OBVIOUS
  <2>1. PICK y : y = ctl.patch.st.drives
    OBVIOUS
  <2>2. PICK c : c = ctl.cur
    OBVIOUS
  <2>3. RefsFine(c, y) /\ ctl.patch.st.job <= Len(made)
    BY <2>1, <2>2 DEF RefInv
  <2>4. FineNext(c, y)
    BY <1>1, <1>2, <2>3, RefsStay
  <2>5. ctl.patch.st.job \in Nat /\ Len(made) \in Nat
    <3>1. ctl.patch.st \in Statuses
      BY DEF CTyped, CtlIs
    <3>2. ctl.patch.st.job \in 0..MaxJobs
      BY <3>1, StatusOf
    <3> QED
      BY <3>2, ConstantsHold DEF CTyped
  <2>6. ctl.patch.st.job <= Len(made')
    BY <1>2, <2>3, <2>5
  <2> QED
    BY <2>1, <2>2, <2>4, <2>6 DEF RefsFine
<1>6. ctl'.pc = "submit" => FineNext(ctl'.cur, ctl'.recs)
  <2> SUFFICES ASSUME ctl.pc = "submit" /\ ctl'.cur = ctl.cur /\ ctl'.recs = ctl.recs
               PROVE  FineNext(ctl'.cur, ctl'.recs)
    OBVIOUS
  <2>1. PICK y : y = ctl.recs
    OBVIOUS
  <2>2. PICK c : c = ctl.cur
    OBVIOUS
  <2>3. RefsFine(c, y)
    BY <2>1, <2>2 DEF RefInv
  <2>4. FineNext(c, y)
    BY <1>1, <1>2, <2>3, RefsStay
  <2> QED
    BY <2>1, <2>2, <2>4
<1>7. \A n \in Names : told'[n] # None => FineNext(n, told'[n][1].drives) /\ told'[n][1].job <= Len(made')
  <2> SUFFICES ASSUME NEW n \in Names, told'[n] # None, told'[n] = told[n]
               PROVE  FineNext(n, told'[n][1].drives) /\ told'[n][1].job <= Len(made')
    OBVIOUS
  <2>1. PICK y : y = told[n][1].drives
    OBVIOUS
  <2>3. RefsFine(n, y) /\ told[n][1].job <= Len(made)
    BY <2>1 DEF RefInv
  <2>4. FineNext(n, y)
    BY <1>1, <1>2, <2>3, RefsStay
  <2>5. told[n][1].job \in Nat /\ Len(made) \in Nat
    <3>1. told[n][1] \in Statuses
      BY DEF CTyped
    <3>2. told[n][1].job \in 0..MaxJobs
      BY <3>1, StatusOf
    <3> QED
      BY <3>2, ConstantsHold DEF CTyped
  <2>6. told[n][1].job <= Len(made')
    BY <1>2, <2>3, <2>5
  <2> QED
    BY <2>1, <2>4, <2>6 DEF RefsFine
<1> QED
  BY <1>3, <1>4, <1>5, <1>6, <1>7 DEF RefInv, RefsFine, FineNext

-----------------------------------------------------------------------------
(* LiveInv: a policy has a drive in one job at most, but for an interrupted  *)
(* job that no record names any more (Lost: nobody resumes it); the drives a *)
(* pass is about to submit are in none.                                      *)
Apart ==
  \A j \in Jobs : \A k \in Jobs : \A d \in Drives :
    j # k /\ jobs[j].owner \in Policies /\ jobs[j].owner = jobs[k].owner /\ Live(j, d) /\ Live(k, d) =>
    Lost(j, d) \/ Lost(k, d)
\* The drives about to be submitted are in no job that anybody will resume.
RunFree ==
  ctl.pc = "submit" => \A d \in ctl.run : \A j \in Jobs : jobs[j].owner = ctl.cur /\ Live(j, d) => Lost(j, d)
LiveInv == Apart /\ RunFree
\* No job comes to be named.
NoNewRefs == \A j \in Jobs : Ref(j)' => Ref(j)

\* What is lost stays lost.
LEMMA LostStays ==
  ASSUME NEW j \in Jobs, JobGoes(j), Ref(j)' => Ref(j), NEW d \in Drives, jobs[j].owner \in Policies, Live(j, d)'
  PROVE  Live(j, d) /\ (Lost(j, d) => Lost(j, d)')
<1>1. Live(j, d) /\ (~Ref(j) /\ jobs[j].dj[d] = "interrupted" => jobs'[j].dj[d] = "interrupted")
  BY DEF JobGoes
<1>2. Lost(j, d) => ~Ref(j) /\ jobs[j].dj[d] = "interrupted"
  BY DEF Lost
<1>3. jobs'[j].dj[d] = "interrupted" /\ ~Ref(j)' => Lost(j, d)'
  BY DEF Lost
<1> QED
  BY <1>1, <1>2, <1>3

\* Who owns a policy's job is a policy.
LEMMA PolicyOwner ==
  ASSUME NEW j \in Jobs, JobGoes(j), jobs'[j].owner \in Policies PROVE jobs'[j].owner = jobs[j].owner
<1>1. None \notin Policies
  BY ConstantsHold DEF Names
<1> QED
  BY <1>1, NoJobIs DEF JobGoes

\* Jobs that go on stay apart.
LEMMA ApartGoes ==
  ASSUME Apart, JobsGo, NoNewRefs PROVE Apart'
<1> SUFFICES ASSUME NEW j \in Jobs, NEW k \in Jobs, NEW d \in Drives, j # k, jobs'[j].owner \in Policies,
                    jobs'[j].owner = jobs'[k].owner, Live(j, d)', Live(k, d)'
             PROVE  Lost(j, d)' \/ Lost(k, d)'
  BY DEF Apart
<1>1. JobGoes(j) /\ JobGoes(k) /\ (Ref(j)' => Ref(j)) /\ (Ref(k)' => Ref(k))
  BY DEF JobsGo, NoNewRefs
<1>2. jobs'[j].owner = jobs[j].owner /\ jobs'[k].owner = jobs[k].owner
  BY <1>1, PolicyOwner
<1>3. Live(j, d) /\ (Lost(j, d) => Lost(j, d)')
  BY <1>1, <1>2, LostStays
<1>4. Live(k, d) /\ (Lost(k, d) => Lost(k, d)')
  BY <1>1, <1>2, LostStays
<1> QED
  BY <1>2, <1>3, <1>4 DEF Apart

\* ... and leave what is about to be submitted alone.
LEMMA RunFreeGoes ==
  ASSUME CTyped, RunFree, JobsGo, NoNewRefs, ctl'.pc = "submit" => ctl.pc = "submit" /\ ctl'.cur = ctl.cur /\ ctl'.run \subseteq ctl.run
  PROVE  RunFree'
<1> SUFFICES ASSUME ctl'.pc = "submit", NEW d \in ctl'.run, NEW j \in Jobs, jobs'[j].owner = ctl'.cur, Live(j, d)'
             PROVE  Lost(j, d)'
  BY DEF RunFree
<1>1. JobGoes(j) /\ (Ref(j)' => Ref(j))
  BY DEF JobsGo, NoNewRefs
<1>2. ctl.cur \in Policies /\ d \in Drives
  BY DEF CTyped, CtlIs, Placed
<1>3. jobs'[j].owner = jobs[j].owner
  BY <1>1, <1>2, PolicyOwner
<1>4. Live(j, d) /\ (Lost(j, d) => Lost(j, d)')
  BY <1>1, <1>2, <1>3, LostStays
<1> QED
  BY <1>3, <1>4 DEF RunFree
\* A new job for drives no live job of that owner has, but what is lost.
LEMMA ApartMade ==
  ASSUME CTyped, Apart, NEW n \in Names \cup {None}, NEW ds, NEW run \in SUBSET Drives, NEW k, MadeJob(k, n, ds, run),
         \A j \in Jobs : j # k /\ Ref(j)' => Ref(j),
         n \in Policies => \A d \in run : \A j \in Jobs : jobs[j].owner = n /\ Live(j, d) => Lost(j, d)
  PROVE  Apart'
<1>1. /\ \A j \in Jobs : j # k => jobs'[j] = jobs[j] \/ jobs'[j] = NoJob
      /\ jobs'[k].owner = n /\ \A d \in Drives : d \notin run => jobs'[k].dj[d] \in {"refused", "absent"}
  BY DEF MadeJob
<1>2. None \notin Policies
  BY ConstantsHold DEF Names
<1>3. \A j \in Jobs : j # k /\ jobs'[j].owner \in Policies => jobs'[j] = jobs[j]
  BY <1>1, <1>2, NoJobIs
<1>4. ASSUME NEW j \in Jobs, NEW d \in Drives, j # k, jobs'[j].owner \in Policies, Live(j, d)'
      PROVE  Live(j, d) /\ jobs[j].owner = jobs'[j].owner /\ (Lost(j, d) => Lost(j, d)')
  BY <1>3, <1>4 DEF Live, Lost
<1>5. ASSUME NEW j \in Jobs, NEW d \in Drives, j # k, jobs'[j].owner \in Policies, jobs'[j].owner = n, Live(j, d)', Live(k, d)'
      PROVE  Lost(j, d)'
  <2>1. d \in run
    BY <1>1, <1>5 DEF Live
  <2>2. Live(j, d) /\ jobs[j].owner = n /\ (Lost(j, d) => Lost(j, d)')
    BY <1>4, <1>5
  <2> QED
    BY <1>5, <2>1, <2>2
<1> SUFFICES ASSUME NEW j \in Jobs, NEW l \in Jobs, NEW d \in Drives, j # l, jobs'[j].owner \in Policies,
                    jobs'[j].owner = jobs'[l].owner, Live(j, d)', Live(l, d)'
             PROVE  Lost(j, d)' \/ Lost(l, d)'
  BY DEF Apart
<1>6. CASE j # k /\ l # k
  BY <1>4, <1>6 DEF Apart
<1>7. CASE j = k
  BY <1>1, <1>5, <1>7
<1>8. CASE l = k
  BY <1>1, <1>5, <1>8
<1> QED
  BY <1>6, <1>7, <1>8

-----------------------------------------------------------------------------
(* RetryInv: a job that failed on a drive is on record.  While the worker    *)
(* keeps the job and the drive is not done, the policy's status names the    *)
(* job and its generation, in the object, on the list and after what is      *)
(* about to be written; so the drive is not run again, but after trouble.    *)
Holding(i, d) == jobs[i].kept /\ d \in made[i].drives
\* The record names the job i and its generation.
RecordOK(r, i) == r # None /\ r.job = i /\ r.gen = made[i].gen
\* The record about to be written of the drive d of the policy p.
Pend(p, d) == IF ctl.pc = "put" /\ ctl.cur = p THEN ctl.patch.st.drives[d]
              ELSE IF ctl.pc = "submit" /\ ctl.cur = p THEN ctl.recs[d] ELSE None
\* The status last told of n does not name the job i for the drive d.
Untold(n, i, d) == told[n] = None \/ told[n][1].drives[d] = None \/ told[n][1].drives[d].job # i
\* In the object, after what is about to be written.
RecordedHere ==
  \A p \in Policies : \A i \in MadeOf : \A d \in Drives : Holding(i, d) /\ objs[p] # None /\ Match(objs[p], i) =>
    RecordOK(MergedRecord(objs[p].status.drives[d], Pend(p, d)), i)
\* While drives are submitted: in the object already, or in the records at hand and not told yet.
RecordedNow ==
  \A i \in MadeOf : \A d \in Drives :
    ctl.pc = "submit" /\ Holding(i, d) /\ objs[ctl.cur] # None /\ Match(objs[ctl.cur], i) =>
      \/ RecordOK(objs[ctl.cur].status.drives[d], i)
      \/ ctl.recs[d] # None /\ ctl.recs[d].job = i /\ Untold(ctl.cur, i, d)
\* On the list, of a policy that is still to come.
RecordedSeen ==
  \A p \in Ahead \cap Policies : \A i \in MadeOf : \A d \in Drives : Holding(i, d) /\ Match(ctl.seen[p], i) =>
    RecordOK(ctl.seen[p].status.drives[d], i)
\* The drives about to be submitted are held by no job of this generation.
NotAgain ==
  ctl.pc = "submit" => \A d \in ctl.run : \A i \in MadeOf : Holding(i, d) => ~Match(ctl.seen[ctl.cur], i)
RetryInv == Troubled \/ (RecordedHere /\ RecordedNow /\ RecordedSeen /\ NotAgain)

\* Nobody comes to hold a drive.
HoldsLess == \A i \in MadeOf : \A d \in Drives : Holding(i, d)' => Holding(i, d)

\* Jobs that go on hold less.
LEMMA GoesHoldLess ==
  ASSUME CTyped, JobsGo, SameMade PROVE HoldsLess
<1> SUFFICES ASSUME NEW i \in MadeOf, NEW d \in Drives, Holding(i, d)' PROVE Holding(i, d)
  BY DEF HoldsLess
<1>1. i \in Jobs /\ i \in DOMAIN made
  BY MadeFields DEF MadeOf
<1>2. JobGoes(i)
  BY <1>1 DEF JobsGo
<1> QED
  BY <1>1, <1>2 DEF JobGoes, SameMade, Holding

\* A step that leaves the pass and the objects keeps RetryInv.
LEMMA RetryStays ==
  ASSUME RetryInv, CTyped, Troubled => Troubled', SameMade, HoldsLess, objs' = objs, ctl' = ctl, told' = told
  PROVE  RetryInv'
<1>1. \A o : \A i \in MadeOf : made'[i].gen = made[i].gen /\ made'[i].uid = made[i].uid
  BY DEF SameMade, MadeOf
<1>2. MadeOf' = MadeOf
  BY DEF SameMade, MadeOf
<1>3. RecordedHere => RecordedHere'
  BY <1>1, <1>2 DEF RecordedHere, HoldsLess, Match, RecordOK, Pend
<1>4. RecordedNow => RecordedNow'
  BY <1>1, <1>2 DEF RecordedNow, HoldsLess, Match, RecordOK, Untold
<1>5. RecordedSeen => RecordedSeen'
  BY <1>1, <1>2 DEF RecordedSeen, HoldsLess, Match, RecordOK, Ahead
<1>6. NotAgain => NotAgain'
  <2> SUFFICES ASSUME NotAgain, ctl.pc = "submit", NEW d \in ctl'.run, NEW i \in MadeOf, Holding(i, d)'
               PROVE  ~Match(ctl.seen[ctl.cur], i)'
    BY <1>2 DEF NotAgain
  <2>1. Holding(i, d) => ~Match(ctl.seen[ctl.cur], i)
    BY DEF NotAgain
  <2>2. d \in Drives
    BY DEF CTyped, CtlIs
  <2>3. Holding(i, d)
    BY <2>2 DEF HoldsLess
  <2> QED
    BY <1>1, <2>1, <2>3 DEF Match
<1> QED
  BY <1>3, <1>4, <1>5, <1>6 DEF RetryInv

\* A merge with no record changes none.
LEMMA MergedWithNone ==
  ASSUME NEW r PROVE MergedRecord(r, None) = r
BY DEF MergedRecord

\* A list keeps RetryInv.
LEMMA RetryListed ==
  ASSUME RetryInv, CTyped, Troubled => Troubled', SameMade, HoldsLess, objs' = objs, ctl.pc \notin {"put", "submit"},
         NEW names, Listed(names)
  PROVE  RetryInv'
<1>1. \A i \in MadeOf : made'[i].gen = made[i].gen /\ made'[i].uid = made[i].uid
  BY DEF SameMade, MadeOf
<1>2. MadeOf' = MadeOf
  BY DEF SameMade, MadeOf
<1>3. \A p : \A d : Pend(p, d) = None /\ Pend(p, d)' = None
  BY DEF Pend, Listed
<1>4. RecordedHere => RecordedHere'
  BY <1>1, <1>2, <1>3 DEF RecordedHere, HoldsLess, Match, RecordOK
<1>5. \A p \in Ahead' : ctl'.seen[p] = objs[p] /\ objs[p] # None
  BY DEF Listed, Ahead
<1>6. RecordedHere => RecordedSeen'
  <2> SUFFICES ASSUME RecordedHere, NEW p \in Ahead' \cap Policies, NEW i \in MadeOf, NEW d \in Drives,
                      Holding(i, d)', Match(objs[p], i)'
               PROVE  RecordOK(objs[p].status.drives[d], i)'
    BY <1>2, <1>5 DEF RecordedSeen, Match, RecordOK
  <2>1. Holding(i, d) /\ Match(objs[p], i) /\ objs[p] # None
    BY <1>1, <1>5 DEF HoldsLess, Match
  <2>2. RecordOK(MergedRecord(objs[p].status.drives[d], None), i)
    BY <1>3, <2>1 DEF RecordedHere
  <2>3. RecordOK(objs[p].status.drives[d], i)
    BY <2>2, MergedWithNone
  <2> QED
    BY <1>1, <2>3 DEF RecordOK
<1>7. RecordedNow' /\ NotAgain'
  BY DEF RecordedNow, NotAgain, Listed
<1> QED
  BY <1>4, <1>6, <1>7 DEF RetryInv

\* Users who delete and edit keep RetryInv.
LEMMA RetryTurned ==
  ASSUME RetryInv, UidsInv, CTyped, Troubled => Troubled', UNCHANGED <<made, ctl, told, jobs>>,
         \A n \in Names : \A i \in MadeOf : objs'[n] # None /\ Match(objs'[n], i) =>
                             objs[n] # None /\ Match(objs[n], i) /\ objs'[n].status = objs[n].status
  PROVE  RetryInv'
<1>1. RecordedHere => RecordedHere'
  <2> SUFFICES ASSUME RecordedHere, NEW p \in Policies, NEW i \in MadeOf, NEW d \in Drives, Holding(i, d), objs'[p] # None,
                      Match(objs'[p], i)
               PROVE  RecordOK(MergedRecord(objs'[p].status.drives[d], Pend(p, d)), i)
    BY DEF RecordedHere, MadeOf, Match, RecordOK, Pend, Holding, MergedRecord
  <2>1. objs[p] # None /\ Match(objs[p], i) /\ objs'[p].status = objs[p].status
    BY DEF Names
  <2> QED
    BY <2>1 DEF RecordedHere
<1>2. RecordedNow => RecordedNow'
  <2> SUFFICES ASSUME RecordedNow, NEW i \in MadeOf, NEW d \in Drives, ctl.pc = "submit", Holding(i, d), objs'[ctl.cur] # None,
                      Match(objs'[ctl.cur], i)
               PROVE  \/ RecordOK(objs'[ctl.cur].status.drives[d], i)
                      \/ ctl.recs[d] # None /\ ctl.recs[d].job = i /\ Untold(ctl.cur, i, d)
    BY DEF RecordedNow, MadeOf, Match, RecordOK, Holding, Untold
  <2>1. ctl.cur \in Names
    BY DEF CTyped, CtlIs, Placed, Names
  <2>2. objs[ctl.cur] # None /\ Match(objs[ctl.cur], i) /\ objs'[ctl.cur].status = objs[ctl.cur].status
    BY <2>1
  <2> QED
    BY <2>2 DEF RecordedNow
<1>3. RecordedSeen => RecordedSeen'
  BY DEF RecordedSeen, MadeOf, Match, RecordOK, Holding, Ahead
<1>4. NotAgain => NotAgain'
  BY DEF NotAgain, MadeOf, Match, Holding
<1> QED
  BY <1>1, <1>2, <1>3, <1>4 DEF RetryInv
\* The pass goes on to the next object, with nothing left to write of this one.
LEMMA RetryMoved ==
  ASSUME RetryInv, CTyped, Troubled => Troubled', SameMade, HoldsLess, objs' = objs, told' = told, NEW n \in ctl.todo,
         ctl.cur \in {None, n}, MovedOn(n),
         \/ ctl.pc \notin {"put", "submit"}
         \/ ctl.pc = "put" /\ ctl.cur = n /\ objs[n] = None
         \/ ctl.pc = "submit" /\ ctl.cur = n /\ told[n] # None /\ told[n][1].drives = ctl.recs
  PROVE  RetryInv'
<1>1. \A i \in MadeOf : made'[i].gen = made[i].gen /\ made'[i].uid = made[i].uid
  BY DEF SameMade, MadeOf
<1>2. MadeOf' = MadeOf
  BY DEF SameMade, MadeOf
<1>3. Ahead' = Ahead \ {n}
  BY AheadMoved
<1>4. ctl'.pc \notin {"put", "submit"} /\ ctl'.seen = ctl.seen
  BY DEF MovedOn
<1>5. \A p : \A d : Pend(p, d)' = None
  BY <1>4 DEF Pend
<1>6. RecordedHere /\ RecordedNow => RecordedHere'
  <2> SUFFICES ASSUME RecordedHere, RecordedNow, NEW p \in Policies, NEW i \in MadeOf, NEW d \in Drives,
                      Holding(i, d), objs[p] # None, Match(objs[p], i)
               PROVE  RecordOK(objs[p].status.drives[d], i)
    BY <1>1, <1>2, <1>5, MergedWithNone DEF RecordedHere, HoldsLess, Match, RecordOK
  <2>1. RecordOK(MergedRecord(objs[p].status.drives[d], Pend(p, d)), i)
    BY DEF RecordedHere
  <2>2. CASE Pend(p, d) = None
    BY <2>1, <2>2, MergedWithNone
  <2>3. CASE Pend(p, d) # None
    <3>1. ctl.pc = "submit" /\ ctl.cur = p /\ n = p /\ told[p] # None /\ told[p][1].drives = ctl.recs
      <4>1. p # None
        BY ConstantsHold DEF Names
      <4> QED
        BY <2>3, <4>1 DEF Pend
    <3>2. \/ RecordOK(objs[p].status.drives[d], i)
          \/ ctl.recs[d] # None /\ ctl.recs[d].job = i /\ Untold(p, i, d)
      BY <3>1 DEF RecordedNow
    <3> QED
      BY <3>1, <3>2 DEF Untold
  <2> QED
    BY <2>2, <2>3
<1>7. RecordedSeen => RecordedSeen'
  BY <1>1, <1>2, <1>3, <1>4 DEF RecordedSeen, HoldsLess, Match, RecordOK
<1>8. RecordedNow' /\ NotAgain'
  BY <1>4 DEF RecordedNow, NotAgain
<1> QED
  BY <1>6, <1>7, <1>8 DEF RetryInv

\* What is written next of a policy does not disturb what its status says of the jobs it has.
Harmless(r, i) == r = None \/ (r.gen = made[i].gen /\ r.job \in {0, i})

\* ... nor after the merge.
LEMMA HarmlessMerged ==
  ASSUME CTyped, NEW old \in Parts, NEW new \in Parts, NEW i \in MadeOf, RecordOK(old, i), Harmless(new, i)
  PROVE  RecordOK(MergedRecord(old, new), i)
BY MergedRecordIs DEF RecordOK, Harmless

\* ... in the object there is.
LEMMA HarmlessHere ==
  ASSUME UidsInv, CTyped, NEW p \in Policies, p \in ctl.todo, ctl.cur = None, NEW drives \in [Drives -> Parts], RecordedHere, RecordedSeen,
         \A d \in Drives : Pend(p, d) = None,
         \A i \in MadeOf : \A d \in Drives : Holding(i, d) /\ Match(ctl.seen[p], i) =>
           (RecordOK(ctl.seen[p].status.drives[d], i) => Harmless(drives[d], i)),
         NEW i \in MadeOf, NEW d \in Drives, Holding(i, d), objs[p] # None, Match(objs[p], i)
  PROVE  RecordOK(objs[p].status.drives[d], i) /\ RecordOK(MergedRecord(objs[p].status.drives[d], drives[d]), i)
<1>1. RecordOK(objs[p].status.drives[d], i)
  BY MergedWithNone DEF RecordedHere
<1>2. p \in DOMAIN ctl.seen /\ p \in Names
  BY DEF CTyped, CtlIs, Names
<1>3. Match(ctl.seen[p], i)
  BY <1>2, SeenMatches
<1>4. Harmless(drives[d], i)
  <2>1. p \in Ahead \cap Policies
    BY <1>2, ConstantsHold DEF Ahead
  <2>2. RecordOK(ctl.seen[p].status.drives[d], i)
    BY <1>3, <2>1 DEF RecordedSeen
  <2> QED
    BY <1>3, <2>2
<1>5. objs[p].status \in Statuses
  BY <1>2 DEF CTyped, ObjectIs
<1>6. objs[p].status.drives[d] \in Parts /\ drives[d] \in Parts
  BY <1>5, StatusOf
<1> QED
  BY <1>1, <1>4, <1>6, HarmlessMerged

\* A pass that is about to put harmless records keeps RetryInv.
LEMMA RetryPut ==
  ASSUME RetryInv, UidsInv, CTyped, Troubled => Troubled', SameMade, HoldsLess, objs' = objs, told' = told, NEW n \in ctl.todo,
         NEW st \in Statuses, NEW part, AboutToPut(n, st, part), 
         \/ /\ ctl.pc \notin {"put", "submit"} /\ ctl.cur = None
            /\ n \in Policies => \A i \in MadeOf : \A d \in Drives : Holding(i, d) /\ Match(ctl.seen[n], i) =>
                 (RecordOK(ctl.seen[n].status.drives[d], i) => Harmless(st.drives[d], i))
         \/ ctl.pc = "submit" /\ ctl.cur = n /\ st.drives = ctl.recs
  PROVE  RetryInv'
<1>1. \A i \in MadeOf : made'[i].gen = made[i].gen /\ made'[i].uid = made[i].uid
  BY DEF SameMade, MadeOf
<1>2. MadeOf' = MadeOf
  BY DEF SameMade, MadeOf
<1>3. ctl'.pc = "put" /\ ctl'.seen = ctl.seen /\ ctl'.todo = ctl.todo /\ ctl'.cur = n /\ ctl'.patch.st = st
  BY DEF AboutToPut
<1>4. Ahead' \subseteq Ahead /\ n \in Names /\ None \notin Names
  <2>1. ctl.todo \subseteq Names /\ None \notin Names
    BY ConstantsHold DEF CTyped, CtlIs, Names
  <2> QED
    BY <1>3, <2>1 DEF Ahead
<1>5. st.drives \in [Drives -> Parts]
  BY StatusOf
<1>6. \A p \in Policies : \A d \in Drives : Pend(p, d)' = IF p = n THEN st.drives[d] ELSE None
  BY <1>3 DEF Pend
<1>7. RecordedHere /\ RecordedNow /\ RecordedSeen => RecordedHere'
  <2> SUFFICES ASSUME RecordedHere, RecordedSeen, NEW p \in Policies, NEW i \in MadeOf, NEW d \in Drives,
                      Holding(i, d), objs[p] # None, Match(objs[p], i)
               PROVE  RecordOK(MergedRecord(objs[p].status.drives[d], IF p = n THEN st.drives[d] ELSE None), i)
    BY <1>1, <1>2, <1>6 DEF RecordedHere, HoldsLess, Match, RecordOK
  <2>1. RecordOK(MergedRecord(objs[p].status.drives[d], Pend(p, d)), i)
    BY DEF RecordedHere
  <2>2. CASE p # n
    <3>1. Pend(p, d) = None
      BY <1>4, <2>2 DEF Pend, Names
    <3> QED
      BY <2>1, <2>2, <3>1
  <2>3. CASE p = n /\ ctl.pc = "submit" /\ ctl.cur = n /\ st.drives = ctl.recs
    BY <2>1, <2>3 DEF Pend
  <2>4. CASE p = n /\ ~(ctl.pc = "submit" /\ ctl.cur = n /\ st.drives = ctl.recs)
    <3>1. ctl.pc \notin {"put", "submit"} /\ ctl.cur = None
          /\ \A a \in MadeOf : \A e \in Drives : Holding(a, e) /\ Match(ctl.seen[n], a) =>
                 (RecordOK(ctl.seen[n].status.drives[e], a) => Harmless(st.drives[e], a))
      BY <2>4
    <3>2. \A e \in Drives : Pend(n, e) = None
      BY <3>1 DEF Pend
    <3>3. RecordOK(MergedRecord(objs[n].status.drives[d], st.drives[d]), i)
      BY <1>5, <2>4, <3>1, <3>2, HarmlessHere
    <3> QED
      BY <2>4, <3>3
  <2> QED
    BY <2>2, <2>3, <2>4
<1>8. RecordedSeen => RecordedSeen'
  BY <1>1, <1>2, <1>3, <1>4 DEF RecordedSeen, HoldsLess, Match, RecordOK
<1>9. RecordedNow' /\ NotAgain'
  BY <1>3 DEF RecordedNow, NotAgain
<1> QED
  BY <1>7, <1>8, <1>9 DEF RetryInv

\* A status written keeps RetryInv.
LEMMA RetryWrote ==
  ASSUME RetryInv, CTyped, Troubled => Troubled', made' = made, jobs' = jobs, ctl.pc = "put", NEW n \in ctl.todo, n = ctl.cur,
         MovedOn(n), Wrote(n, ctl.patch.st, ctl.patch.part)
  PROVE  RetryInv'
<1>1. Ahead' = Ahead \ {n}
  BY AheadMoved
<1>2. ctl'.pc \notin {"put", "submit"} /\ ctl'.seen = ctl.seen
  BY DEF MovedOn
<1>3. \A p : \A d : Pend(p, d)' = None /\ (p # n => Pend(p, d) = None) /\ Pend(n, d) = ctl.patch.st.drives[d]
  BY <1>2 DEF Pend
<1>4. RecordedHere => RecordedHere'
  <2> SUFFICES ASSUME RecordedHere, NEW p \in Policies, NEW i \in MadeOf, NEW d \in Drives, Holding(i, d), objs'[p] # None,
                      Match(objs'[p], i)
               PROVE  RecordOK(objs'[p].status.drives[d], i)
    BY <1>3, MergedWithNone DEF RecordedHere, MadeOf, Match, RecordOK, Holding
  <2>1. CASE p # n
    <3>1. objs'[p] = objs[p]
      BY <2>1 DEF Wrote, Names
    <3> QED
      BY <1>3, <2>1, <3>1, MergedWithNone DEF RecordedHere
  <2>2. CASE p = n
    <3>1. objs[n] # None /\ Match(objs[n], i) /\ objs'[n].status = Merged(objs[n].status, ctl.patch.st, ctl.patch.part)
          /\ n \in Names
      BY <2>2 DEF Wrote, Match
    <3>2. objs[n].status \in Statuses /\ ctl.patch.st \in Statuses /\ ctl.patch.part \in SUBSET All
      BY <3>1 DEF CTyped, CtlIs, ObjectIs
    <3>3. objs'[n].status.drives[d] = MergedRecord(objs[n].status.drives[d], ctl.patch.st.drives[d])
      BY <3>1, <3>2, MergedIs
    <3>4. RecordOK(MergedRecord(objs[n].status.drives[d], Pend(n, d)), i)
      BY <2>2, <3>1 DEF RecordedHere
    <3> QED
      BY <1>3, <2>2, <3>3, <3>4
  <2> QED
    BY <2>1, <2>2
<1>5. RecordedSeen => RecordedSeen'
  BY <1>1, <1>2 DEF RecordedSeen, MadeOf, Match, RecordOK, Holding
<1>6. RecordedNow' /\ NotAgain'
  BY <1>2 DEF RecordedNow, NotAgain
<1> QED
  BY <1>4, <1>5, <1>6 DEF RetryInv

\* A pass over the operations leaves the policies alone.
LEMMA RetryAtOps ==
  ASSUME RetryInv, Troubled => Troubled', HoldsLess, objs' = objs, ctl.pc = "ops", ctl'.pc \notin {"submit"},
         DOMAIN ctl'.seen \subseteq Ops, ctl'.todo \subseteq DOMAIN ctl'.seen, ctl'.cur \notin Policies,
         \A i \in MadeOf : made'[i].gen = made[i].gen /\ made'[i].uid = made[i].uid,
         \A i \in MadeOf' : i \notin MadeOf => \A p \in Policies : objs[p] # None => made'[i].uid # objs[p].uid
  PROVE  RetryInv'
<1>1. \A p \in Policies : \A d : Pend(p, d) = None /\ Pend(p, d)' = None
  BY DEF Pend
<1>2. Ops \cap Policies = {}
  BY ConstantsHold
<1>3. RecordedHere => RecordedHere'
  <2> SUFFICES ASSUME RecordedHere, NEW p \in Policies, NEW i \in MadeOf', NEW d \in Drives, Holding(i, d)', objs[p] # None,
                      Match(objs[p], i)'
               PROVE  RecordOK(MergedRecord(objs[p].status.drives[d], Pend(p, d)), i)'
    BY DEF RecordedHere
  <2>1. i \in MadeOf
    BY DEF Match
  <2>2. Holding(i, d) /\ Match(objs[p], i)
    BY <2>1 DEF HoldsLess, Match
  <2> QED
    BY <1>1, <2>1, <2>2 DEF RecordedHere, RecordOK
<1>4. RecordedSeen'
  BY <1>2 DEF RecordedSeen, Ahead
<1>5. RecordedNow' /\ NotAgain'
  BY DEF RecordedNow, NotAgain
<1> QED
  BY <1>3, <1>4, <1>5 DEF RetryInv

\* A job for no policy.
LEMMA NotForPolicies ==
  ASSUME CTyped, UidsInv, NEW n \in ctl.todo \cup {None}, n \notin Policies, NEW ds, NEW run, NEW k, MadeJob(k, n, ds, run)
  PROVE  /\ \A p \in Policies : objs[p] # None => made'[k].uid # objs[p].uid
         /\ \A p \in DOMAIN ctl.seen \cap Policies : made'[k].uid # ctl.seen[p].uid
<1>1. \A o \in Names : objs[o] # None => objs[o].uid \in 1..uid
  BY DEF CTyped, ObjectIs
<1>2. \A o \in DOMAIN ctl.seen : ctl.seen[o].uid \in 1..uid
  BY DEF CTyped, CtlIs, ObjectIs
<1>3. uid \in Nat /\ Policies \subseteq Names
  BY ConstantsHold DEF CTyped, Names
<1>4. CASE n = None
  <2>1. made'[k].uid = 0
    BY <1>4 DEF MadeJob
  <2> QED
    BY <1>1, <1>2, <1>3, <2>1
<1>5. CASE n # None
  <2>1. made'[k].uid = ctl.seen[n].uid /\ n \in DOMAIN ctl.seen
    BY <1>5 DEF MadeJob, CTyped, CtlIs
  <2> QED
    BY <1>3, <2>1 DEF UidsInv, UidsOnce, SeenWas
<1> QED
  BY <1>4, <1>5

\* Who holds a drive after a job is made held it before, or is that job.
LEMMA MadeOldHold ==
  ASSUME CTyped, NEW n, NEW ds, NEW run, NEW k, MadeJob(k, n, ds, run)
  PROVE  /\ MadeOf' = MadeOf \cup {k} /\ k \notin MadeOf /\ \A i \in MadeOf : made'[i] = made[i]
         /\ HoldsLess
         /\ \A j \in MadeOf : (jobs'[j].kept => jobs[j].kept) /\ jobs'[j].owner \in {jobs[j].owner, None}
<1>1. /\ DOMAIN made' = DOMAIN made \cup {k} /\ k \notin DOMAIN made /\ \A i \in DOMAIN made : made'[i] = made[i]
      /\ \A j \in Jobs : j # k => jobs'[j] = jobs[j] \/ jobs'[j] = NoJob
  BY DEF MadeJob
<1>2. \A j \in MadeOf : j \in Jobs
  BY MadeFields
<1>3. \A j \in MadeOf : jobs'[j] = jobs[j] \/ jobs'[j] = NoJob
  BY <1>1, <1>2 DEF MadeOf
<1>4. HoldsLess
  BY <1>1, <1>3, NoJobIs DEF HoldsLess, Holding, MadeOf
<1> QED
  BY <1>1, <1>3, <1>4, NoJobIs DEF MadeOf

\* ... keeps RetryInv.
LEMMA RetryMadeForOthers ==
  ASSUME RetryInv, CTyped, UidsInv, Troubled => Troubled', objs' = objs, told' = told, ctl' = ctl,
         NEW n \in ctl.todo \cup {None}, n \notin Policies, NEW ds, NEW run, NEW k, MadeJob(k, n, ds, run)
  PROVE  RetryInv'
<1>1. /\ \A p \in Policies : objs[p] # None => made'[k].uid # objs[p].uid
      /\ \A p \in DOMAIN ctl.seen \cap Policies : made'[k].uid # ctl.seen[p].uid
  BY NotForPolicies
<1>2. MadeOf' = MadeOf \cup {k} /\ (\A i \in MadeOf : made'[i] = made[i]) /\ HoldsLess
  BY MadeOldHold
<1>3. ctl.todo \subseteq DOMAIN ctl.seen /\ (ctl.pc = "submit" => ctl.cur \in DOMAIN ctl.seen /\ ctl.cur \in Policies)
      /\ ctl.run \subseteq Drives
  BY DEF CTyped, CtlIs, Placed
<1>4. RecordedHere => RecordedHere'
  <2> SUFFICES ASSUME RecordedHere, NEW p \in Policies, NEW i \in MadeOf', NEW d \in Drives, Holding(i, d)', objs[p] # None,
                      Match(objs[p], i)'
               PROVE  RecordOK(MergedRecord(objs[p].status.drives[d], Pend(p, d)), i)'
    BY DEF RecordedHere
  <2>1. i \in MadeOf
    BY <1>1, <1>2 DEF Match
  <2>2. Holding(i, d) /\ Match(objs[p], i)
    BY <1>2, <2>1 DEF HoldsLess, Match
  <2> QED
    BY <1>2, <2>1, <2>2 DEF RecordedHere, RecordOK, Pend
<1>5. RecordedSeen => RecordedSeen'
  <2> SUFFICES ASSUME RecordedSeen, NEW p \in Ahead \cap Policies, NEW i \in MadeOf', NEW d \in Drives, Holding(i, d)',
                      Match(ctl.seen[p], i)'
               PROVE  RecordOK(ctl.seen[p].status.drives[d], i)'
    BY DEF RecordedSeen, Ahead
  <2>1. i \in MadeOf
    BY <1>1, <1>2, <1>3 DEF Match, Ahead
  <2>2. Holding(i, d) /\ Match(ctl.seen[p], i)
    BY <1>2, <2>1 DEF HoldsLess, Match
  <2> QED
    BY <1>2, <2>1, <2>2 DEF RecordedSeen, RecordOK
<1>6. RecordedNow => RecordedNow'
  <2> SUFFICES ASSUME RecordedNow, ctl.pc = "submit", NEW i \in MadeOf', NEW d \in Drives, Holding(i, d)', objs[ctl.cur] # None,
                      Match(objs[ctl.cur], i)'
               PROVE  \/ RecordOK(objs[ctl.cur].status.drives[d], i)'
                      \/ ctl.recs[d] # None /\ ctl.recs[d].job = i /\ Untold(ctl.cur, i, d)
    BY DEF RecordedNow, Untold
  <2>1. i \in MadeOf
    BY <1>1, <1>2, <1>3 DEF Match
  <2>2. Holding(i, d) /\ Match(objs[ctl.cur], i)
    BY <1>2, <2>1 DEF HoldsLess, Match
  <2> QED
    BY <1>2, <2>1, <2>2 DEF RecordedNow, RecordOK
<1>7. NotAgain => NotAgain'
  <2> SUFFICES ASSUME NotAgain, ctl.pc = "submit", NEW d \in ctl.run, NEW i \in MadeOf', Holding(i, d)'
               PROVE  ~Match(ctl.seen[ctl.cur], i)'
    BY DEF NotAgain
  <2>1. CASE i = k
    BY <1>1, <1>3, <2>1 DEF Match
  <2>2. CASE i \in MadeOf
    <3>1. Holding(i, d)
      BY <1>2, <1>3, <2>2 DEF HoldsLess
    <3> QED
      BY <1>2, <2>2, <3>1 DEF NotAgain, Match
  <2> QED
    BY <1>2, <2>1, <2>2
<1> QED
  BY <1>4, <1>5, <1>6, <1>7 DEF RetryInv
\* The policy's drives are decided; those that are run hold nothing under this generation.
LEMMA RetryDecided ==
  ASSUME RetryInv, UidsInv, CTyped, Troubled => Troubled', SameMade, HoldsLess, objs' = objs,
         NEW p \in ctl.todo \cap Policies, ctl.pc = "policies", ctl.cur = None,
         ctl'.pc = "submit", ctl'.cur = p, ctl'.seen = ctl.seen, ctl'.todo = ctl.todo, NEW recs \in [Drives -> Parts],
         ctl'.recs = recs, ctl'.run \subseteq Drives,
         \A i \in MadeOf : \A d \in Drives : Holding(i, d) /\ Match(ctl.seen[p], i) =>
           (RecordOK(ctl.seen[p].status.drives[d], i) => Harmless(recs[d], i)),
         \A i \in MadeOf : \A d \in ctl'.run : Holding(i, d) /\ Match(ctl.seen[p], i) =>
           (RecordOK(ctl.seen[p].status.drives[d], i) => Troubled)
  PROVE  RetryInv'
<1>1. \A i \in MadeOf : made'[i].gen = made[i].gen /\ made'[i].uid = made[i].uid
  BY DEF SameMade, MadeOf
<1>2. MadeOf' = MadeOf
  BY DEF SameMade, MadeOf
<1>3. p \in Ahead /\ Ahead' \subseteq Ahead /\ p # None
  <2>1. ctl.todo \subseteq Names /\ None \notin Names
    BY ConstantsHold DEF CTyped, CtlIs, Names
  <2> QED
    BY <2>1 DEF Ahead
<1>4. \A q \in Policies : \A d \in Drives : Pend(q, d) = None /\ Pend(q, d)' = IF q = p THEN recs[d] ELSE None
  BY DEF Pend
<1>5. ASSUME RecordedHere, RecordedSeen, NEW i \in MadeOf, NEW d \in Drives, Holding(i, d), objs[p] # None, Match(objs[p], i)
      PROVE  RecordOK(objs[p].status.drives[d], i) /\ RecordOK(MergedRecord(objs[p].status.drives[d], recs[d]), i)
  BY <1>4, <1>5, HarmlessHere
<1>6. RecordedHere /\ RecordedSeen => RecordedHere'
  <2> SUFFICES ASSUME RecordedHere, RecordedSeen, NEW q \in Policies, NEW i \in MadeOf, NEW d \in Drives,
                      Holding(i, d), objs[q] # None, Match(objs[q], i)
               PROVE  RecordOK(MergedRecord(objs[q].status.drives[d], IF q = p THEN recs[d] ELSE None), i)
    BY <1>1, <1>2, <1>4 DEF RecordedHere, HoldsLess, Match, RecordOK
  <2>1. CASE q # p
    BY <1>4, <2>1 DEF RecordedHere
  <2>2. CASE q = p
    BY <1>5, <2>2
  <2> QED
    BY <2>1, <2>2
<1>7. RecordedHere /\ RecordedSeen => RecordedNow'
  <2> SUFFICES ASSUME RecordedHere, RecordedSeen, NEW i \in MadeOf, NEW d \in Drives,
                      Holding(i, d), objs[p] # None, Match(objs[p], i)
               PROVE  RecordOK(objs[p].status.drives[d], i)
    BY <1>1, <1>2 DEF RecordedNow, HoldsLess, Match, RecordOK
  <2> QED
    BY <1>5
<1>8. RecordedSeen => RecordedSeen'
  BY <1>1, <1>2, <1>3 DEF RecordedSeen, HoldsLess, Match, RecordOK
<1>9. RecordedSeen => NotAgain' \/ Troubled
  <2> SUFFICES ASSUME RecordedSeen, NEW d \in ctl'.run, NEW i \in MadeOf, Holding(i, d)', Match(ctl.seen[p], i)
               PROVE  Troubled
    BY <1>1, <1>2 DEF NotAgain, Match
  <2>1. d \in Drives /\ Holding(i, d)
    BY DEF HoldsLess
  <2>2. RecordOK(ctl.seen[p].status.drives[d], i)
    BY <1>3, <2>1 DEF RecordedSeen
  <2> QED
    BY <2>1, <2>2
<1> QED
  BY <1>6, <1>7, <1>8, <1>9 DEF RetryInv

\* A group of drives is submitted: a new job k, or none.
GroupDone(p, k, group) ==
  /\ ctl'.pc = "submit" /\ ctl'.cur = p /\ ctl'.seen = ctl.seen /\ ctl'.todo = ctl.todo /\ ctl'.run = ctl.run \ group
  /\ ctl'.recs \in [Drives -> Parts] /\ group \subseteq ctl.run
  /\ \A d \in Drives : d \notin group => ctl'.recs[d] = ctl.recs[d]
  /\ \A d \in group : ctl'.recs[d] # None /\ ctl'.recs[d].gen = ctl.seen[p].gen /\ ctl'.recs[d].job = k

\* ... keeps RetryInv.
LEMMA RetrySubmit ==
  ASSUME RetryInv, UidsInv, RefInv, CTyped, Troubled => Troubled', objs' = objs, told' = told,
         ctl.pc = "submit", NEW p, p = ctl.cur, NEW group, NEW k, GroupDone(p, k, group),
         \/ made' = made /\ jobs' = jobs
         \/ \E run : MadeJob(k, p, group, run) /\ run \subseteq group
  PROVE  RetryInv'
<1>0. p \in Policies /\ p \in Names /\ p \in ctl.todo /\ p \in DOMAIN ctl.seen /\ p # None /\ ctl.run \subseteq Drives
  <2>1. p \in ctl.todo /\ DOMAIN ctl.seen \subseteq Policies /\ ctl.todo \subseteq DOMAIN ctl.seen /\ ctl.run \subseteq Drives
    BY DEF CTyped, CtlIs, Placed
  <2> QED
    BY <2>1, ConstantsHold DEF Names
<1>1. /\ MadeOf \subseteq MadeOf' /\ \A i \in MadeOf : made'[i] = made[i]
      /\ HoldsLess
      /\ \A i \in MadeOf' : i \notin MadeOf => /\ i = k /\ k = Len(made) + 1 /\ made'[k].uid = ctl.seen[p].uid /\ made'[k].gen = ctl.seen[p].gen
                                               /\ made'[k].drives \subseteq group
  <2>1. CASE made' = made /\ jobs' = jobs
    BY <2>1 DEF MadeOf, HoldsLess, Holding
  <2>2. ASSUME NEW run, MadeJob(k, p, group, run), run \subseteq group
        PROVE  <1>1!1 /\ <1>1!2 /\ <1>1!3
    <3>1. MadeOf' = MadeOf \cup {k} /\ k \notin MadeOf /\ (\A i \in MadeOf : made'[i] = made[i]) /\ HoldsLess
      BY <2>2, MadeOldHold
    <3>2. k = Len(made) + 1 /\ made'[k].uid = ctl.seen[p].uid /\ made'[k].gen = ctl.seen[p].gen /\ made'[k].drives = run
      BY <1>0, <2>2 DEF MadeJob
    <3> QED
      BY <2>2, <3>1, <3>2
  <2> QED
    BY <2>1, <2>2
<1>2. /\ ctl'.pc = "submit" /\ ctl'.cur = p /\ ctl'.seen = ctl.seen /\ ctl'.todo = ctl.todo /\ ctl'.run = ctl.run \ group
      /\ ctl'.recs \in [Drives -> Parts] /\ group \subseteq ctl.run
      /\ (\A d \in Drives : d \notin group => ctl'.recs[d] = ctl.recs[d])
      /\ \A d \in group : ctl'.recs[d] # None /\ ctl'.recs[d].gen = ctl.seen[p].gen /\ ctl'.recs[d].job = k
  BY DEF GroupDone
<1>3. \A q \in Names : objs[q] # None /\ objs[q].uid = ctl.seen[p].uid => q = p
  BY <1>0 DEF UidsInv, SeenWas
<1>4. \A q \in DOMAIN ctl.seen : ctl.seen[q].uid = ctl.seen[p].uid => q = p
  BY <1>0 DEF UidsInv, UidsOnce
<1>5. ASSUME NotAgain, NEW i \in MadeOf, NEW d \in Drives, Holding(i, d), objs[p] # None, Match(objs[p], i)
      PROVE  d \notin group
  <2>1. Match(ctl.seen[p], i)
    BY <1>0, <1>5, SeenMatches
  <2> QED
    BY <1>2, <1>5, <2>1 DEF NotAgain
<1>6. ASSUME NEW i \in MadeOf', i \notin MadeOf, NEW d \in Drives, Holding(i, d)'
      PROVE  /\ i = k /\ d \in group /\ made'[i].uid = ctl.seen[p].uid /\ made'[i].gen = ctl.seen[p].gen
             /\ RecordOK(ctl.recs[d], i)'
  <2>1. i = k /\ made'[k].uid = ctl.seen[p].uid /\ made'[k].gen = ctl.seen[p].gen /\ d \in group
    BY <1>1, <1>6 DEF Holding
  <2> QED
    BY <1>2, <2>1 DEF RecordOK
<1>7. RecordedHere /\ NotAgain => RecordedHere'
  <2> SUFFICES ASSUME RecordedHere, NotAgain, NEW q \in Policies, NEW i \in MadeOf', NEW d \in Drives, Holding(i, d)',
                      objs[q] # None, Match(objs[q], i)'
               PROVE  RecordOK(MergedRecord(objs[q].status.drives[d], Pend(q, d)), i)'
    BY DEF RecordedHere
  <2>1. Pend(q, d)' = (IF q = p THEN ctl'.recs[d] ELSE None) /\ Pend(q, d) = (IF q = p THEN ctl.recs[d] ELSE None)
    BY <1>2 DEF Pend
  <2>2. CASE i \in MadeOf
    <3>1. Holding(i, d) /\ Match(objs[q], i) /\ made'[i] = made[i]
      BY <1>1, <2>2 DEF HoldsLess, Match
    <3>2. RecordOK(MergedRecord(objs[q].status.drives[d], Pend(q, d)), i)
      BY <2>2, <3>1 DEF RecordedHere
    <3>3. Pend(q, d)' = Pend(q, d)
      BY <1>2, <1>5, <2>1, <2>2, <3>1
    <3> QED
      BY <3>1, <3>2, <3>3 DEF RecordOK
  <2>3. CASE i \notin MadeOf
    <3>1. i = k /\ d \in group /\ made'[i].uid = ctl.seen[p].uid /\ made'[i].gen = ctl.seen[p].gen
          /\ RecordOK(ctl.recs[d], i)'
      BY <1>6, <2>3
    <3>2. q = p
      BY <1>3, <3>1 DEF Match, Names
    <3>3. objs[p].status.drives[d] \in Parts /\ ctl'.recs[d] \in Parts
      <4>1. objs[p].status \in Statuses
        BY <1>0, <3>2 DEF CTyped, ObjectIs
      <4> QED
        BY <1>2, <4>1, StatusOf
    <3> DEFINE old == objs[p].status.drives[d]
               new == ctl'.recs[d]
               m == MergedRecord(old, new)
    <3>4. m # None /\ m.gen = new.gen /\ m.job = (IF old = None \/ new.job # 0 THEN new.job ELSE old.job)
      <4>1. new # None
        BY <3>1 DEF RecordOK
      <4> HIDE DEF old, new
      <4> QED
        BY <3>3, <4>1, MergedRecordIs DEF old, new
    <3>5. new.job = k /\ k # 0 /\ new.gen = made'[i].gen
      <4>1. Len(made) \in Nat /\ k = Len(made) + 1
        BY <1>1, <2>3 DEF CTyped
      <4>2. k # 0
        BY <4>1
      <4> QED
        BY <1>2, <3>1, <4>2
    <3>6. m = MergedRecord(objs'[q].status.drives[d], Pend(q, d)')
      BY <2>1, <3>2
    <3> HIDE DEF m
    <3>7. m # None /\ m.job = i /\ m.gen = made'[i].gen
      BY <3>1, <3>4, <3>5
    <3> QED
      BY <3>6, <3>7 DEF RecordOK, MergedRecord
  <2> QED
    BY <2>2, <2>3
<1>8. RecordedNow /\ NotAgain => RecordedNow'
  <2> SUFFICES ASSUME RecordedNow, NotAgain, NEW i \in MadeOf', NEW d \in Drives, Holding(i, d)', objs[p] # None,
                      Match(objs[p], i)'
               PROVE  \/ RecordOK(objs[p].status.drives[d], i)'
                      \/ ctl'.recs[d] # None /\ ctl'.recs[d].job = i /\ Untold(p, i, d)
    BY <1>2 DEF RecordedNow, Untold
  <2>1. CASE i \in MadeOf
    <3>1. Holding(i, d) /\ Match(objs[p], i) /\ made'[i] = made[i]
      BY <1>1, <2>1 DEF HoldsLess, Match
    <3>2. \/ RecordOK(objs[p].status.drives[d], i)
          \/ ctl.recs[d] # None /\ ctl.recs[d].job = i /\ Untold(p, i, d)
      BY <2>1, <3>1 DEF RecordedNow
    <3>3. ctl'.recs[d] = ctl.recs[d]
      BY <1>2, <1>5, <2>1, <3>1
    <3> QED
      BY <3>1, <3>2, <3>3 DEF RecordOK
  <2>2. CASE i \notin MadeOf
    <3>1. i = k /\ d \in group /\ k = Len(made) + 1
      BY <1>1, <1>6, <2>2
    <3>2. Untold(p, i, d)
      <4> SUFFICES ASSUME told[p] # None, told[p][1].drives[d] # None PROVE told[p][1].drives[d].job # i
        BY DEF Untold
      <4>1. told[p][1].drives[d].job \in 0..Len(made)
        BY <1>0 DEF RefInv, RefsFine
      <4>2. Len(made) \in Nat
        BY DEF CTyped
      <4> QED
        BY <3>1, <4>1, <4>2
    <3> QED
      BY <1>2, <3>1, <3>2
  <2> QED
    BY <2>1, <2>2
<1>9. RecordedSeen => RecordedSeen'
  <2> SUFFICES ASSUME RecordedSeen, NEW q \in Ahead \cap Policies, NEW i \in MadeOf', NEW d \in Drives, Holding(i, d)',
                      Match(ctl.seen[q], i)'
               PROVE  RecordOK(ctl.seen[q].status.drives[d], i)'
    BY <1>2 DEF RecordedSeen, Ahead
  <2>1. q # p /\ q \in DOMAIN ctl.seen
    BY <1>0 DEF Ahead, CTyped, CtlIs
  <2>2. i \in MadeOf
    BY <1>2, <1>4, <1>6, <2>1 DEF Match
  <2>3. Holding(i, d) /\ Match(ctl.seen[q], i) /\ made'[i] = made[i]
    BY <1>1, <1>2, <2>2 DEF HoldsLess, Match
  <2> QED
    BY <1>2, <2>2, <2>3 DEF RecordedSeen, RecordOK
<1>10. NotAgain => NotAgain'
  <2> SUFFICES ASSUME NotAgain, NEW d \in ctl.run \ group, NEW i \in MadeOf', Holding(i, d)'
               PROVE  ~Match(ctl.seen[p], i)'
    BY <1>2 DEF NotAgain
  <2>1. d \in Drives
    BY <1>0
  <2>2. i \in MadeOf
    BY <1>6, <2>1
  <2>3. Holding(i, d) /\ made'[i] = made[i]
    BY <1>1, <2>1, <2>2 DEF HoldsLess
  <2> QED
    BY <1>2, <2>2, <2>3 DEF NotAgain, Match
<1> QED
  BY <1>7, <1>8, <1>9, <1>10 DEF RetryInv

-----------------------------------------------------------------------------
(* RetryAfterEdit follows.                                                   *)
\* No new job: RetryAfterEdit stands.
LEMMA EditStays ==
  ASSUME RetryAfterEdit, CTyped, Troubled => Troubled', SameMade, JobsGo
  PROVE  RetryAfterEdit'
<1>1. \A i \in DOMAIN made : i \in Jobs
  BY MadeFields DEF MadeOf
<1> SUFFICES ASSUME NEW i \in DOMAIN made, NEW k \in DOMAIN made, Same(i, k)', jobs'[i].kept, Policed(k)',
                    made'[i].drives \cap made'[k].drives # {}
             PROVE  Troubled'
  BY DEF RetryAfterEdit, SameMade
<1>2. Same(i, k) /\ made[i].drives \cap made[k].drives # {}
  BY DEF SameMade, Same
<1>3. JobGoes(i) /\ JobGoes(k)
  BY <1>1 DEF JobsGo
<1>4. jobs[i].kept
  BY <1>3 DEF JobGoes
<1>5. Policed(k)
  BY <1>1, <1>3, PolicyOwner DEF Policed
<1> QED
  BY <1>2, <1>4, <1>5 DEF RetryAfterEdit

\* A new job for drives that are held by none of this generation.
LEMMA EditMade ==
  ASSUME RetryAfterEdit, CTyped, Troubled => Troubled',
         NEW n \in ctl.todo \cup {None}, NEW ds, NEW run \in SUBSET Drives, NEW k, MadeJob(k, n, ds, run),
         n \in Policies => Troubled \/ \A i \in MadeOf : \A d \in run : Holding(i, d) => ~Match(ctl.seen[n], i)
  PROVE  RetryAfterEdit'
<1>1. DOMAIN made' = DOMAIN made \cup {k} /\ k = Len(made) + 1 /\ jobs'[k].owner = n /\ made'[k].drives = run
      /\ (n # None => made'[k].uid = ctl.seen[n].uid /\ made'[k].gen = ctl.seen[n].gen)
  BY DEF MadeJob
<1>2. (\A i \in MadeOf : made'[i] = made[i]) /\ \A j \in MadeOf : (jobs'[j].kept => jobs[j].kept) /\ jobs'[j].owner \in {jobs[j].owner, None}
  BY MadeOldHold
<1>3. DOMAIN made = 1..Len(made) /\ Len(made) \in Nat
  BY DEF CTyped
<1>4. None \notin Policies
  BY ConstantsHold DEF Names
<1> SUFFICES ASSUME NEW a \in DOMAIN made', NEW b \in DOMAIN made', Same(a, b)', jobs'[a].kept, Policed(b)',
                    made'[a].drives \cap made'[b].drives # {}
             PROVE  Troubled'
  BY DEF RetryAfterEdit
<1>5. a < b /\ made'[a].uid = made'[b].uid /\ made'[a].gen = made'[b].gen /\ made'[a].uid # 0
  BY DEF Same
<1>6. a \in DOMAIN made
  BY <1>1, <1>3, <1>5
<1>7. made'[a] = made[a] /\ jobs[a].kept
  BY <1>2, <1>6 DEF MadeOf
<1>8. CASE b \in DOMAIN made
  <2>1. made'[b] = made[b] /\ Policed(b)
    BY <1>2, <1>4, <1>8 DEF MadeOf, Policed
  <2>2. Same(a, b)
    BY <1>5, <1>7, <2>1 DEF Same
  <2> QED
    BY <1>6, <1>7, <1>8, <2>1, <2>2 DEF RetryAfterEdit
<1>9. CASE b = k
  <2>1. n \in Policies /\ n # None
    BY <1>1, <1>4, <1>9 DEF Policed
  <2>2. Match(ctl.seen[n], a)
    BY <1>1, <1>5, <1>7, <1>9, <2>1 DEF Match
  <2>3. PICK d \in run : Holding(a, d)
    BY <1>1, <1>7, <1>9 DEF Holding
  <2> QED
    BY <1>6, <2>1, <2>2, <2>3 DEF MadeOf
<1> QED
  BY <1>1, <1>8, <1>9

-----------------------------------------------------------------------------
(* No step but a submission brings a job to be named that was not.           *)
\* The pass and the objects stand.
LEMMA RefsAtRest ==
  ASSUME objs' = objs, ctl' = ctl PROVE NoNewRefs
BY DEF NoNewRefs, Ref, RefIn

\* The pass moves on.
LEMMA RefsMoved ==
  ASSUME objs' = objs, NEW n, MovedOn(n) PROVE NoNewRefs
BY DEF NoNewRefs, Ref, MovedOn, RefIn

\* A list is fetched.
LEMMA RefsListed ==
  ASSUME objs' = objs, NEW names \in SUBSET Names, Listed(names) PROVE NoNewRefs
<1>1. \A n \in DOMAIN ctl'.seen : n \in Names /\ objs[n] # None /\ ctl'.seen[n] = objs[n]
  BY DEF Listed
<1>2. ctl'.pc \notin {"put", "submit"}
  BY DEF Listed
<1> QED
  BY <1>1, <1>2 DEF NoNewRefs, Ref, RefIn

\* Users delete and edit.
LEMMA RefsTurned ==
  ASSUME ctl' = ctl, \A n \in Names : Turned(objs'[n], objs[n]) PROVE NoNewRefs
<1>1. \A n \in Names : objs'[n] # None => objs[n] # None /\ objs'[n].status = objs[n].status
  BY DEF Turned
<1> QED
  BY <1>1 DEF NoNewRefs, Ref, RefIn

\* Users create.
LEMMA RefsCreated ==
  ASSUME ctl' = ctl, NEW n \in Names, Created(n) PROVE NoNewRefs
<1>1. objs'[n].status.drives = NoStatus.drives /\ \A m \in Names : m # n => objs'[m] = objs[m]
  BY DEF Created
<1>2. \A j : ~RefIn(objs'[n].status.drives, j)
  BY <1>1, NoRefs
<1> SUFFICES ASSUME NEW j \in Jobs, Ref(j)' PROVE Ref(j)
  BY DEF NoNewRefs
<1>3. CASE \E m \in Names : objs'[m] # None /\ RefIn(objs'[m].status.drives, j)
  <2>1. PICK m \in Names : objs'[m] # None /\ RefIn(objs'[m].status.drives, j)
    BY <1>3
  <2>2. m # n
    BY <1>2, <2>1
  <2> QED
    BY <1>1, <2>1, <2>2 DEF Ref
<1>4. CASE ~\E m \in Names : objs'[m] # None /\ RefIn(objs'[m].status.drives, j)
  BY <1>4 DEF Ref, RefIn
<1> QED
  BY <1>3, <1>4

\* A status is written.
LEMMA RefsWrote ==
  ASSUME CTyped, ctl.pc = "put", NEW n \in ctl.todo, MovedOn(n), Wrote(n, ctl.patch.st, ctl.patch.part) PROVE NoNewRefs
<1>1. ctl'.seen = ctl.seen /\ ctl'.pc \notin {"put", "submit"}
  BY DEF MovedOn
<1>2. /\ n \in Names /\ objs[n] # None /\ objs'[n].status = Merged(objs[n].status, ctl.patch.st, ctl.patch.part)
      /\ \A m \in Names : m # n => objs'[m] = objs[m]
  BY DEF Wrote
<1>3. objs[n].status \in Statuses /\ ctl.patch.st \in Statuses /\ ctl.patch.part \in SUBSET All
  BY <1>2 DEF CTyped, CtlIs, ObjectIs
<1>4. \A d \in Drives : objs'[n].status.drives[d] = MergedRecord(objs[n].status.drives[d], ctl.patch.st.drives[d])
  BY <1>2, <1>3, MergedIs
<1>5. ASSUME NEW j \in Jobs, RefIn(objs'[n].status.drives, j) PROVE Ref(j)
  <2>1. PICK d \in Drives : objs'[n].status.drives[d] # None /\ objs'[n].status.drives[d].job = j
    BY <1>5 DEF RefIn
  <2> DEFINE old == objs[n].status.drives[d]
             new == ctl.patch.st.drives[d]
  <2>2. old \in Parts /\ new \in Parts
    BY <1>3, StatusOf
  <2>3. MergedRecord(old, new) # None /\ MergedRecord(old, new).job = j
    BY <1>4, <2>1
  <2> HIDE DEF old, new
  <2>4. (old # None /\ old.job = j) \/ (new # None /\ new.job = j)
    BY <2>2, <2>3, MergedRecordIs
  <2> QED
    BY <1>2, <2>4 DEF old, new, Ref, RefIn
<1> SUFFICES ASSUME NEW j \in Jobs, Ref(j)' PROVE Ref(j)
  BY DEF NoNewRefs
<1>6. CASE \E m \in Names : objs'[m] # None /\ RefIn(objs'[m].status.drives, j)
  <2>1. PICK m \in Names : objs'[m] # None /\ RefIn(objs'[m].status.drives, j)
    BY <1>6
  <2> QED
    BY <1>2, <1>5, <2>1 DEF Ref
<1>7. CASE ~\E m \in Names : objs'[m] # None /\ RefIn(objs'[m].status.drives, j)
  BY <1>1, <1>7 DEF Ref, RefIn
<1> QED
  BY <1>6, <1>7

\* A status is about to be put that names what was named.
LEMMA RefsToPut ==
  ASSUME objs' = objs, NEW n, NEW st, NEW part, AboutToPut(n, st, part), \A j \in Jobs : RefIn(st.drives, j) => Ref(j)
  PROVE  NoNewRefs
<1>1. ctl'.pc = "put" /\ ctl'.seen = ctl.seen /\ ctl'.patch.st = st
  BY DEF AboutToPut
<1>2. \A j \in Jobs : RefIn(ctl'.patch.st.drives, j) => Ref(j)
  BY <1>1
<1> SUFFICES ASSUME NEW j \in Jobs, Ref(j)' PROVE Ref(j)
  BY DEF NoNewRefs
<1>3. \/ \E n1 \in Names : objs[n1] # None /\ RefIn(objs[n1].status.drives, j)
      \/ \E n1 \in DOMAIN ctl.seen : RefIn(ctl.seen[n1].status.drives, j)
      \/ RefIn(ctl'.patch.st.drives, j)
  BY <1>1 DEF Ref, RefIn
<1> QED
  BY <1>2, <1>3 DEF Ref

\* Drives are about to be submitted, with records that name what was named.
LEMMA RefsDecided ==
  ASSUME objs' = objs, ctl'.pc = "submit", ctl'.seen = ctl.seen, \A j \in Jobs : RefIn(ctl'.recs, j) => Ref(j)
  PROVE  NoNewRefs
<1> SUFFICES ASSUME NEW j \in Jobs, Ref(j)' PROVE Ref(j)
  BY DEF NoNewRefs
<1>3. \/ \E n1 \in Names : objs[n1] # None /\ RefIn(objs[n1].status.drives, j)
      \/ \E n1 \in DOMAIN ctl.seen : RefIn(ctl.seen[n1].status.drives, j)
      \/ RefIn(ctl'.recs, j)
  BY DEF Ref, RefIn
<1> QED
  BY <1>3 DEF Ref

\* A submission has nothing named but its job.
LEMMA RefsGrouped ==
  ASSUME objs' = objs, ctl.pc = "submit", NEW p, NEW group, NEW k, GroupDone(p, k, group)
  PROVE  \A j \in Jobs : j # k /\ Ref(j)' => Ref(j)
<1> SUFFICES ASSUME NEW j \in Jobs, j # k, Ref(j)' PROVE Ref(j)
  OBVIOUS
<1>1. /\ ctl'.pc = "submit" /\ ctl'.seen = ctl.seen
      /\ \A d \in Drives : d \notin group => ctl'.recs[d] = ctl.recs[d]
      /\ \A d \in group : ctl'.recs[d].job = k
  BY DEF GroupDone
<1>2. \/ \E n1 \in Names : objs[n1] # None /\ RefIn(objs[n1].status.drives, j)
      \/ \E n1 \in DOMAIN ctl.seen : RefIn(ctl.seen[n1].status.drives, j)
      \/ RefIn(ctl'.recs, j)
  BY <1>1 DEF Ref, RefIn
<1>3. RefIn(ctl'.recs, j) => RefIn(ctl.recs, j)
  BY <1>1 DEF RefIn
<1> QED
  BY <1>2, <1>3 DEF Ref

\* ... and leaves what is still to be submitted free.
LEMMA RunFreeMade ==
  ASSUME CTyped, RunFree, NEW n \in Names \cup {None}, NEW ds, NEW run \in SUBSET Drives, NEW k, MadeJob(k, n, ds, run),
         \A j \in Jobs : j # k /\ Ref(j)' => Ref(j),
         ctl'.pc = "submit" => /\ ctl.pc = "submit" /\ ctl'.cur = ctl.cur /\ ctl'.run \subseteq ctl.run
                               /\ n # ctl.cur \/ ctl'.run \cap run = {}
  PROVE  RunFree'
<1> SUFFICES ASSUME ctl'.pc = "submit", NEW d \in ctl'.run, NEW j \in Jobs, jobs'[j].owner = ctl'.cur, Live(j, d)'
             PROVE  Lost(j, d)'
  BY DEF RunFree
<1>1. /\ j # k => jobs'[j] = jobs[j] \/ jobs'[j] = NoJob
      /\ jobs'[k].owner = n /\ \A e \in Drives : e \notin run => jobs'[k].dj[e] \in {"refused", "absent"}
  BY DEF MadeJob
<1>2. ctl.cur \in Policies /\ d \in Drives /\ None \notin Policies
  BY ConstantsHold DEF CTyped, CtlIs, Placed, Names
<1>3. j # k
  <2> SUFFICES ASSUME j = k PROVE FALSE
    OBVIOUS
  <2>1. d \notin run
    BY <1>1
  <2> QED
    BY <1>1, <1>2, <2>1 DEF Live
<1>4. jobs'[j] = jobs[j]
  BY <1>1, <1>2, <1>3, NoJobIs
<1>5. jobs[j].owner = ctl.cur /\ Live(j, d)
  BY <1>4 DEF Live
<1>6. Lost(j, d)
  BY <1>5 DEF RunFree
<1> QED
  BY <1>3, <1>4, <1>6 DEF Lost
\* Jobs go on, and nobody comes to follow one.
LEMMA LiveGoes ==
  ASSUME CTyped, LiveInv, JobsGo, NoNewRefs, ctl'.pc = "submit" => ctl.pc = "submit" /\ ctl'.cur = ctl.cur /\ ctl'.run \subseteq ctl.run
  PROVE  LiveInv'
BY ApartGoes, RunFreeGoes DEF LiveInv

-----------------------------------------------------------------------------
(* What the steps make of a job that is there.                               *)
\* What a step makes of a job before the worker saves its list.
GoesTo(j, b) ==
  /\ b.kept = jobs[j].kept /\ b.owner = jobs[j].owner
  /\ ~b.kept => b = NoJob
  /\ \A d \in Drives : jobs[j].dj[d] \in Held => b.dj[d] \in Held \/ d \notin made'[j].drives
  /\ \A d \in Drives : b.cancel /\ b.dj[d] = "interrupted" =>
        Troubled' \/ (jobs[j].cancel /\ jobs[j].dj[d] = "interrupted")
  /\ jobs[j].owner \in Policies => \A d \in Drives :
        b.dj[d] \in {"queued", "running"} \/ (b.dj[d] = "interrupted" /\ ~b.cancel) =>
        Live(j, d) /\ (~Ref(j) /\ jobs[j].dj[d] = "interrupted" => b.dj[d] = "interrupted")

\* A job that becomes that goes on,
LEMMA GoesWhere ==
  ASSUME NEW j \in Jobs, NEW b, GoesTo(j, b), jobs'[j] = b PROVE JobGoes(j)
<1>1. /\ jobs'[j].kept => jobs[j].kept /\ jobs'[j].owner = jobs[j].owner
      /\ ~jobs'[j].kept => jobs'[j] = NoJob
  BY DEF GoesTo
<1>2. \A d \in Drives : jobs'[j].kept /\ jobs[j].dj[d] \in Held => jobs'[j].dj[d] \in Held \/ d \notin made'[j].drives
  BY DEF GoesTo
<1>3. \A d \in Drives : jobs'[j].cancel /\ jobs'[j].dj[d] = "interrupted" =>
        Troubled' \/ (jobs[j].cancel /\ jobs[j].dj[d] = "interrupted")
  BY DEF GoesTo
<1>4. jobs[j].owner \in Policies => \A d \in Drives : Live(j, d)' =>
        Live(j, d) /\ (~Ref(j) /\ jobs[j].dj[d] = "interrupted" => jobs'[j].dj[d] = "interrupted")
  BY DEF GoesTo, Live
<1> QED
  BY <1>1, <1>2, <1>3, <1>4 DEF JobGoes

\* ... and so do they all when the list is saved.
LEMMA GoesSaved ==
  ASSUME NEW js \in [Jobs -> JobSet], \A j \in Jobs : GoesTo(j, js[j]), jobs' = Saved(js) \/ jobs' = js
  PROVE  JobsGo /\ jobs' \in [Jobs -> JobSet]
<1>1. jobs' \in [Jobs -> JobSet] /\ \A j \in Jobs : jobs'[j] = js[j] \/ jobs'[j] = NoJob
  BY SavedIs
<1>2. \A j \in Jobs : JobGoes(j)
  <2> TAKE j \in Jobs
  <2>1. CASE jobs'[j] = NoJob
    BY <2>1, NoJobGoes
  <2>2. CASE jobs'[j] = js[j]
    BY <2>2, GoesWhere
  <2> QED
    BY <1>1, <2>1, <2>2
<1> QED
  BY <1>1, <1>2 DEF JobsGo

\* A job that nothing happens to goes on.
LEMMA GoesSame ==
  ASSUME KeptJobs, NEW j \in Jobs PROVE GoesTo(j, jobs[j])
<1>1. ~jobs[j].kept => jobs[j] = NoJob
  BY DEF KeptJobs
<1> QED
  BY <1>1 DEF GoesTo, Live

\* So do they all.
LEMMA JobsStay ==
  ASSUME KeptJobs, CTyped, jobs' = jobs PROVE JobsGo /\ jobs' \in [Jobs -> JobSet]
<1>1. \A j \in Jobs : JobGoes(j)
  BY GoesSame, GoesWhere
<1> QED
  BY <1>1 DEF JobsGo, CTyped

\* A job with a drive is kept.
LEMMA ActiveKept ==
  ASSUME KeptJobs, NEW j \in Jobs, NEW d \in Drives, jobs[j].dj[d] # "absent" PROVE jobs[j].kept
BY NoJobIs DEF KeptJobs
\* A job's drive goes on.
LEMMA StepGoes ==
  ASSUME CTyped, KeptJobs, NEW j \in Jobs, NEW d \in Drives, NEW w \in {"running", "done", "failed", "interrupted"},
         jobs[j].dj[d] \in {"queued", "running"},
         w = "done" => d \notin made'[j].drives, w = "interrupted" => ~jobs[j].cancel,
         NEW js, js = [jobs EXCEPT ![j].dj[d] = w], jobs' = Saved(js) \/ jobs' = js
  PROVE  JobsGo /\ jobs' \in [Jobs -> JobSet]
<1>1. w \in DjStates /\ jobs \in [Jobs -> JobSet]
  BY DEF DjStates, Ended, CTyped
<1> DEFINE b == [jobs[j] EXCEPT !.dj[d] = w]
<1>2. jobs[j] \in JobSet
  BY <1>1
<1>3. /\ b \in JobSet /\ b.kept = jobs[j].kept /\ b.cancel = jobs[j].cancel /\ b.owner = jobs[j].owner
      /\ \A e \in Drives : b.dj[e] = IF e = d THEN w ELSE jobs[j].dj[e]
  BY <1>1, <1>2, DriveGoes
<1>4. js = [jobs EXCEPT ![j] = b]
  OBVIOUS
<1> HIDE DEF b
<1>5. js \in [Jobs -> JobSet] /\ js[j] = b /\ \A i \in Jobs : i # j => js[i] = jobs[i]
  BY <1>1, <1>3, <1>4
<1>6. jobs[j].kept
  BY ActiveKept
<1>7. GoesTo(j, b)
  <2>1. \A e \in Drives : jobs[j].dj[e] \in Held => b.dj[e] \in Held \/ e \notin made'[j].drives
    BY <1>3 DEF Held
  <2>2. \A e \in Drives : b.cancel /\ b.dj[e] = "interrupted" =>
          Troubled' \/ (jobs[j].cancel /\ jobs[j].dj[e] = "interrupted")
    BY <1>3
  <2>3. \A e \in Drives : b.dj[e] \in {"queued", "running"} \/ (b.dj[e] = "interrupted" /\ ~b.cancel) =>
          Live(j, e) /\ (~Ref(j) /\ jobs[j].dj[e] = "interrupted" => b.dj[e] = "interrupted")
    BY <1>3 DEF Live
  <2> QED
    BY <1>3, <1>6, <2>1, <2>2, <2>3 DEF GoesTo
<1>8. \A i \in Jobs : GoesTo(i, js[i])
  BY <1>5, <1>7, GoesSame
<1> QED
  BY <1>5, <1>8, GoesSaved

\* A job that a record names may be resumed.
LEMMA ResumedGoes ==
  ASSUME CTyped, KeptJobs, NEW j \in Jobs, jobs[j].kept, jobs[j].owner \in Policies => Ref(j)
  PROVE  GoesTo(j, Resumed(jobs[j])) /\ Resumed(jobs[j]) \in JobSet
<1> DEFINE b == Resumed(jobs[j])
<1>1. jobs[j] \in JobSet
  BY DEF CTyped
<1>2. /\ b \in JobSet /\ b.kept = jobs[j].kept /\ b.cancel = jobs[j].cancel /\ b.owner = jobs[j].owner
      /\ jobs[j].cancel => b = jobs[j]
      /\ ~jobs[j].cancel => \A d \in Drives : b.dj[d] = IF jobs[j].dj[d] = "interrupted" THEN "queued" ELSE jobs[j].dj[d]
  BY <1>1, ResumedIs
<1> HIDE DEF b
<1>3. \A d \in Drives : jobs[j].dj[d] \in Held => b.dj[d] \in Held
  BY <1>2 DEF Held
<1>4. \A d \in Drives : b.cancel /\ b.dj[d] = "interrupted" => jobs[j].cancel /\ jobs[j].dj[d] = "interrupted"
  BY <1>2
<1>5. \A d \in Drives : b.dj[d] \in {"queued", "running"} \/ (b.dj[d] = "interrupted" /\ ~b.cancel) => Live(j, d)
  BY <1>2 DEF Live
<1>6. GoesTo(j, b)
  BY <1>2, <1>3, <1>4, <1>5 DEF GoesTo
<1> QED
  BY <1>2, <1>6 DEF b

\* A job may be cancelled.
LEMMA CancelledGoes ==
  ASSUME CTyped, NEW j \in Jobs, jobs[j].kept
  PROVE  GoesTo(j, CancelledJob(jobs[j])) /\ CancelledJob(jobs[j]) \in JobSet
<1> DEFINE b == CancelledJob(jobs[j])
<1>1. jobs[j] \in JobSet
  BY DEF CTyped
<1>2. /\ b \in JobSet /\ b.kept = jobs[j].kept /\ b.cancel = TRUE /\ b.owner = jobs[j].owner
      /\ \A d \in Drives : b.dj[d] = IF jobs[j].dj[d] \in {"queued", "interrupted"} THEN "cancelled" ELSE jobs[j].dj[d]
  BY <1>1, CancelledIs
<1> HIDE DEF b
<1>3. \A d \in Drives : jobs[j].dj[d] \in Held => b.dj[d] \in Held
  BY <1>2 DEF Held
<1>4. \A d \in Drives : b.dj[d] # "interrupted"
  BY <1>2
<1>5. \A d \in Drives : b.dj[d] \in {"queued", "running"} => Live(j, d) /\ jobs[j].dj[d] # "interrupted"
  BY <1>2 DEF Live
<1>6. GoesTo(j, b)
  BY <1>2, <1>3, <1>4, <1>5 DEF GoesTo
<1> QED
  BY <1>2, <1>6 DEF b
\* A pass resumes some jobs, or cancels some.
LEMMA SomeGo ==
  ASSUME CTyped, KeptJobs, NEW S \in SUBSET Jobs, NEW f, \A j \in S : GoesTo(j, f[j]) /\ f[j] \in JobSet,
         NEW js, js = [j \in Jobs |-> IF j \in S THEN f[j] ELSE jobs[j]], jobs' = Saved(js) \/ jobs' = js
  PROVE  JobsGo /\ jobs' \in [Jobs -> JobSet]
<1>1. jobs \in [Jobs -> JobSet]
  BY DEF CTyped
<1>2. js \in [Jobs -> JobSet] /\ \A j \in Jobs : js[j] = IF j \in S THEN f[j] ELSE jobs[j]
  BY <1>1
<1>3. \A j \in Jobs : GoesTo(j, js[j])
  BY <1>2, GoesSame
<1> QED
  BY <1>2, <1>3, GoesSaved

\* A restart interrupts some.
LEMMA RestartGoes ==
  ASSUME CTyped, KeptJobs, Troubled', NEW watch \in SUBSET Drives,
         jobs' = Saved([j \in Jobs |-> [jobs[j] EXCEPT !.dj = [d \in Drives |->
                   IF @[d] = "queued" \/ (@[d] = "running" /\ d \notin watch)
                   THEN "interrupted" ELSE @[d]]]])
  PROVE  JobsGo /\ jobs' \in [Jobs -> JobSet]
<1> DEFINE ds(j) == [d \in Drives |-> IF jobs[j].dj[d] = "queued" \/ (jobs[j].dj[d] = "running" /\ d \notin watch)
                                      THEN "interrupted" ELSE jobs[j].dj[d]]
           js == [j \in Jobs |-> [jobs[j] EXCEPT !.dj = ds(j)]]
<1>1. jobs' = Saved(js)
  OBVIOUS
<1>2. ASSUME NEW j \in Jobs PROVE GoesTo(j, [jobs[j] EXCEPT !.dj = ds(j)]) /\ [jobs[j] EXCEPT !.dj = ds(j)] \in JobSet
  <2> DEFINE b == [jobs[j] EXCEPT !.dj = ds(j)]
  <2>1. jobs[j] \in JobSet
    BY DEF CTyped
  <2>2. jobs[j] = [kept |-> jobs[j].kept, cancel |-> jobs[j].cancel, owner |-> jobs[j].owner, dj |-> jobs[j].dj]
        /\ jobs[j].kept \in BOOLEAN /\ jobs[j].cancel \in BOOLEAN /\ jobs[j].owner \in Names \cup {None}
        /\ jobs[j].dj \in [Drives -> DjStates]
    BY <2>1, JobFields
  <2>3. "interrupted" \in DjStates
    BY DEF DjStates
  <2>4. ds(j) \in [Drives -> DjStates] /\ \A d \in Drives : ds(j)[d] =
          IF jobs[j].dj[d] = "queued" \/ (jobs[j].dj[d] = "running" /\ d \notin watch) THEN "interrupted" ELSE jobs[j].dj[d]
    BY <2>2, <2>3
  <2>5. PICK x : x = ds(j)
    OBVIOUS
  <2>6. b = [jobs[j] EXCEPT !.dj = x]
    BY <2>5
  <2> HIDE DEF ds, b
  <2>7. b = [kept |-> jobs[j].kept, cancel |-> jobs[j].cancel, owner |-> jobs[j].owner, dj |-> x]
    BY <2>2, <2>6
  <2>8. b \in JobSet
    BY <2>2, <2>4, <2>5, <2>7, JobMade
  <2>9. b.kept = jobs[j].kept /\ b.cancel = jobs[j].cancel /\ b.owner = jobs[j].owner /\ b.dj = x
    BY <2>7
  <2>10. \A d \in Drives : b.dj[d] =
          IF jobs[j].dj[d] = "queued" \/ (jobs[j].dj[d] = "running" /\ d \notin watch) THEN "interrupted" ELSE jobs[j].dj[d]
    BY <2>4, <2>5, <2>9
  <2>11. ~b.kept => b = NoJob
    <3> SUFFICES ASSUME ~jobs[j].kept PROVE b = NoJob
      BY <2>9
    <3>1. jobs[j] = NoJob
      BY DEF KeptJobs
    <3>2. \A d \in Drives : x[d] = "absent"
      BY <2>9, <2>10, <3>1, NoJobIs
    <3>3. x = [d \in Drives |-> "absent"]
      BY <2>4, <2>5, <3>2
    <3>4. b = [kept |-> NoJob.kept, cancel |-> NoJob.cancel, owner |-> NoJob.owner, dj |-> [d \in Drives |-> "absent"]]
      BY <2>7, <3>1, <3>3
    <3> QED
      BY <3>4 DEF NoJob
  <2>12. \A d \in Drives : jobs[j].dj[d] \in Held => b.dj[d] \in Held
    BY <2>10 DEF Held
  <2>13. \A d \in Drives : b.dj[d] \in {"queued", "running"} \/ (b.dj[d] = "interrupted" /\ ~b.cancel) =>
          Live(j, d) /\ (jobs[j].dj[d] = "interrupted" => b.dj[d] = "interrupted")
    BY <2>9, <2>10 DEF Live
  <2>14. GoesTo(j, b)
    BY <2>9, <2>11, <2>12, <2>13 DEF GoesTo
  <2> QED
    BY <2>8, <2>14 DEF b
<1> HIDE DEF ds
<1>3. js \in [Jobs -> JobSet] /\ \A j \in Jobs : GoesTo(j, js[j])
  BY <1>2
<1> HIDE DEF js
<1> QED
  BY <1>1, <1>3, GoesSaved

-----------------------------------------------------------------------------
(* The inductive invariant, and the kinds of step that keep it.              *)
\* What every step keeps.
IInv == CTyped /\ UidsInv /\ AnswerInv /\ JobsInv /\ RefInv /\ LiveInv /\ RetryInv /\ OpRunsOnce /\ RetryAfterEdit

\* The pass stands.
LEMMA RefsInPlace ==
  ASSUME CTyped, RefInv, Growing, ctl' = ctl, told' = told,
         \A n \in Names : objs'[n] # None => \/ objs[n] # None /\ objs'[n].status = objs[n].status
                                             \/ FineNext(n, objs'[n].status.drives)
  PROVE  RefInv'
<1>1. \A n \in DOMAIN ctl'.seen : \/ n \in DOMAIN ctl.seen /\ ctl'.seen[n] = ctl.seen[n]
                                  \/ FineNext(n, ctl'.seen[n].status.drives)
  OBVIOUS
<1>2. ctl'.pc = "put" => \/ ctl.pc = "put" /\ ctl'.cur = ctl.cur /\ ctl'.patch = ctl.patch
                         \/ FineNext(ctl'.cur, ctl'.patch.st.drives) /\ ctl'.patch.st.job <= Len(made')
  OBVIOUS
<1>3. ctl'.pc = "submit" => \/ ctl.pc = "submit" /\ ctl'.cur = ctl.cur /\ ctl'.recs = ctl.recs
                            \/ FineNext(ctl'.cur, ctl'.recs)
  OBVIOUS
<1>4. \A n \in Names : told'[n] # None => \/ told'[n] = told[n]
                                          \/ FineNext(n, told'[n][1].drives) /\ told'[n][1].job <= Len(made')
  OBVIOUS
<1> QED
  BY <1>1, <1>2, <1>3, <1>4, RefsKept

\* The jobs go on, and the pass stands.
LEMMA WorkKeeps ==
  ASSUME IInv, CTyped', Troubled => Troubled', JobsGo, SameMade, UNCHANGED <<objs, ctl, told, uid>>
  PROVE  IInv'
<1> USE DEF IInv
<1>1. Growing
  BY GoesGrowing DEF CTyped
<1>2. RefInv'
  BY <1>1, RefsInPlace
<1>3. UidsInv' /\ AnswerInv'
  BY UidsStay, AnswerStays
<1>4. JobsInv'
  BY JobsKeepGoing
<1>5. LiveInv'
  BY RefsAtRest, LiveGoes
<1>6. RetryInv'
  BY GoesHoldLess, RetryStays
<1>7. OpRunsOnce' /\ RetryAfterEdit'
  BY JobsOwned, OnceStays, EditStays DEF OwnersStay
<1> QED
  BY <1>2, <1>3, <1>4, <1>5, <1>6, <1>7

\* No job made.
LEMMA SameIsSame == ASSUME made' = made PROVE SameMade
BY DEF SameMade

\* Users delete objects, or raise their generation.
LEMMA TurnedMatches ==
  ASSUME UidsInv, CTyped, \A n \in Names : Turned(objs'[n], objs[n])
  PROVE  \A n \in Names : \A i \in MadeOf : objs'[n] # None /\ Match(objs'[n], i) =>
           objs[n] # None /\ Match(objs[n], i) /\ objs'[n].status = objs[n].status
<1> SUFFICES ASSUME NEW n \in Names, NEW i \in MadeOf, objs'[n] # None, Match(objs'[n], i)
             PROVE  objs[n] # None /\ Match(objs[n], i) /\ objs'[n].status = objs[n].status
  OBVIOUS
<1>1. objs[n] # None /\ objs'[n].uid = objs[n].uid /\ objs'[n].status = objs[n].status
      /\ (objs'[n].gen = objs[n].gen \/ objs'[n].gen = objs[n].gen + 1)
  BY DEF Turned
<1>2. objs[n].gen \in 1..MaxGen
  BY <1>1 DEF CTyped, ObjectIs
<1>3. made[i].uid = objs[n].uid /\ made[i].gen = objs'[n].gen
  BY <1>1 DEF Match
<1>4. made[i].gen <= objs[n].gen
  BY <1>1, <1>3 DEF UidsInv, MadeWas
<1>5. objs'[n].gen = objs[n].gen
  BY <1>1, <1>2, <1>3, <1>4, ConstantsHold
<1> QED
  BY <1>1, <1>3, <1>5 DEF Match

\* Users delete and edit: IInv is kept.
LEMMA TurnedKeeps ==
  ASSUME IInv, CTyped', Troubled => Troubled', UNCHANGED <<made, ctl, told, jobs, uid>>, \A n \in Names : Turned(objs'[n], objs[n])
  PROVE  IInv'
<1> USE DEF IInv
<1>1. SameMade /\ JobsGo
  BY SameIsSame, JobsStay DEF JobsInv
<1>2. Growing
  BY <1>1, GoesGrowing DEF CTyped
<1>3. RefInv'
  BY <1>2, RefsInPlace DEF Turned
<1>4. UidsInv' /\ AnswerInv'
  BY UidsTurned, AnswerTurned
<1>5. JobsInv'
  BY <1>1, JobsKeepGoing
<1>6. LiveInv'
  BY <1>1, RefsTurned, LiveGoes
<1>7. RetryInv'
  BY TurnedMatches, RetryTurned
<1>8. OpRunsOnce' /\ RetryAfterEdit'
  BY <1>1, JobsOwned, OnceStays, EditStays DEF OwnersStay
<1> QED
  BY <1>3, <1>4, <1>5, <1>6, <1>7, <1>8

\* Nothing was made for an object that is new.
LEMMA CreatedMatches ==
  ASSUME UidsInv, CTyped, NEW n \in Names, Created(n)
  PROVE  \A m \in Names : \A i \in MadeOf : objs'[m] # None /\ Match(objs'[m], i) =>
           objs[m] # None /\ Match(objs[m], i) /\ objs'[m].status = objs[m].status
<1>1. \A i \in MadeOf : made[i].uid # objs'[n].uid
  <2> TAKE i \in MadeOf
  <2>1. made[i].uid \in Nat /\ made[i].uid <= uid
    BY MadeFields DEF UidsInv, MadeWas
  <2>2. uid \in Nat /\ objs'[n].uid = uid + 1
    BY ConstantsHold DEF CTyped, Created
  <2> QED
    BY <2>1, <2>2
<1> QED
  BY <1>1 DEF Created, Match

\* Users create: IInv is kept.
LEMMA CreatedKeeps ==
  ASSUME IInv, CTyped', Troubled => Troubled', UNCHANGED <<made, ctl, told, jobs>>, NEW n \in Names, Created(n)
  PROVE  IInv'
<1> USE DEF IInv
<1>1. SameMade /\ JobsGo
  BY SameIsSame, JobsStay DEF JobsInv
<1>2. Growing
  BY <1>1, GoesGrowing DEF CTyped
<1>3. RefInv'
  <2>1. \A m \in Names : m # n => objs'[m] = objs[m]
    BY DEF Created
  <2>2. objs'[n].status.drives = NoStatus.drives
    BY DEF Created
  <2>3. FineNext(n, objs'[n].status.drives)
    BY <2>2, NoStatusIs DEF FineNext
  <2> QED
    BY <1>2, <2>1, <2>3, RefsInPlace
<1>4. UidsInv' /\ AnswerInv'
  BY UidsCreated, AnswerCreated
<1>5. JobsInv'
  BY <1>1, JobsKeepGoing
<1>6. LiveInv'
  BY <1>1, RefsCreated, LiveGoes
<1>7. RetryInv'
  BY CreatedMatches, RetryTurned
<1>8. OpRunsOnce' /\ RetryAfterEdit'
  BY <1>1, JobsOwned, OnceStays, EditStays DEF OwnersStay
<1> QED
  BY <1>3, <1>4, <1>5, <1>6, <1>7, <1>8

\* A list is fetched, a pass ends, or the daemon restarts.
ToldLess == \A n \in Names : told'[n] \in {told[n], None}
LEMMA ListedKeeps ==
  ASSUME IInv, CTyped', Troubled => Troubled', JobsGo, UNCHANGED <<made, objs, uid>>, ToldLess,
         NEW names \in SUBSET Names, Listed(names), ctl.pc \notin {"put", "submit"} \/ Troubled'
  PROVE  IInv'
<1> USE DEF IInv
<1>1. SameMade
  BY SameIsSame
<1>2. Growing
  BY <1>1, GoesGrowing DEF CTyped
<1>3. RefInv'
  <2>1. \A n \in DOMAIN ctl'.seen : n \in Names /\ objs[n] # None /\ ctl'.seen[n] = objs[n]
    BY DEF Listed
  <2>2. \A n \in DOMAIN ctl'.seen : FineNext(n, ctl'.seen[n].status.drives)
    <3> TAKE n \in DOMAIN ctl'.seen
    <3>1. PICK y : y = objs[n].status.drives
      OBVIOUS
    <3>2. RefsFine(n, y)
      BY <2>1, <3>1 DEF RefInv
    <3>3. FineNext(n, y)
      BY <1>2, <3>2, RefsStay DEF Growing
    <3> QED
      BY <2>1, <3>1, <3>3
  <2> QED
    <3>1. ctl'.pc \notin {"put", "submit"} /\ \A n \in Names : objs'[n] # None => objs[n] # None /\ objs'[n].status = objs[n].status
      BY DEF Listed
    <3>2. \A n \in Names : told'[n] # None => \/ told'[n] = told[n]
                                              \/ FineNext(n, told'[n][1].drives) /\ told'[n][1].job <= Len(made')
      <4>1. \A n \in Names : told'[n] # None => told'[n] = told[n]
        BY DEF ToldLess
      <4> QED
        BY <4>1
    <3>4. ctl'.pc = "put" => \/ ctl.pc = "put" /\ ctl'.cur = ctl.cur /\ ctl'.patch = ctl.patch
                             \/ FineNext(ctl'.cur, ctl'.patch.st.drives) /\ ctl'.patch.st.job <= Len(made')
      BY <3>1
    <3>5. ctl'.pc = "submit" => \/ ctl.pc = "submit" /\ ctl'.cur = ctl.cur /\ ctl'.recs = ctl.recs
                                \/ FineNext(ctl'.cur, ctl'.recs)
      BY <3>1
    <3> HIDE DEF IInv
    <3>3. CTyped /\ RefInv
      BY DEF IInv
    <3> QED
      BY <1>2, <2>2, <3>1, <3>2, <3>3, <3>4, <3>5, RefsKept
<1>4. UidsInv'
  BY <1>1, UidsListed
<1>5. AnswerInv'
  BY <1>1, AnswerListed DEF AnswerInv
<1>6. JobsInv'
  BY <1>1, JobsKeepGoing
<1>7. LiveInv'
  BY RefsListed, LiveGoes DEF Listed
<1>8. RetryInv'
  BY <1>1, GoesHoldLess, RetryListed DEF RetryInv
<1>9. OpRunsOnce' /\ RetryAfterEdit'
  BY <1>1, JobsOwned, OnceStays, EditStays DEF OwnersStay
<1> QED
  BY <1>3, <1>4, <1>5, <1>6, <1>7, <1>8, <1>9
\* The pass goes on to the next object.
LEMMA MovedKeeps ==
  ASSUME IInv, CTyped', Troubled => Troubled', JobsGo, UNCHANGED <<made, objs, told, uid>>, NEW n \in ctl.todo,
         ctl.cur \in {None, n}, MovedOn(n),
         \/ ctl.pc \notin {"put", "submit"}
         \/ ctl.pc = "put" /\ ctl.cur = n /\ objs[n] = None
         \/ ctl.pc = "submit" /\ ctl.cur = n /\ told[n] # None /\ told[n][1].drives = ctl.recs
         \/ Troubled'
  PROVE  IInv'
<1>0. CTyped /\ UidsInv /\ AnswerInv /\ JobsInv /\ RefInv /\ LiveInv /\ RetryInv /\ OpRunsOnce /\ RetryAfterEdit
  BY DEF IInv
<1>1. SameMade /\ ctl'.seen = ctl.seen /\ ctl'.todo \subseteq ctl.todo /\ ctl'.pc \notin {"put", "submit"}
  BY SameIsSame DEF MovedOn
<1>2. Growing
  BY <1>0, <1>1, GoesGrowing DEF CTyped
<1>3. RefInv'
  <2>1. \A m \in DOMAIN ctl'.seen : \/ m \in DOMAIN ctl.seen /\ ctl'.seen[m] = ctl.seen[m]
                                    \/ FineNext(m, ctl'.seen[m].status.drives)
    BY <1>1
  <2>2. ctl'.pc = "put" => \/ ctl.pc = "put" /\ ctl'.cur = ctl.cur /\ ctl'.patch = ctl.patch
                           \/ FineNext(ctl'.cur, ctl'.patch.st.drives) /\ ctl'.patch.st.job <= Len(made')
    BY <1>1
  <2>3. ctl'.pc = "submit" => \/ ctl.pc = "submit" /\ ctl'.cur = ctl.cur /\ ctl'.recs = ctl.recs
                              \/ FineNext(ctl'.cur, ctl'.recs)
    BY <1>1
  <2>4. \A m \in Names : told'[m] # None => \/ told'[m] = told[m]
                                            \/ FineNext(m, told'[m][1].drives) /\ told'[m][1].job <= Len(made')
    OBVIOUS
  <2>5. \A m \in Names : objs'[m] # None => \/ objs[m] # None /\ objs'[m].status = objs[m].status
                                            \/ FineNext(m, objs'[m].status.drives)
    OBVIOUS
  <2> QED
    BY <1>0, <1>2, <2>1, <2>2, <2>3, <2>4, <2>5, RefsKept
<1>4. UidsInv'
  BY <1>0, <1>1, UidsStay
<1>5. AnswerInv'
  <2>1. CASE Troubled'
    BY <2>1 DEF AnswerInv
  <2>2. CASE ~Troubled'
    BY <1>0, <1>1, <2>2, AnswerMoved
  <2> QED
    BY <2>1, <2>2
<1>6. JobsInv'
  BY <1>0, <1>1, JobsKeepGoing
<1>7. LiveInv'
  BY <1>0, <1>1, RefsMoved, LiveGoes
<1>8. RetryInv'
  <2>1. CASE Troubled'
    BY <2>1 DEF RetryInv
  <2>2. CASE ~Troubled'
    BY <1>0, <1>1, <2>2, GoesHoldLess, RetryMoved
  <2> QED
    BY <2>1, <2>2
<1>9. OpRunsOnce' /\ RetryAfterEdit'
  BY <1>0, <1>1, JobsOwned, OnceStays, EditStays DEF OwnersStay
<1> QED
  BY <1>3, <1>4, <1>5, <1>6, <1>7, <1>8, <1>9 DEF IInv

\* What is to be written says what is so.
Answers(n, st, part) ==
  Troubled \/ \A i \in MadeOf : Match(ctl.seen[n], i) =>
     \/ "phase" \in part /\ "observed" \in part /\ Final(st) /\ st.observed = made[i].gen
     \/ "phase" \notin part /\ "observed" \notin part
\* What is to be written of a policy is harmless to what holds its drives,
HarmlessTo(n, drives) ==
  \A i \in MadeOf : \A d \in Drives : Holding(i, d) /\ Match(ctl.seen[n], i) =>
    (RecordOK(ctl.seen[n].status.drives[d], i) => Harmless(drives[d], i))
\* ... and names only what is named.
ToldOf(n, drives) ==
  RefsFine(n, drives) /\ \A j \in Jobs : RefIn(drives, j) => Ref(j)

\* A status is about to be put.
LEMMA ToPutKeeps ==
  ASSUME IInv, CTyped', Troubled => Troubled', JobsGo, UNCHANGED <<made, objs, told, uid>>, NEW n \in ctl.todo,
         NEW st \in Statuses, NEW part \in SUBSET All, AboutToPut(n, st, part),
         \/ ctl.pc \notin {"put", "submit"} /\ ctl.cur = None /\ (n \in Policies => HarmlessTo(n, st.drives))
         \/ ctl.pc = "submit" /\ ctl.cur = n /\ st.drives = ctl.recs,
         n \in Ops => Answers(n, st, part), ToldOf(n, st.drives), st.job <= Len(made)
  PROVE  IInv'
<1>0. CTyped /\ UidsInv /\ AnswerInv /\ JobsInv /\ RefInv /\ LiveInv /\ RetryInv /\ OpRunsOnce /\ RetryAfterEdit
  BY DEF IInv
<1>1. SameMade /\ ctl'.seen = ctl.seen /\ ctl'.todo = ctl.todo /\ ctl'.pc = "put" /\ ctl'.cur = n /\ ctl'.patch.st = st
      /\ ctl.pc # "put" /\ ctl.cur \in {None, n}
  BY SameIsSame DEF AboutToPut
<1>2. Growing
  BY <1>0, <1>1, GoesGrowing DEF CTyped
<1>3. RefInv'
  <2>1. \A m \in DOMAIN ctl'.seen : \/ m \in DOMAIN ctl.seen /\ ctl'.seen[m] = ctl.seen[m]
                                    \/ FineNext(m, ctl'.seen[m].status.drives)
    BY <1>1
  <2>2. FineNext(ctl'.cur, ctl'.patch.st.drives) /\ ctl'.patch.st.job <= Len(made')
    <3>1. PICK y : y = st.drives
      OBVIOUS
    <3>2. FineNext(n, y)
      BY <1>0, <1>2, <3>1, RefsStay DEF Growing, ToldOf
    <3> QED
      BY <1>1, <3>1, <3>2
  <2>3. ctl'.pc = "put" => \/ ctl.pc = "put" /\ ctl'.cur = ctl.cur /\ ctl'.patch = ctl.patch
                           \/ FineNext(ctl'.cur, ctl'.patch.st.drives) /\ ctl'.patch.st.job <= Len(made')
    BY <2>2
  <2>4. ctl'.pc = "submit" => \/ ctl.pc = "submit" /\ ctl'.cur = ctl.cur /\ ctl'.recs = ctl.recs
                              \/ FineNext(ctl'.cur, ctl'.recs)
    BY <1>1
  <2>5. \A m \in Names : told'[m] # None => \/ told'[m] = told[m]
                                            \/ FineNext(m, told'[m][1].drives) /\ told'[m][1].job <= Len(made')
    OBVIOUS
  <2>6. \A m \in Names : objs'[m] # None => \/ objs[m] # None /\ objs'[m].status = objs[m].status
                                            \/ FineNext(m, objs'[m].status.drives)
    OBVIOUS
  <2> QED
    BY <1>0, <1>2, <2>1, <2>3, <2>4, <2>5, <2>6, RefsKept
<1>4. UidsInv'
  BY <1>0, <1>1, UidsStay
<1>5. AnswerInv'
  <2>1. CASE Troubled
    BY <2>1 DEF AnswerInv
  <2>2. CASE ~Troubled
    <3>1. n \in Ops => \A i \in MadeOf : Match(ctl.seen[n], i) =>
            \/ "phase" \in part /\ "observed" \in part /\ Final(st) /\ st.observed = made[i].gen
            \/ "phase" \notin part /\ "observed" \notin part
      BY <2>2 DEF Answers
    <3> QED
      BY <1>0, <1>1, <3>1, AnswerPut
  <2> QED
    BY <2>1, <2>2
<1>6. JobsInv'
  BY <1>0, <1>1, JobsKeepGoing
<1>7. LiveInv'
  <2>1. NoNewRefs
    BY RefsToPut DEF ToldOf
  <2> QED
    BY <1>0, <1>1, <2>1, LiveGoes
<1>8. RetryInv'
  <2>1. HoldsLess
    BY <1>0, <1>1, GoesHoldLess
  <2>2. \/ /\ ctl.pc \notin {"put", "submit"} /\ ctl.cur = None
           /\ n \in Policies => \A i \in MadeOf : \A d \in Drives : Holding(i, d) /\ Match(ctl.seen[n], i) =>
                (RecordOK(ctl.seen[n].status.drives[d], i) => Harmless(st.drives[d], i))
        \/ ctl.pc = "submit" /\ ctl.cur = n /\ st.drives = ctl.recs
    BY DEF HarmlessTo
  <2> QED
    BY <1>0, <1>1, <2>1, <2>2, RetryPut
<1>9. OpRunsOnce' /\ RetryAfterEdit'
  BY <1>0, <1>1, JobsOwned, OnceStays, EditStays DEF OwnersStay
<1> QED
  BY <1>3, <1>4, <1>5, <1>6, <1>7, <1>8, <1>9 DEF IInv

\* A status is said: just like the last one, or it is to be written.
LEMMA SayKeeps ==
  ASSUME IInv, CTyped', Troubled => Troubled', JobsGo, UNCHANGED <<made, objs, told, uid>>, NEW n \in ctl.todo,
         NEW st \in Statuses, NEW part \in SUBSET All, Say(n, st, part),
         \/ ctl.pc \notin {"put", "submit"} /\ ctl.cur = None /\ (n \in Policies => HarmlessTo(n, st.drives))
         \/ ctl.pc = "submit" /\ ctl.cur = n /\ st.drives = ctl.recs,
         n \in Ops => Answers(n, st, part), ToldOf(n, st.drives), st.job <= Len(made)
  PROVE  IInv'
<1>1. \/ told[n] = <<st, part>> /\ MovedOn(n)
      \/ told[n] # <<st, part>> /\ AboutToPut(n, st, part)
  BY SayIs DEF IInv, CTyped
<1>2. CASE told[n] = <<st, part>> /\ MovedOn(n)
  <2>1. told[n] # None /\ told[n][1] = st
    <3>1. <<st, part>> \in Statuses \X SUBSET All
      OBVIOUS
    <3> QED
      BY <1>2, <3>1, NoneAssumption
  <2>2. ctl.cur \in {None, n}
    OBVIOUS
  <2> QED
    BY <1>2, <2>1, <2>2, MovedKeeps
<1>3. CASE AboutToPut(n, st, part)
  BY <1>3, ToPutKeeps
<1> QED
  BY <1>1, <1>2, <1>3

\* The status reaches the apiserver.
LEMMA WroteKeeps ==
  ASSUME IInv, CTyped', Troubled => Troubled', UNCHANGED <<made, jobs, uid>>, ctl.pc = "put", NEW n \in ctl.todo, n = ctl.cur,
         MovedOn(n), Wrote(n, ctl.patch.st, ctl.patch.part), told' = [told EXCEPT ![n] = <<ctl.patch.st, ctl.patch.part>>]
  PROVE  IInv'
<1>0. CTyped /\ UidsInv /\ AnswerInv /\ JobsInv /\ RefInv /\ LiveInv /\ RetryInv /\ OpRunsOnce /\ RetryAfterEdit
  BY DEF IInv
<1>1. SameMade /\ JobsGo
  BY <1>0, SameIsSame, JobsStay DEF JobsInv
<1>2. Growing
  BY <1>0, <1>1, GoesGrowing DEF CTyped
<1>3. ctl'.seen = ctl.seen /\ ctl'.pc \notin {"put", "submit"}
  BY DEF MovedOn
<1>4. RefInv'
  <2>1. n \in Names /\ objs[n] # None /\ objs'[n].status = Merged(objs[n].status, ctl.patch.st, ctl.patch.part)
        /\ \A m \in Names : m # n => objs'[m] = objs[m]
    BY DEF Wrote
  <2>2. RefsFine(n, objs[n].status.drives) /\ RefsFine(n, ctl.patch.st.drives) /\ ctl.patch.st.job <= Len(made)
    BY <1>0, <2>1 DEF RefInv
  <2>3. objs[n].status \in Statuses /\ ctl.patch.st \in Statuses /\ ctl.patch.part \in SUBSET All
    BY <1>0, <2>1 DEF CTyped, CtlIs, ObjectIs
  <2>4. objs[n].status.drives \in [Drives -> Parts] /\ ctl.patch.st.drives \in [Drives -> Parts]
        /\ \A d \in Drives : objs'[n].status.drives[d] = MergedRecord(objs[n].status.drives[d], ctl.patch.st.drives[d])
    BY <2>1, <2>3, MergedIs, StatusOf
  <2>5. PICK y : y = objs'[n].status.drives
    OBVIOUS
  <2>6. FineNext(n, y)
    <3>1. RefsFine(n, y)
      BY <2>2, <2>4, <2>5, RefsMerged
    <3> QED
      BY <1>0, <1>2, <3>1, RefsStay DEF Growing
  <2>7. PICK z : z = ctl.patch.st.drives
    OBVIOUS
  <2>8. FineNext(n, z) /\ ctl.patch.st.job <= Len(made')
    <3>1. FineNext(n, z)
      BY <1>0, <1>2, <2>2, <2>7, RefsStay DEF Growing
    <3> QED
      BY <2>2, <3>1
  <2>9. told'[n][1] = ctl.patch.st /\ \A m \in Names : m # n => told'[m] = told[m]
    BY <1>0, <2>1 DEF CTyped
  <2>10. \A m \in DOMAIN ctl'.seen : \/ m \in DOMAIN ctl.seen /\ ctl'.seen[m] = ctl.seen[m]
                                     \/ FineNext(m, ctl'.seen[m].status.drives)
    BY <1>3
  <2>11. ctl'.pc = "put" => \/ ctl.pc = "put" /\ ctl'.cur = ctl.cur /\ ctl'.patch = ctl.patch
                            \/ FineNext(ctl'.cur, ctl'.patch.st.drives) /\ ctl'.patch.st.job <= Len(made')
    BY <1>3
  <2>12. ctl'.pc = "submit" => \/ ctl.pc = "submit" /\ ctl'.cur = ctl.cur /\ ctl'.recs = ctl.recs
                               \/ FineNext(ctl'.cur, ctl'.recs)
    BY <1>3
  <2>13. \A m \in Names : told'[m] # None => \/ told'[m] = told[m]
                                             \/ FineNext(m, told'[m][1].drives) /\ told'[m][1].job <= Len(made')
    BY <2>7, <2>8, <2>9
  <2>14. \A m \in Names : objs'[m] # None => \/ objs[m] # None /\ objs'[m].status = objs[m].status
                                             \/ FineNext(m, objs'[m].status.drives)
    BY <2>1, <2>5, <2>6
  <2> QED
    BY <1>0, <1>2, <2>10, <2>11, <2>12, <2>13, <2>14, RefsKept
<1>5. UidsInv' /\ AnswerInv'
  <2>1. PICK st, part : st = ctl.patch.st /\ part = ctl.patch.part
    OBVIOUS
  <2>2. UidsInv'
    BY <1>0, <2>1, UidsWrote
  <2> QED
    BY <1>0, <2>2, AnswerWrote
<1>6. JobsInv'
  BY <1>0, <1>1, JobsKeepGoing
<1>7. LiveInv'
  BY <1>0, <1>1, <1>3, RefsWrote, LiveGoes
<1>8. RetryInv'
  BY <1>0, RetryWrote
<1>9. OpRunsOnce' /\ RetryAfterEdit'
  BY <1>0, <1>1, JobsOwned, OnceStays, EditStays DEF OwnersStay
<1> QED
  BY <1>4, <1>5, <1>6, <1>7, <1>8, <1>9 DEF IInv

\* The policies leave the operations' answers alone.
LEMMA AnswerAtPolicies ==
  ASSUME AnswerInv, Troubled => Troubled', objs' = objs, ctl.pc # "put", ctl'.pc # "put", DOMAIN ctl.seen \subseteq Policies,
         ctl'.seen = ctl.seen, ctl'.todo \subseteq DOMAIN ctl.seen,
         \A i \in MadeOf' : \/ i \in MadeOf /\ made'[i].uid = made[i].uid /\ made'[i].gen = made[i].gen
                            \/ \A o \in Ops : objs[o] # None => made'[i].uid # objs[o].uid
  PROVE  AnswerInv'
<1>1. AnsweredHere => AnsweredHere'
  <2> SUFFICES ASSUME AnsweredHere, NEW o \in Ops, NEW i \in MadeOf', objs[o] # None, Match(objs[o], i)'
               PROVE  Said(objs[o], i)'
    BY DEF AnsweredHere
  <2>1. i \in MadeOf /\ made'[i].uid = made[i].uid /\ made'[i].gen = made[i].gen
    BY DEF Match
  <2> QED
    BY <2>1 DEF AnsweredHere, Match, Said
<1>2. AnsweredSeen'
  <2>1. Ops \cap Policies = {}
    BY ConstantsHold
  <2> QED
    BY <2>1 DEF AnsweredSeen, Ahead
<1>3. AnsweredNext'
  BY DEF AnsweredNext
<1> QED
  BY <1>1, <1>2, <1>3 DEF AnswerInv

\* A policy's drives are decided.
LEMMA DecidedKeeps ==
  ASSUME IInv, CTyped', Troubled => Troubled', JobsGo, UNCHANGED <<made, objs, told, uid>>, NEW p \in ctl.todo \cap Policies,
         ctl.pc = "policies", ctl.cur = None, ctl'.pc = "submit", ctl'.cur = p, ctl'.seen = ctl.seen, ctl'.todo = ctl.todo,
         HarmlessTo(p, ctl'.recs), ToldOf(p, ctl'.recs),
         \A i \in MadeOf : \A d \in ctl'.run : Holding(i, d) /\ Match(ctl.seen[p], i) =>
           (RecordOK(ctl.seen[p].status.drives[d], i) => Troubled),
         RunFree'
  PROVE  IInv'
<1>0. CTyped /\ UidsInv /\ AnswerInv /\ JobsInv /\ RefInv /\ LiveInv /\ RetryInv /\ OpRunsOnce /\ RetryAfterEdit
  BY DEF IInv
<1>1. SameMade
  BY SameIsSame
<1>2. Growing
  BY <1>0, <1>1, GoesGrowing DEF CTyped
<1>3. RefInv'
  <2>1. \A m \in DOMAIN ctl'.seen : \/ m \in DOMAIN ctl.seen /\ ctl'.seen[m] = ctl.seen[m]
                                    \/ FineNext(m, ctl'.seen[m].status.drives)
    OBVIOUS
  <2>2. ctl'.pc = "put" => \/ ctl.pc = "put" /\ ctl'.cur = ctl.cur /\ ctl'.patch = ctl.patch
                           \/ FineNext(ctl'.cur, ctl'.patch.st.drives) /\ ctl'.patch.st.job <= Len(made')
    OBVIOUS
  <2>3. FineNext(ctl'.cur, ctl'.recs)
    <3>1. PICK y : y = ctl'.recs
      OBVIOUS
    <3>2. FineNext(p, y)
      BY <1>0, <1>2, <3>1, RefsStay DEF Growing, ToldOf
    <3> QED
      BY <3>1, <3>2
  <2>4. ctl'.pc = "submit" => \/ ctl.pc = "submit" /\ ctl'.cur = ctl.cur /\ ctl'.recs = ctl.recs
                              \/ FineNext(ctl'.cur, ctl'.recs)
    BY <2>3
  <2>5. \A m \in Names : told'[m] # None => \/ told'[m] = told[m]
                                            \/ FineNext(m, told'[m][1].drives) /\ told'[m][1].job <= Len(made')
    OBVIOUS
  <2>6. \A m \in Names : objs'[m] # None => \/ objs[m] # None /\ objs'[m].status = objs[m].status
                                            \/ FineNext(m, objs'[m].status.drives)
    OBVIOUS
  <2> QED
    BY <1>0, <1>2, <2>1, <2>2, <2>4, <2>5, <2>6, RefsKept
<1>4. UidsInv'
  BY <1>0, <1>1, UidsStay
<1>5. AnswerInv'
  <2>1. DOMAIN ctl.seen \subseteq Policies /\ ctl.todo \subseteq DOMAIN ctl.seen
    BY <1>0 DEF CTyped, CtlIs, Placed
  <2>2. \A i \in MadeOf' : i \in MadeOf /\ made'[i].uid = made[i].uid /\ made'[i].gen = made[i].gen
    BY DEF MadeOf
  <2> QED
    BY <1>0, <2>1, <2>2, AnswerAtPolicies
<1>6. JobsInv'
  BY <1>0, <1>1, JobsKeepGoing
<1>7. LiveInv'
  <2>1. NoNewRefs
    BY RefsDecided DEF ToldOf
  <2> QED
    BY <1>0, <2>1, ApartGoes DEF LiveInv
<1>8. RetryInv'
  <2>1. HoldsLess
    BY <1>0, <1>1, GoesHoldLess
  <2>2. PICK recs : recs = ctl'.recs
    OBVIOUS
  <2>3. recs \in [Drives -> Parts] /\ ctl'.run \subseteq Drives
    BY <2>2 DEF CTyped, CtlIs
  <2>4. \A i \in MadeOf : \A d \in Drives : Holding(i, d) /\ Match(ctl.seen[p], i) =>
           (RecordOK(ctl.seen[p].status.drives[d], i) => Harmless(recs[d], i))
    BY <2>2 DEF HarmlessTo
  <2> QED
    BY <1>0, <1>1, <2>1, <2>2, <2>3, <2>4, RetryDecided
<1>9. OpRunsOnce' /\ RetryAfterEdit'
  BY <1>0, <1>1, JobsOwned, OnceStays, EditStays DEF OwnersStay
<1> QED
  BY <1>3, <1>4, <1>5, <1>6, <1>7, <1>8, <1>9 DEF IInv

\* A group of the policy's drives is submitted.
LEMMA GroupKeeps ==
  ASSUME IInv, CTyped', Troubled => Troubled', UNCHANGED <<objs, told, uid>>, ctl.pc = "submit", NEW p, p = ctl.cur,
         NEW group, NEW k, GroupDone(p, k, group),
         \/ made' = made /\ jobs' = jobs /\ k = 0
         \/ \E run : MadeJob(k, p, group, run) /\ run \subseteq group
  PROVE  IInv'
<1>0. CTyped /\ UidsInv /\ AnswerInv /\ JobsInv /\ RefInv /\ LiveInv /\ RetryInv /\ OpRunsOnce /\ RetryAfterEdit
  BY DEF IInv
<1>1. /\ p \in Policies /\ p \in Names /\ p \in ctl.todo /\ p \notin Ops /\ p # None /\ ctl.run \subseteq Drives
      /\ DOMAIN ctl.seen \subseteq Policies /\ ctl.todo \subseteq DOMAIN ctl.seen
  <2>1. p \in ctl.todo /\ DOMAIN ctl.seen \subseteq Policies /\ ctl.todo \subseteq DOMAIN ctl.seen /\ ctl.run \subseteq Drives
    BY <1>0 DEF CTyped, CtlIs, Placed
  <2> QED
    BY <2>1, ConstantsHold DEF Names
<1>2. /\ ctl'.pc = "submit" /\ ctl'.cur = p /\ ctl'.seen = ctl.seen /\ ctl'.todo = ctl.todo /\ ctl'.run = ctl.run \ group
      /\ group \subseteq ctl.run
      /\ (\A d \in Drives : d \notin group => ctl'.recs[d] = ctl.recs[d])
      /\ \A d \in group : ctl'.recs[d] # None /\ ctl'.recs[d].job = k
  BY DEF GroupDone
<1>3. \A j \in Jobs : j # k /\ Ref(j)' => Ref(j)
  BY RefsGrouped
<1>4. RetryInv'
  <2>1. \/ made' = made /\ jobs' = jobs
        \/ \E run : MadeJob(k, p, group, run) /\ run \subseteq group
    OBVIOUS
  <2> QED
    BY <1>0, <2>1, RetrySubmit
<1>5. Growing /\ k \in 0..Len(made') /\ (k # 0 => jobs'[k].owner \in {p, None})
  <2>1. CASE made' = made /\ jobs' = jobs /\ k = 0
    <3>1. Growing
      BY <1>0, <2>1, SameIsSame, JobsStay, GoesGrowing DEF CTyped, JobsInv
    <3>2. Len(made') \in Nat
      BY DEF CTyped
    <3> QED
      BY <2>1, <3>1, <3>2
  <2>2. ASSUME NEW run, MadeJob(k, p, group, run) PROVE <1>5
    <3>1. Growing
      BY <1>0, <2>2, MadeGrowing
    <3>2. k = Len(made) + 1 /\ Len(made') = k /\ jobs'[k].owner = p /\ Len(made) \in Nat
      BY <1>0, <2>2 DEF MadeJob, CTyped
    <3> QED
      BY <3>1, <3>2
  <2> QED
    BY <2>1, <2>2
<1>6. RefInv'
  <2>1. \A m \in DOMAIN ctl'.seen : \/ m \in DOMAIN ctl.seen /\ ctl'.seen[m] = ctl.seen[m]
                                    \/ FineNext(m, ctl'.seen[m].status.drives)
    BY <1>2
  <2>2. ctl'.pc = "put" => \/ ctl.pc = "put" /\ ctl'.cur = ctl.cur /\ ctl'.patch = ctl.patch
                           \/ FineNext(ctl'.cur, ctl'.patch.st.drives) /\ ctl'.patch.st.job <= Len(made')
    BY <1>2
  <2>3. FineNext(p, ctl'.recs)
    <3> SUFFICES ASSUME NEW d \in Drives, ctl'.recs[d] # None
                 PROVE  /\ ctl'.recs[d].job \in 0..Len(made')
                        /\ ctl'.recs[d].job # 0 => jobs'[ctl'.recs[d].job].owner \in {p, None}
      BY DEF FineNext
    <3>1. CASE d \in group
      BY <1>2, <1>5, <3>1
    <3>2. CASE d \notin group
      <4>1. ctl'.recs[d] = ctl.recs[d]
        BY <1>2, <3>2
      <4>2. PICK y : y = ctl.recs
        OBVIOUS
      <4>3. RefsFine(p, y)
        BY <1>0, <4>2 DEF RefInv
      <4>4. FineNext(p, y)
        BY <1>0, <1>5, <4>3, RefsStay DEF Growing
      <4> QED
        BY <4>1, <4>2, <4>4 DEF FineNext
    <3> QED
      BY <3>1, <3>2
  <2>4. ctl'.pc = "submit" => \/ ctl.pc = "submit" /\ ctl'.cur = ctl.cur /\ ctl'.recs = ctl.recs
                              \/ FineNext(ctl'.cur, ctl'.recs)
    BY <1>2, <2>3
  <2>5. \A m \in Names : told'[m] # None => \/ told'[m] = told[m]
                                            \/ FineNext(m, told'[m][1].drives) /\ told'[m][1].job <= Len(made')
    OBVIOUS
  <2>6. \A m \in Names : objs'[m] # None => \/ objs[m] # None /\ objs'[m].status = objs[m].status
                                            \/ FineNext(m, objs'[m].status.drives)
    OBVIOUS
  <2> QED
    BY <1>0, <1>5, <2>1, <2>2, <2>4, <2>5, <2>6, RefsKept
<1>7. ASSUME made' = made, jobs' = jobs, k = 0 PROVE IInv'
  <2>1. SameMade /\ JobsGo
    BY <1>0, <1>7, SameIsSame, JobsStay DEF JobsInv
  <2>2. UidsInv'
    BY <1>0, <1>2, <2>1, UidsStay
  <2>3. AnswerInv'
    <3>1. \A i \in MadeOf' : i \in MadeOf /\ made'[i].uid = made[i].uid /\ made'[i].gen = made[i].gen
      BY <1>7 DEF MadeOf
    <3> QED
      BY <1>0, <1>1, <1>2, <3>1, AnswerAtPolicies
  <2>4. JobsInv'
    BY <1>0, <2>1, JobsKeepGoing
  <2>5. LiveInv'
    <3>1. NoNewRefs
      BY <1>3, <1>7, ConstantsHold DEF NoNewRefs, Jobs
    <3> QED
      BY <1>0, <1>2, <2>1, <3>1, LiveGoes
  <2>6. OpRunsOnce' /\ RetryAfterEdit'
    BY <1>0, <2>1, JobsOwned, OnceStays, EditStays DEF OwnersStay
  <2> QED
    BY <1>4, <1>6, <2>2, <2>3, <2>4, <2>5, <2>6 DEF IInv
<1>8. ASSUME NEW run, MadeJob(k, p, group, run), run \subseteq group PROVE IInv'
  <2>0. run \subseteq Drives /\ p \in ctl.todo \cup {None} /\ p \in Names \cup {None}
    BY <1>1, <1>2, <1>8
  <2>1. MadeOf' = MadeOf \cup {k} /\ \A i \in MadeOf : made'[i] = made[i]
    BY <1>0, <1>8, MadeOldHold
  <2>2. UidsInv'
    BY <1>0, <1>2, <1>8, <2>0, UidsMade
  <2>3. AnswerInv'
    <3>1. \A o \in Ops : objs[o] # None => made'[k].uid # objs[o].uid
      BY <1>0, <1>1, <1>8, <2>0, MadeForOthers
    <3>2. \A i \in MadeOf' : \/ i \in MadeOf /\ made'[i].uid = made[i].uid /\ made'[i].gen = made[i].gen
                             \/ \A o \in Ops : objs[o] # None => made'[i].uid # objs[o].uid
      BY <2>1, <3>1
    <3> QED
      BY <1>0, <1>1, <1>2, <3>2, AnswerAtPolicies
  <2>4. JobsInv'
    BY <1>0, <1>8, <2>0, JobsMade
  <2>5. LiveInv'
    <3>1. \A d \in run : \A j \in Jobs : jobs[j].owner = p /\ Live(j, d) => Lost(j, d)
      BY <1>0, <1>2, <1>8 DEF LiveInv, RunFree
    <3>2. Apart'
      BY <1>0, <1>3, <1>8, <2>0, <3>1, ApartMade DEF LiveInv
    <3>3. ctl'.run \cap run = {} /\ ctl'.run \subseteq ctl.run
      BY <1>2, <1>8
    <3>4. RunFree'
      BY <1>0, <1>2, <1>3, <1>8, <2>0, <3>3, RunFreeMade DEF LiveInv
    <3> QED
      BY <3>2, <3>4 DEF LiveInv
  <2>6. OpRunsOnce'
    BY <1>0, <1>1, <1>8, <2>0, OnceMade
  <2>7. RetryAfterEdit'
    <3>1. Troubled \/ \A i \in MadeOf : \A d \in run : Holding(i, d) => ~Match(ctl.seen[p], i)
      BY <1>0, <1>2, <1>8 DEF RetryInv, NotAgain
    <3> QED
      BY <1>0, <1>8, <2>0, <3>1, EditMade
  <2> QED
    BY <1>4, <1>6, <2>2, <2>3, <2>4, <2>5, <2>6, <2>7 DEF IInv
<1> QED
  BY <1>7, <1>8
\* A job asked for with the REST API.
LEMMA OtherKeeps ==
  ASSUME IInv, CTyped', Troubled => Troubled', UNCHANGED <<objs, ctl, told, uid>>,
         NEW ds, NEW run \in SUBSET Drives, NEW k, MadeJob(k, None, ds, run)
  PROVE  IInv'
<1>0. CTyped /\ UidsInv /\ AnswerInv /\ JobsInv /\ RefInv /\ LiveInv /\ RetryInv /\ OpRunsOnce /\ RetryAfterEdit
  BY DEF IInv
<1>1. /\ None \in ctl.todo \cup {None} /\ None \in Names \cup {None} /\ None \notin Ops /\ None \notin Policies
      /\ \A p \in Policies : p # None
  BY ConstantsHold DEF Names
<1>2. \A j \in Jobs : Ref(j)' => Ref(j)
  BY RefsAtRest DEF NoNewRefs
<1>3. Growing
  BY <1>0, MadeGrowing
<1>4. RefInv'
  <2>1. \A n \in Names : objs'[n] # None => \/ objs[n] # None /\ objs'[n].status = objs[n].status
                                            \/ FineNext(n, objs'[n].status.drives)
    OBVIOUS
  <2> QED
    BY <1>0, <1>3, <2>1, RefsInPlace
<1>5. UidsInv'
  BY <1>0, <1>1, UidsMade
<1>6. AnswerInv'
  BY <1>0, <1>1, AnswerMadeForOthers
<1>7. JobsInv'
  BY <1>0, JobsMade
<1>8. LiveInv'
  <2>1. Apart'
    BY <1>0, <1>1, <1>2, ApartMade DEF LiveInv
  <2>2. ctl'.pc = "submit" => /\ ctl.pc = "submit" /\ ctl'.cur = ctl.cur /\ ctl'.run \subseteq ctl.run
                              /\ None # ctl.cur \/ ctl'.run \cap run = {}
    BY <1>0, <1>1 DEF CTyped, CtlIs, Placed
  <2>3. RunFree'
    BY <1>0, <1>1, <1>2, <2>2, RunFreeMade DEF LiveInv
  <2> QED
    BY <2>1, <2>3 DEF LiveInv
<1>9. RetryInv'
  BY <1>0, <1>1, RetryMadeForOthers
<1>10. OpRunsOnce' /\ RetryAfterEdit'
  BY <1>0, <1>1, OnceMade, EditMade
<1> QED
  BY <1>4, <1>5, <1>6, <1>7, <1>8, <1>9, <1>10 DEF IInv

\* A new operation's job is made, and its status said.
LEMMA NewJobKeeps ==
  ASSUME IInv, CTyped', Troubled => Troubled', UNCHANGED <<objs, told, uid>>, NEW n \in ctl.todo \cap Ops, ctl.pc = "ops",
         ~Answered(n), NEW ds, NEW run \in SUBSET Drives, NEW k, MadeJob(k, n, ds, run),
         NEW st \in Statuses, Say(n, st, All), Final(st), st.observed = ctl.seen[n].gen, st.job = k,
         st.drives = NoStatus.drives
  PROVE  IInv'
<1>0. CTyped /\ UidsInv /\ AnswerInv /\ JobsInv /\ RefInv /\ LiveInv /\ RetryInv /\ OpRunsOnce /\ RetryAfterEdit
  BY DEF IInv
<1>1. /\ n \in ctl.todo \cup {None} /\ n \in Names \cup {None} /\ n \notin Policies /\ n # None /\ n \in Names
      /\ ctl.cur = None /\ DOMAIN ctl.seen \subseteq Ops /\ ctl.todo \subseteq DOMAIN ctl.seen
      /\ "phase" \in All /\ "observed" \in All
  BY <1>0, ConstantsHold DEF Names, CTyped, CtlIs, Placed, All
<1>2. k = Len(made) + 1 /\ Len(made') = k /\ Len(made) \in Nat
  BY <1>0 DEF CTyped, MadeJob
<1>3. AboutToPut(n, st, All)
  <2>1. told[n] # <<st, All>>
    <3> SUFFICES ASSUME told[n] = <<st, All>> PROVE FALSE
      OBVIOUS
    <3>1. <<st, All>> \in Statuses \X SUBSET All
      OBVIOUS
    <3>2. told[n] # None /\ told[n][1] = st
      BY <3>1, NoneAssumption
    <3>3. st.job <= Len(made)
      BY <1>0, <1>1, <3>2 DEF RefInv
    <3> QED
      BY <1>2, <3>3
  <2> QED
    BY <1>0, <2>1, SayIs DEF CTyped
<1>4. ctl'.pc = "put" /\ ctl'.seen = ctl.seen /\ ctl'.todo = ctl.todo /\ ctl'.cur = n /\ ctl'.patch.st = st
  BY <1>3 DEF AboutToPut
<1>5. NoNewRefs
  <2>1. \A j \in Jobs : ~RefIn(st.drives, j)
    BY NoRefs
  <2> QED
    BY <1>3, <2>1, RefsToPut
<1>6. Growing
  BY <1>0, MadeGrowing
<1>7. RefInv'
  <2>1. \A m \in DOMAIN ctl'.seen : \/ m \in DOMAIN ctl.seen /\ ctl'.seen[m] = ctl.seen[m]
                                    \/ FineNext(m, ctl'.seen[m].status.drives)
    BY <1>4
  <2>2. FineNext(ctl'.cur, ctl'.patch.st.drives) /\ ctl'.patch.st.job <= Len(made')
    <3>1. ctl'.patch.st.drives = NoStatus.drives /\ ctl'.patch.st.job = Len(made')
      BY <1>2, <1>4
    <3>2. \A d \in Drives : ctl'.patch.st.drives[d] = None
      BY <3>1, NoStatusIs
    <3> QED
      BY <1>2, <3>1, <3>2 DEF FineNext
  <2>3. ctl'.pc = "put" => \/ ctl.pc = "put" /\ ctl'.cur = ctl.cur /\ ctl'.patch = ctl.patch
                           \/ FineNext(ctl'.cur, ctl'.patch.st.drives) /\ ctl'.patch.st.job <= Len(made')
    BY <2>2
  <2>4. ctl'.pc = "submit" => \/ ctl.pc = "submit" /\ ctl'.cur = ctl.cur /\ ctl'.recs = ctl.recs
                              \/ FineNext(ctl'.cur, ctl'.recs)
    BY <1>4
  <2>5. \A m \in Names : told'[m] # None => \/ told'[m] = told[m]
                                            \/ FineNext(m, told'[m][1].drives) /\ told'[m][1].job <= Len(made')
    OBVIOUS
  <2>6. \A m \in Names : objs'[m] # None => \/ objs[m] # None /\ objs'[m].status = objs[m].status
                                            \/ FineNext(m, objs'[m].status.drives)
    OBVIOUS
  <2> QED
    BY <1>0, <1>6, <2>1, <2>3, <2>4, <2>5, <2>6, RefsKept
<1>8. UidsInv'
  BY <1>0, <1>1, <1>4, UidsMade
<1>9. AnswerInv'
  BY <1>0, <1>1, <1>3, AnswerMade
<1>10. JobsInv'
  BY <1>0, JobsMade
<1>11. LiveInv'
  <2>1. \A j \in Jobs : j # k /\ Ref(j)' => Ref(j)
    BY <1>5 DEF NoNewRefs
  <2>2. Apart'
    BY <1>0, <1>1, <2>1, ApartMade DEF LiveInv
  <2>3. RunFree'
    BY <1>4 DEF RunFree
  <2> QED
    BY <2>2, <2>3 DEF LiveInv
<1>12. RetryInv'
  <2>1. MadeOf' = MadeOf \cup {k} /\ (\A i \in MadeOf : made'[i] = made[i]) /\ HoldsLess
    BY <1>0, MadeOldHold
  <2>2. \A p \in Policies : objs[p] # None => made'[k].uid # objs[p].uid
    BY <1>0, <1>1, NotForPolicies
  <2> QED
    BY <1>0, <1>1, <1>4, <2>1, <2>2, RetryAtOps
<1>13. OpRunsOnce'
  <2>1. Troubled \/ \A i \in MadeOf : ~Match(ctl.seen[n], i)
    <3> SUFFICES ASSUME ~Troubled, NEW i \in MadeOf, Match(ctl.seen[n], i) PROVE FALSE
      OBVIOUS
    <3>1. n \in Ahead \cap Ops
      BY <1>1 DEF Ahead
    <3>2. Said(ctl.seen[n], i)
      BY <1>0, <3>1 DEF AnswerInv, AnsweredSeen
    <3> QED
      BY <3>2 DEF Said, Final, Answered, Match
  <2> QED
    BY <1>0, <1>1, <2>1, OnceMade
<1>14. RetryAfterEdit'
  BY <1>0, <1>1, EditMade
<1> QED
  BY <1>7, <1>8, <1>9, <1>10, <1>11, <1>12, <1>13, <1>14 DEF IInv

-----------------------------------------------------------------------------
(* The worker's steps, the drives and the requester.                         *)
\* A step's trouble.
LEMMA Spending ==
  ASSUME CTyped, (\E k \in Trouble : Spend(k)) \/ spent' = spent
  PROVE  SpentMore /\ (Troubled => Troubled')
<1>1. spent \in [Trouble -> Nat]
  BY DEF CTyped
<1>2. SpentMore
  BY <1>1, SpendIs DEF SpentMore
<1> QED
  BY <1>1, <1>2, TroubleStays

\* What a step leaves alone stays typed: the pass,
LEMMA CtlStands == ASSUME CTyped, ctl' = ctl, uid' = uid PROVE CtlIs(ctl)' /\ Placed(ctl)'
BY DEF CTyped, CtlIs, Placed, ObjectIs

\* ... the objects,
LEMMA ObjsStand ==
  ASSUME CTyped, objs' = objs, uid' = uid
  PROVE  DOMAIN objs' = Names /\ \A n \in Names : objs'[n] # None => ObjectIs(objs[n])'
BY DEF CTyped, ObjectIs

\* ... the jobs made.
LEMMA MadeStands == ASSUME CTyped, made' = made PROVE made' \in Seq(MadeSet) /\ Len(made') <= MaxJobs
BY DEF CTyped

\* A new job is typed.
LEMMA MadeTyped == ASSUME CTyped, NEW n, NEW ds, NEW run, NEW k, MadeJob(k, n, ds, run)
                   PROVE  made' \in Seq(MadeSet) /\ Len(made') <= MaxJobs /\ jobs' \in [Jobs -> JobSet]
<1>1. k \in Jobs /\ made' \in Seq(MadeSet) /\ Len(made') = k /\ jobs' \in [Jobs -> JobSet]
  BY DEF MadeJob
<1> QED
  BY <1>1, ConstantsHold DEF Jobs

\* A step of the worker is typed.
LEMMA WorkTyped ==
  ASSUME CTyped, UNCHANGED <<objs, ctl, told, uid, limit>>, allowed' \in BOOLEAN, probed' \subseteq probed, SpentMore,
         jobs' \in [Jobs -> JobSet], rec' \in [Drives -> Drive], made' \in Seq(MadeSet), Len(made') <= MaxJobs
  PROVE  CTyped'
<1>1. CtlIs(ctl)' /\ Placed(ctl)'
  BY CtlStands
<1>2. DOMAIN objs' = Names /\ \A n \in Names : objs'[n] # None => ObjectIs(objs[n])'
  BY ObjsStand
<1>3. told' \in [Names -> (Statuses \X SUBSET All) \cup {None}] /\ uid' \in 0..MaxUid /\ limit' \in [Trouble -> Nat]
      /\ probed' \subseteq Policies \X Drives
  BY DEF CTyped
<1>4. spent' \in [Trouble -> Nat]
  BY DEF SpentMore
<1> QED
  BY <1>1, <1>2, <1>3, <1>4 DEF CTyped

\* A drive's work starts.
LEMMA StartKeeps == ASSUME IInv, NEW j \in Jobs, NEW d \in Drives, Start(j, d) PROVE IInv'
<1>1. CTyped /\ KeptJobs
  BY DEF IInv, JobsInv
<1>2. SpentMore /\ (Troubled => Troubled')
  BY <1>1, Spending DEF Start
<1>3. JobsGo /\ jobs' \in [Jobs -> JobSet]
  <2>1. jobs[j].dj[d] \in {"queued", "running"}
    BY DEF Start
  <2>2. PICK js : js = [jobs EXCEPT ![j].dj[d] = "running"]
    OBVIOUS
  <2>3. jobs' = js
    BY <2>2 DEF Start
  <2> QED
    BY <1>1, <2>1, <2>2, <2>3, StepGoes
<1>4. UNCHANGED <<objs, allowed, rec, ctl, told, probed, made, uid, limit>>
  BY DEF Start
<1>5. CTyped'
  BY <1>1, <1>2, <1>3, <1>4, MadeStands, WorkTyped DEF CTyped
<1> QED
  BY <1>2, <1>3, <1>4, <1>5, SameIsSame, WorkKeeps

\* The guard looks again, and the drive is the fleet's by now.
LEMMA TooLateKeeps == ASSUME IInv, NEW j \in Jobs, NEW d \in Drives, TooLate(j, d) PROVE IInv'
<1>1. CTyped /\ KeptJobs
  BY DEF IInv, JobsInv
<1>2. SpentMore /\ (Troubled => Troubled')
  BY <1>1, Spending DEF TooLate
<1>3. JobsGo /\ jobs' \in [Jobs -> JobSet]
  <2>1. jobs[j].dj[d] \in {"queued", "running"}
    BY DEF TooLate
  <2>2. PICK js : js = [jobs EXCEPT ![j].dj[d] = "failed"]
    OBVIOUS
  <2>3. jobs' = Saved(js)
    BY <2>2 DEF TooLate
  <2> QED
    BY <1>1, <2>1, <2>2, <2>3, StepGoes
<1>4. UNCHANGED <<objs, allowed, rec, ctl, told, probed, made, uid, limit>>
  BY DEF TooLate
<1>5. CTyped'
  BY <1>1, <1>2, <1>3, <1>4, MadeStands, WorkTyped DEF CTyped
<1> QED
  BY <1>2, <1>3, <1>4, <1>5, SameIsSame, WorkKeeps

\* A drive's work fails.
LEMMA EndsBadlyKeeps == ASSUME IInv, NEW j \in Jobs, NEW d \in Drives, EndsBadly(j, d) PROVE IInv'
<1>1. CTyped /\ KeptJobs
  BY DEF IInv, JobsInv
<1>2. SpentMore /\ (Troubled => Troubled')
  BY <1>1, Spending DEF EndsBadly, Trouble
<1>3. JobsGo /\ jobs' \in [Jobs -> JobSet]
  <2>1. jobs[j].dj[d] \in {"queued", "running"}
    BY DEF EndsBadly
  <2>2. PICK js : js = [jobs EXCEPT ![j].dj[d] = "failed"]
    OBVIOUS
  <2>3. jobs' = Saved(js)
    BY <2>2 DEF EndsBadly
  <2> QED
    BY <1>1, <2>1, <2>2, <2>3, StepGoes
<1>4. UNCHANGED <<objs, allowed, rec, ctl, told, probed, made, uid, limit>>
  BY DEF EndsBadly
<1>5. CTyped'
  BY <1>1, <1>2, <1>3, <1>4, MadeStands, WorkTyped DEF CTyped
<1> QED
  BY <1>2, <1>3, <1>4, <1>5, SameIsSame, WorkKeeps

\* A drive's work is interrupted.
LEMMA InterruptedKeeps == ASSUME IInv, NEW j \in Jobs, NEW d \in Drives, Interrupted(j, d) PROVE IInv'
<1>1. CTyped /\ KeptJobs
  BY DEF IInv, JobsInv
<1>2. SpentMore /\ (Troubled => Troubled')
  BY <1>1, Spending DEF Interrupted, Trouble
<1>3. JobsGo /\ jobs' \in [Jobs -> JobSet]
  <2>1. jobs[j].dj[d] \in {"queued", "running"} /\ ~jobs[j].cancel
    BY DEF Interrupted
  <2>2. PICK js : js = [jobs EXCEPT ![j].dj[d] = "interrupted"]
    OBVIOUS
  <2>3. jobs' = Saved(js)
    BY <2>2 DEF Interrupted
  <2> QED
    BY <1>1, <2>1, <2>2, <2>3, StepGoes
<1>4. UNCHANGED <<objs, allowed, rec, ctl, told, probed, made, uid, limit>>
  BY DEF Interrupted
<1>5. CTyped'
  BY <1>1, <1>2, <1>3, <1>4, MadeStands, WorkTyped DEF CTyped
<1> QED
  BY <1>2, <1>3, <1>4, <1>5, SameIsSame, WorkKeeps

\* A drive's work is done.
LEMMA EndsWellKeeps == ASSUME IInv, NEW j \in Jobs, NEW d \in Drives, EndsWell(j, d) PROVE IInv'
<1>1. CTyped /\ KeptJobs
  BY DEF IInv, JobsInv
<1>2. SpentMore /\ (Troubled => Troubled')
  BY <1>1, Spending DEF EndsWell
<1>3. j \in DOMAIN made /\ jobs[j].dj[d] \in {"queued", "running"}
  BY <1>1, ActiveKept DEF EndsWell, KeptJobs, MadeOf
<1>4. SameMade /\ made' \in Seq(MadeSet) /\ Len(made') <= MaxJobs /\ d \notin made'[j].drives
  <2>1. made \in Seq(MadeSet) /\ DOMAIN made = 1..Len(made) /\ Len(made) <= MaxJobs /\ Len(made) \in Nat
    BY <1>1 DEF CTyped
  <2>2. made[j] \in MadeSet
    BY <1>3, <2>1
  <2>3. made[j] = [uid |-> made[j].uid, gen |-> made[j].gen, drives |-> made[j].drives]
        /\ made[j].uid \in Nat /\ made[j].gen \in Nat /\ made[j].drives \subseteq Drives
    BY <2>2 DEF MadeSet
  <2> DEFINE m == [made[j] EXCEPT !.drives = made[j].drives \ {d}]
  <2>4. m = [uid |-> made[j].uid, gen |-> made[j].gen, drives |-> made[j].drives \ {d}]
    BY <2>3
  <2>5. m \in MadeSet /\ m.uid = made[j].uid /\ m.gen = made[j].gen /\ m.drives = made[j].drives \ {d}
    BY <2>3, <2>4 DEF MadeSet
  <2>6. made' = [made EXCEPT ![j] = m]
    BY DEF EndsWell
  <2> HIDE DEF m
  <2>7. made' \in Seq(MadeSet) /\ Len(made') = Len(made) /\ DOMAIN made' = DOMAIN made
        /\ made'[j] = m /\ \A i \in DOMAIN made : i # j => made'[i] = made[i]
    BY <1>3, <2>1, <2>5, <2>6
  <2> QED
    BY <2>1, <2>5, <2>7 DEF SameMade
<1>5. JobsGo /\ jobs' \in [Jobs -> JobSet]
  <2>1. PICK js : js = [jobs EXCEPT ![j].dj[d] = "done"]
    OBVIOUS
  <2>2. jobs' = Saved(js)
    BY <2>1 DEF EndsWell
  <2> QED
    BY <1>1, <1>3, <1>4, <2>1, <2>2, StepGoes
<1>6. UNCHANGED <<objs, allowed, ctl, told, probed, uid, limit>>
  BY DEF EndsWell
<1>7. rec' \in [Drives -> Drive]
  <2>1. rec \in [Drives -> Drive] /\ rec[d] \in Drive
    BY <1>1 DEF CTyped
  <2>2. PICK b \in BOOLEAN : rec' = [rec EXCEPT ![d].fleet = b, ![d].odd = FALSE]
    BY DEF EndsWell
  <2> DEFINE r == [rec[d] EXCEPT !.fleet = b, !.odd = FALSE]
  <2>3. rec' = [rec EXCEPT ![d] = r]
    BY <2>1, <2>2
  <2>4. r \in Drive
    BY <2>1 DEF Drive
  <2> HIDE DEF r
  <2> QED
    BY <2>1, <2>3, <2>4
<1>8. CTyped'
  BY <1>1, <1>2, <1>4, <1>5, <1>6, <1>7, WorkTyped DEF CTyped
<1> QED
  BY <1>2, <1>4, <1>5, <1>6, <1>8, WorkKeeps

\* A job of the REST API.
LEMMA OtherJobKeeps == ASSUME IInv, NEW d \in Drives, OtherJob(d) PROVE IInv'
<1>1. CTyped
  BY DEF IInv
<1>2. SpentMore /\ (Troubled => Troubled')
  BY <1>1, Spending DEF OtherJob, Trouble
<1>3. UNCHANGED <<objs, allowed, rec, ctl, told, probed, uid, limit>>
  BY DEF OtherJob
<1>4. MadeJob(Len(made) + 1, None, {d}, {d})
  <2>1. Make(None, {d}, {d}) /\ None \in Names \cup {None}
    BY DEF OtherJob
  <2> QED
    BY <1>1, <2>1, MakeIs
<1>5. CTyped'
  <2>1. made' \in Seq(MadeSet) /\ Len(made') <= MaxJobs /\ jobs' \in [Jobs -> JobSet]
    BY <1>1, <1>4, MadeTyped
  <2> QED
    BY <1>1, <1>2, <1>3, <2>1, WorkTyped DEF CTyped
<1> QED
  BY <1>2, <1>3, <1>4, <1>5, OtherKeeps

\* A step that leaves jobs, objects and pass alone.
LEMMA StillKeeps ==
  ASSUME IInv, UNCHANGED <<objs, ctl, told, uid, limit, jobs, made>>, allowed' \in BOOLEAN, rec' \in [Drives -> Drive],
         probed' \subseteq probed, (\E k \in Trouble : Spend(k)) \/ spent' = spent
  PROVE  IInv'
<1>1. CTyped /\ KeptJobs
  BY DEF IInv, JobsInv
<1>2. SpentMore /\ (Troubled => Troubled')
  BY <1>1, Spending
<1>3. JobsGo /\ jobs' \in [Jobs -> JobSet]
  BY <1>1, JobsStay
<1>4. CTyped'
  BY <1>1, <1>2, <1>3, MadeStands, WorkTyped
<1> QED
  BY <1>2, <1>3, <1>4, SameIsSame, WorkKeeps

\* A drive's record changes.
LEMMA RecordKeeps == ASSUME IInv, NEW d \in Drives, RecordChanges(d) PROVE IInv'
<1>1. rec \in [Drives -> Drive] /\ allowed \in BOOLEAN /\ DriveRecords \subseteq Drive
  BY ControllerAssumption DEF IInv, CTyped
<1>2. rec' \in [Drives -> Drive]
  BY <1>1 DEF RecordChanges
<1>3. \E k \in Trouble : Spend(k)
  BY DEF RecordChanges, Trouble
<1> QED
  BY <1>1, <1>2, <1>3, StillKeeps DEF RecordChanges

\* A skipped drive is looked at again.
LEMMA LookKeeps == ASSUME IInv, NEW p \in Policies, NEW d \in Drives, LookAgain(p, d) PROVE IInv'
<1>1. rec \in [Drives -> Drive] /\ allowed \in BOOLEAN
  BY DEF IInv, CTyped
<1> QED
  BY <1>1, StillKeeps DEF LookAgain

\* The requester's right is withdrawn or given back.
LEMMA RevokeKeeps == ASSUME IInv, Revoke PROVE IInv'
<1>1. rec \in [Drives -> Drive] /\ allowed \in BOOLEAN
  BY DEF IInv, CTyped
<1>2. (\E k \in Trouble : Spend(k)) /\ allowed' \in BOOLEAN
  BY <1>1 DEF Revoke, Trouble
<1> QED
  BY <1>1, <1>2, StillKeeps DEF Revoke

\* The users' objects.
LEMMA ObjectFields ==
  ASSUME NEW o, ObjectIs(o)
  PROVE  o = [uid |-> o.uid, gen |-> o.gen, spec |-> o.spec, resume |-> o.resume, stamped |-> o.stamped,
              deleting |-> o.deleting, status |-> o.status]
         /\ o.uid \in 1..uid /\ o.gen \in 1..MaxGen /\ o.resume \in Nat /\ o.status \in Statuses
BY DEF ObjectIs

\* An object is typed whatever uids are given later.
LEMMA ObjectKept ==
  ASSUME NEW o, ObjectIs(o)
  PROVE  o.spec \in OpSpecs \cup PolicySpecs /\ o.stamped \in BOOLEAN /\ o.deleting \in BOOLEAN
BY DEF ObjectIs, ObjectRecords

\* Its fields make it one.
LEMMA RecordMade ==
  ASSUME NEW u \in 1..MaxUid, NEW g \in 1..MaxGen, NEW s \in OpSpecs \cup PolicySpecs, NEW r \in Nat,
         NEW a \in BOOLEAN, NEW e \in BOOLEAN, NEW st \in Statuses
  PROVE  [uid |-> u, gen |-> g, spec |-> s, resume |-> r, stamped |-> a, deleting |-> e, status |-> st] \in ObjectRecords
BY DEF ObjectRecords

\* A changed object is an object.
LEMMA ObjectMade ==
  ASSUME NEW u \in 1..uid, uid \in 0..MaxUid, NEW g \in 1..MaxGen, NEW s \in OpSpecs \cup PolicySpecs, NEW r \in Nat,
         NEW a \in BOOLEAN, NEW e \in BOOLEAN, NEW st \in Statuses,
         NEW o, o = [uid |-> u, gen |-> g, spec |-> s, resume |-> r, stamped |-> a, deleting |-> e, status |-> st]
  PROVE  ObjectIs(o) /\ o # None
<1>1. u \in 1..MaxUid
  BY ConstantsHold
<1>2. o \in ObjectRecords
  BY <1>1, RecordMade
<1>3. o = [uid |-> o.uid, gen |-> o.gen, spec |-> o.spec, resume |-> o.resume, stamped |-> o.stamped,
           deleting |-> o.deleting, status |-> o.status]
      /\ o.uid = u /\ o.gen = g /\ o.resume = r /\ o.status = st
  OBVIOUS
<1>4. ObjectIs(o)
  BY <1>2, <1>3 DEF ObjectIs
<1> QED
  BY <1>2, <1>4, NoneAssumption

\* A step of the users is typed.
LEMMA UsersTyped ==
  ASSUME CTyped, UNCHANGED <<ctl, told, limit, jobs, made, allowed, rec, probed>>, uid \in Nat,
         uid' \in 0..MaxUid, uid <= uid', SpentMore, DOMAIN objs' = Names,
         \A n \in Names : objs'[n] # None => objs'[n] = objs[n] \/ ObjectIs(objs[n])'
  PROVE  CTyped'
<1>1. 1..uid \subseteq 1..uid'
  <2>1. uid' \in Nat
    BY ConstantsHold
  <2> QED
    BY <2>1
<1>2. ASSUME NEW o, ObjectIs(o) PROVE ObjectIs(o)'
  BY <1>1, <1>2 DEF ObjectIs
<1>3. \A n \in Names : objs'[n] # None => ObjectIs(objs[n])'
  <2> SUFFICES ASSUME NEW n \in Names, objs'[n] # None, objs'[n] = objs[n] PROVE ObjectIs(objs[n])'
    OBVIOUS
  <2>1. PICK o : o = objs[n]
    OBVIOUS
  <2>2. ObjectIs(o)
    BY <2>1 DEF CTyped
  <2>3. ObjectIs(o)'
    BY <1>2, <2>2
  <2> QED
    BY <2>1, <2>3 DEF ObjectIs
<1>4. \A n \in DOMAIN ctl.seen : ObjectIs(ctl.seen[n])'
  <2> TAKE n \in DOMAIN ctl.seen
  <2>1. PICK o : o = ctl.seen[n]
    OBVIOUS
  <2>2. ObjectIs(o)
    BY <2>1 DEF CTyped, CtlIs
  <2>3. ObjectIs(o)'
    BY <1>2, <2>2
  <2> QED
    BY <2>1, <2>3 DEF ObjectIs
<1>5. CtlIs(ctl)' /\ Placed(ctl)'
  BY <1>4 DEF CTyped, CtlIs, Placed
<1>6. spent' \in [Trouble -> Nat]
  BY DEF SpentMore
<1> QED
  BY <1>3, <1>5, <1>6 DEF CTyped

\* A user creates an object.
LEMMA CreateKeeps ==
  ASSUME IInv, NEW n \in Names, NEW spec \in OpSpecs \cup PolicySpecs,
         NEW stamped \in BOOLEAN, Create(n, spec, stamped)
  PROVE  IInv'
<1>1. CTyped
  BY DEF IInv
<1>2. SpentMore /\ (Troubled => Troubled')
  BY <1>1, Spending DEF Create, Trouble
<1>3. /\ UNCHANGED <<allowed, jobs, rec, ctl, told, probed, made, limit>> /\ objs[n] = None /\ uid' = uid + 1
      /\ objs' = [objs EXCEPT ![n] = Object(uid + 1, spec, stamped)] /\ uid < MaxUid
  BY DEF Create
<1>4. uid \in Nat /\ uid' \in 0..MaxUid /\ uid <= uid' /\ uid' \in 1..uid'
  BY <1>1, <1>3, ConstantsHold DEF CTyped
<1> DEFINE o == [uid |-> uid', gen |-> 1, spec |-> spec, resume |-> 0, stamped |-> stamped, deleting |-> FALSE, status |-> NoStatus]
<1>5. 1 \in 1..MaxGen /\ 0 \in Nat /\ NoStatus \in Statuses
  BY ConstantsHold, NoStatusTyped
<1>6. o = Object(uid + 1, spec, stamped)
  BY <1>3 DEF Object
<1>7. o.uid = uid' /\ o.status = NoStatus /\ o.gen = 1 /\ o.resume = 0
      /\ o = [uid |-> o.uid, gen |-> o.gen, spec |-> o.spec, resume |-> o.resume, stamped |-> o.stamped,
              deleting |-> o.deleting, status |-> o.status]
  OBVIOUS
<1> HIDE DEF o
<1>8. objs' = [objs EXCEPT ![n] = o] /\ DOMAIN objs = Names
  BY <1>1, <1>3, <1>6 DEF CTyped
<1>9. DOMAIN objs' = Names /\ objs'[n] = o /\ \A m \in Names : m # n => objs'[m] = objs[m]
  BY <1>8
<1>10. ObjectIs(objs[n])' /\ o # None
  <2>1. 1..uid' \subseteq 1..MaxUid
    BY <1>4, ConstantsHold
  <2>2. o \in ObjectRecords
    <3>1. uid' \in 1..MaxUid /\ FALSE \in BOOLEAN
      BY <1>4, <2>1
    <3> QED
      BY <1>5, <3>1, RecordMade DEF o
  <2>3. objs'[n].uid \in 1..uid' /\ objs'[n].gen \in 1..MaxGen /\ objs'[n].resume \in Nat /\ objs'[n].status \in Statuses
    BY <1>4, <1>5, <1>7, <1>9
  <2> QED
    BY <1>7, <1>9, <2>2, <2>3, NoneAssumption DEF ObjectIs
<1>11. CTyped'
  BY <1>1, <1>2, <1>3, <1>4, <1>9, <1>10, UsersTyped
<1>12. objs'[n] # None
  BY <1>9, <1>10
<1>13. Created(n)
  BY <1>3, <1>7, <1>9, <1>12 DEF Created
<1> QED
  BY <1>2, <1>3, <1>11, <1>13, CreatedKeeps
\* An object there is, with its spec, generation or mark changed.
LEMMA ChangeKeeps ==
  ASSUME IInv, NEW n \in Names, objs[n] # None, (\E k \in Trouble : Spend(k)) \/ spent' = spent,
         UNCHANGED <<allowed, jobs, rec, ctl, told, probed, made, uid, limit>>,
         NEW g \in 1..MaxGen, NEW s \in OpSpecs \cup PolicySpecs, NEW r \in Nat, NEW e \in BOOLEAN, g = objs[n].gen \/ g = objs[n].gen + 1,
         NEW o, o = None \/ o = [uid |-> objs[n].uid, gen |-> g, spec |-> s, resume |-> r, stamped |-> objs[n].stamped,
                                 deleting |-> e, status |-> objs[n].status],
         objs' = [objs EXCEPT ![n] = o]
  PROVE  IInv'
<1>1. CTyped
  BY DEF IInv
<1>2. SpentMore /\ (Troubled => Troubled')
  BY <1>1, Spending
<1>3. DOMAIN objs' = Names /\ objs'[n] = o /\ \A m \in Names : m # n => objs'[m] = objs[m]
  BY <1>1 DEF CTyped
<1>4. uid \in Nat /\ uid' \in 0..MaxUid /\ uid <= uid'
  BY <1>1, ConstantsHold DEF CTyped
<1>5. objs[n].uid \in 1..uid /\ objs[n].status \in Statuses
  BY <1>1, ObjectFields DEF CTyped
<1>6. objs'[n] # None => ObjectIs(objs[n])'
  <2> SUFFICES ASSUME objs'[n] # None PROVE ObjectIs(objs[n])'
    OBVIOUS
  <2>1. o # None
    BY <1>3
  <2>2. objs[n].stamped \in BOOLEAN /\ uid \in 0..MaxUid
    BY <1>1, ObjectKept DEF CTyped
  <2>3. ObjectIs(o)
    BY <1>5, <2>1, <2>2, ObjectMade
  <2> QED
    BY <1>3, <2>3 DEF ObjectIs
<1>7. CTyped'
  BY <1>1, <1>2, <1>3, <1>4, <1>6, UsersTyped
<1>8. \A m \in Names : Turned(objs'[m], objs[m])
  <2> SUFFICES ASSUME NEW m \in Names PROVE Turned(objs'[m], objs[m])
    OBVIOUS
  <2>1. CASE m # n
    BY <1>3, <2>1 DEF Turned
  <2>2. CASE m = n
    <3>1. CASE o = None
      BY <1>3, <2>2, <3>1 DEF Turned
    <3>2. CASE o # None
      BY <1>3, <2>2, <3>2 DEF Turned
    <3> QED
      BY <3>1, <3>2
  <2> QED
    BY <2>1, <2>2
<1> QED
  BY <1>2, <1>7, <1>8, TurnedKeeps

\* A user deletes one, or a finalizer holds it.
LEMMA DeleteKeeps == ASSUME IInv, NEW n \in Names, Delete(n) PROVE IInv'
<1>1. /\ objs[n] # None /\ (\E k \in Trouble : Spend(k))
      /\ UNCHANGED <<allowed, jobs, rec, ctl, told, probed, made, uid, limit>>
  BY DEF Delete, Trouble
<1>2. ObjectIs(objs[n])
  BY <1>1 DEF IInv, CTyped
<1> DEFINE x == objs[n]
<1>3. x = [uid |-> x.uid, gen |-> x.gen, spec |-> x.spec, resume |-> x.resume, stamped |-> x.stamped,
           deleting |-> x.deleting, status |-> x.status] /\ x.gen \in 1..MaxGen /\ x.resume \in Nat
      /\ x.spec \in OpSpecs \cup PolicySpecs /\ x.stamped \in BOOLEAN /\ x.deleting \in BOOLEAN
  BY <1>2, ObjectFields, ObjectKept
<1>4. CASE objs' = [objs EXCEPT ![n] = None]
  <2>1. PICK o : o = None
    OBVIOUS
  <2>2. PICK s, g, r, e : s = x.spec /\ g = x.gen /\ r = x.resume /\ e = x.deleting
    OBVIOUS
  <2>3. s \in OpSpecs \cup PolicySpecs /\ g \in 1..MaxGen /\ r \in Nat /\ e \in BOOLEAN
    BY <1>3, <2>2
  <2>4. (\E k \in Trouble : Spend(k)) \/ spent' = spent
    BY <1>1
  <2>5. g = objs[n].gen \/ g = objs[n].gen + 1
    BY <2>2
  <2>6. o = None \/ o = [uid |-> objs[n].uid, gen |-> g, spec |-> s, resume |-> r, stamped |-> objs[n].stamped,
                        deleting |-> e, status |-> objs[n].status]
    BY <2>1
  <2>7. objs' = [objs EXCEPT ![n] = o]
    BY <1>4, <2>1
  <2> HIDE DEF x
  <2> QED
    BY <1>1, <2>3, <2>4, <2>5, <2>6, <2>7, ChangeKeeps
<1>5. CASE objs' = [objs EXCEPT ![n].deleting = TRUE]
  <2>1. PICK e : e = TRUE
    OBVIOUS
  <2>2. PICK o : o = [x EXCEPT !.deleting = e]
    OBVIOUS
  <2>3. objs' = [objs EXCEPT ![n] = o]
    BY <1>5, <2>1, <2>2
  <2> HIDE DEF x
  <2>4. o = [uid |-> x.uid, gen |-> x.gen, spec |-> x.spec, resume |-> x.resume, stamped |-> x.stamped,
             deleting |-> e, status |-> x.status]
    BY <1>3, <2>2
  <2> USE DEF x
  <2>5. PICK s, g, r : s = x.spec /\ g = x.gen /\ r = x.resume
    OBVIOUS
  <2>6. s \in OpSpecs \cup PolicySpecs /\ g \in 1..MaxGen /\ r \in Nat /\ e \in BOOLEAN
    BY <1>3, <2>1, <2>5
  <2>7. (\E k \in Trouble : Spend(k)) \/ spent' = spent
    BY <1>1
  <2>8. g = objs[n].gen \/ g = objs[n].gen + 1
    BY <2>5
  <2>9. o = None \/ o = [uid |-> objs[n].uid, gen |-> g, spec |-> s, resume |-> r, stamped |-> objs[n].stamped,
                        deleting |-> e, status |-> objs[n].status]
    BY <2>4, <2>5
  <2> HIDE DEF x
  <2> QED
    BY <1>1, <2>3, <2>6, <2>7, <2>8, <2>9, ChangeKeeps
<1> QED
  BY <1>4, <1>5 DEF Delete

\* A user edits a spec.
LEMMA EditKeeps == ASSUME IInv, NEW n \in Names, NEW spec \in OpSpecs \cup PolicySpecs, Edit(n, spec) PROVE IInv'
<1>1. /\ objs[n] # None /\ (\E k \in Trouble : Spend(k)) /\ objs[n].gen < MaxGen
      /\ objs' = [objs EXCEPT ![n].spec = spec, ![n].gen = @ + 1]
      /\ UNCHANGED <<allowed, jobs, rec, ctl, told, probed, made, uid, limit>>
  BY DEF Edit, Trouble
<1>2. ObjectIs(objs[n])
  BY <1>1 DEF IInv, CTyped
<1> DEFINE x == objs[n]
<1>3. x = [uid |-> x.uid, gen |-> x.gen, spec |-> x.spec, resume |-> x.resume, stamped |-> x.stamped,
           deleting |-> x.deleting, status |-> x.status] /\ x.gen \in 1..MaxGen /\ x.resume \in Nat
      /\ x.spec \in OpSpecs \cup PolicySpecs /\ x.stamped \in BOOLEAN /\ x.deleting \in BOOLEAN
  BY <1>2, ObjectFields, ObjectKept
<1>4. PICK g : g = x.gen + 1
  OBVIOUS
<1>5. g \in 1..MaxGen
  BY <1>1, <1>3, <1>4, ConstantsHold
<1>6. PICK o : o = [x EXCEPT !.spec = spec, !.gen = g]
  OBVIOUS
<1>7. objs' = [objs EXCEPT ![n] = o]
  BY <1>1, <1>4, <1>6
<1> HIDE DEF x
<1>8. o = [uid |-> x.uid, gen |-> g, spec |-> spec, resume |-> x.resume, stamped |-> x.stamped,
           deleting |-> x.deleting, status |-> x.status]
  BY <1>3, <1>6
<1> USE DEF x
<1>9. PICK s, r, e : s = spec /\ r = objs[n].resume /\ e = objs[n].deleting
  OBVIOUS
<1>10. /\ o = [uid |-> objs[n].uid, gen |-> g, spec |-> s, resume |-> r, stamped |-> objs[n].stamped,
               deleting |-> e, status |-> objs[n].status]
       /\ g = objs[n].gen + 1 /\ r \in Nat /\ s \in OpSpecs \cup PolicySpecs /\ e \in BOOLEAN
  BY <1>3, <1>4, <1>8, <1>9
<1>11. (\E k \in Trouble : Spend(k)) \/ spent' = spent
  BY <1>1
<1>12. UNCHANGED <<allowed, jobs, rec, ctl, told, probed, made, uid, limit>> /\ objs[n] # None
  BY <1>1
<1>13. g = objs[n].gen \/ g = objs[n].gen + 1
  BY <1>10
<1>14. o = None \/ o = [uid |-> objs[n].uid, gen |-> g, spec |-> s, resume |-> r, stamped |-> objs[n].stamped,
                     deleting |-> e, status |-> objs[n].status]
  BY <1>10
<1> HIDE DEF x
<1> QED
  BY <1>11, <1>12, <1>13, <1>14, <1>5, <1>7, <1>10, ChangeKeeps

\* A user asks for a resume.
LEMMA AskResumeKeeps == ASSUME IInv, NEW n \in Names, AskResume(n) PROVE IInv'
<1>1. /\ objs[n] # None /\ (\E k \in Trouble : Spend(k)) /\ objs[n].gen < MaxGen
      /\ objs' = [objs EXCEPT ![n].resume = @ + 1, ![n].gen = @ + 1]
      /\ UNCHANGED <<allowed, jobs, rec, ctl, told, probed, made, uid, limit>>
  BY DEF AskResume, Trouble
<1>2. ObjectIs(objs[n])
  BY <1>1 DEF IInv, CTyped
<1> DEFINE x == objs[n]
<1>3. x = [uid |-> x.uid, gen |-> x.gen, spec |-> x.spec, resume |-> x.resume, stamped |-> x.stamped,
           deleting |-> x.deleting, status |-> x.status] /\ x.gen \in 1..MaxGen /\ x.resume \in Nat
      /\ x.spec \in OpSpecs \cup PolicySpecs /\ x.stamped \in BOOLEAN /\ x.deleting \in BOOLEAN
  BY <1>2, ObjectFields, ObjectKept
<1>4. PICK g : g = x.gen + 1
  OBVIOUS
<1>5. PICK r : r = x.resume + 1
  OBVIOUS
<1>6. g \in 1..MaxGen /\ r \in Nat
  BY <1>1, <1>3, <1>4, <1>5, ConstantsHold
<1>7. PICK o : o = [x EXCEPT !.resume = r, !.gen = g]
  OBVIOUS
<1>8. objs' = [objs EXCEPT ![n] = o]
  BY <1>1, <1>4, <1>5, <1>7
<1> HIDE DEF x
<1>9. o = [uid |-> x.uid, gen |-> g, spec |-> x.spec, resume |-> r, stamped |-> x.stamped,
           deleting |-> x.deleting, status |-> x.status]
  BY <1>3, <1>7
<1> USE DEF x
<1>10. PICK s, e : s = objs[n].spec /\ e = objs[n].deleting
  OBVIOUS
<1>11. /\ o = [uid |-> objs[n].uid, gen |-> g, spec |-> s, resume |-> r, stamped |-> objs[n].stamped,
               deleting |-> e, status |-> objs[n].status]
       /\ g = objs[n].gen + 1 /\ s \in OpSpecs \cup PolicySpecs /\ e \in BOOLEAN
  BY <1>3, <1>4, <1>9, <1>10
<1>12. (\E k \in Trouble : Spend(k)) \/ spent' = spent
  BY <1>1
<1>13. UNCHANGED <<allowed, jobs, rec, ctl, told, probed, made, uid, limit>> /\ objs[n] # None
  BY <1>1
<1>14. g = objs[n].gen \/ g = objs[n].gen + 1
  BY <1>11
<1>15. o = None \/ o = [uid |-> objs[n].uid, gen |-> g, spec |-> s, resume |-> r, stamped |-> objs[n].stamped,
                     deleting |-> e, status |-> objs[n].status]
  BY <1>11
<1> HIDE DEF x
<1> QED
  BY <1>12, <1>13, <1>14, <1>15, <1>6, <1>8, <1>11, ChangeKeeps

-----------------------------------------------------------------------------
(* The pass: its lists, its end, a restart.                                  *)
\* A step of the pass is typed when the pass and what it writes are.
LEMMA PassTyped ==
  ASSUME CTyped, UNCHANGED <<allowed, rec, uid, limit>>, SpentMore, CtlIs(ctl)', Placed(ctl)',
         DOMAIN objs' = Names, \A n \in Names : objs'[n] # None => ObjectIs(objs[n])',
         told' \in [Names -> (Statuses \X SUBSET All) \cup {None}], probed' \subseteq Policies \X Drives,
         jobs' \in [Jobs -> JobSet], made' \in Seq(MadeSet), Len(made') <= MaxJobs
  PROVE  CTyped'
<1>1. spent' \in [Trouble -> Nat]
  BY DEF SpentMore
<1>2. allowed' \in BOOLEAN /\ rec' \in [Drives -> Drive] /\ uid' \in 0..MaxUid /\ limit' \in [Trouble -> Nat]
  BY DEF CTyped
<1> QED
  BY <1>1, <1>2 DEF CTyped

\* What was told, or forgotten, is typed.
LEMMA ToldTyped ==
  ASSUME CTyped, told' = [n \in Names |-> told'[n]], ToldLess PROVE told' \in [Names -> (Statuses \X SUBSET All) \cup {None}]
<1>1. told \in [Names -> (Statuses \X SUBSET All) \cup {None}]
  BY DEF CTyped
<1>2. \A n \in Names : told'[n] \in (Statuses \X SUBSET All) \cup {None}
  BY <1>1 DEF ToldLess
<1> QED
  BY <1>2

\* The pass after a step, field by field.
LEMMA CtlMade ==
  ASSUME NEW a, NEW b, NEW c, NEW e, NEW f, NEW g, NEW h,
         ctl' = [pc |-> a, seen |-> b, todo |-> c, cur |-> e, run |-> f, recs |-> g, patch |-> h]
  PROVE  /\ ctl'.pc = a /\ ctl'.seen = b /\ ctl'.todo = c /\ ctl'.cur = e /\ ctl'.run = f /\ ctl'.recs = g /\ ctl'.patch = h
         /\ ctl' = [pc |-> ctl'.pc, seen |-> ctl'.seen, todo |-> ctl'.todo, cur |-> ctl'.cur, run |-> ctl'.run,
                    recs |-> ctl'.recs, patch |-> ctl'.patch]
OBVIOUS
\* The pass that a list starts.
LEMMA ListIs ==
  ASSUME CTyped, UNCHANGED <<objs, uid>>, NEW names \in {Ops, Policies}, NEW q, q = IF names = Ops THEN "ops" ELSE "policies",
         ctl' = [pc |-> q, seen |-> List(names), todo |-> Due(names), cur |-> None, run |-> {}, recs |-> Rest.recs, patch |-> NoPatch]
  PROVE  CtlIs(ctl)' /\ Placed(ctl)' /\ Listed(names) /\ ctl'.pc = q
<1> DEFINE seen == List(names)
           todo == Due(names)
           r == Rest.recs
           p == NoPatch
<1>1. ctl' = [pc |-> q, seen |-> seen, todo |-> todo, cur |-> None, run |-> {}, recs |-> r, patch |-> p]
  OBVIOUS
<1>2. r \in [Drives -> Parts]
  BY NoPartsTyped
<1>3. p = [name |-> p.name, st |-> p.st, part |-> p.part] /\ p.st \in Statuses /\ p.part \subseteq All
  BY NoStatusTyped DEF NoPatch
<1>4. DOMAIN seen = {x \in names : objs[x] # None} /\ \A n \in DOMAIN seen : seen[n] = objs[n]
  BY DEF List
<1>5. todo \subseteq DOMAIN seen
  BY <1>4 DEF Due
<1>6. names \subseteq Names /\ DOMAIN seen \subseteq names
  BY <1>4 DEF Names
<1> HIDE DEF seen, todo, r, p
<1>7. /\ ctl'.pc = q /\ ctl'.seen = seen /\ ctl'.todo = todo /\ ctl'.cur = None /\ ctl'.run = {} /\ ctl'.recs = r /\ ctl'.patch = p
      /\ ctl' = [pc |-> ctl'.pc, seen |-> ctl'.seen, todo |-> ctl'.todo, cur |-> ctl'.cur, run |-> ctl'.run,
                 recs |-> ctl'.recs, patch |-> ctl'.patch]
  BY <1>1, CtlMade
<1>8. \A n \in DOMAIN seen : ObjectIs(seen[n])
  BY <1>4, <1>6 DEF CTyped
<1>9. \A n \in DOMAIN ctl'.seen : ObjectIs(ctl.seen[n])'
  BY <1>7, <1>8 DEF ObjectIs
<1>10. q \in Pcs /\ q \notin {"put", "submit"}
  BY DEF Pcs
<1>11. DOMAIN ctl'.seen \subseteq Ops \/ DOMAIN ctl'.seen \subseteq Policies
  BY <1>6, <1>7
<1>12. CtlIs(ctl)'
  <2>1. ctl'.todo \subseteq DOMAIN ctl'.seen /\ ctl'.run \subseteq Drives
    BY <1>5, <1>7
  <2>2. ctl'.recs \in [Drives -> Parts] /\ ctl'.pc \in Pcs
    BY <1>2, <1>7, <1>10
  <2>3. ctl'.patch = [name |-> ctl'.patch.name, st |-> ctl'.patch.st, part |-> ctl'.patch.part]
        /\ ctl'.patch.st \in Statuses /\ ctl'.patch.part \subseteq All
    BY <1>3, <1>7
  <2> QED
    BY <1>7, <1>9, <1>11, <2>1, <2>2, <2>3 DEF CtlIs
<1>13. Placed(ctl)'
  <2>1. (q = "ops" => DOMAIN seen \subseteq Ops) /\ (q = "policies" => DOMAIN seen \subseteq Policies)
    BY <1>6
  <2> QED
    BY <1>7, <1>10, <2>1 DEF Placed
<1> QED
  BY <1>4, <1>5, <1>7, <1>10, <1>12, <1>13 DEF Listed

\* The pass that a daemon starts with.
LEMMA RestIs ==
  ASSUME ctl' = Rest PROVE CtlIs(ctl)' /\ Placed(ctl)' /\ Listed({})
<1> DEFINE r == Rest.recs
           p == NoPatch
           seen == [n \in {} |-> None]
<1>1. ctl' = [pc |-> "sleep", seen |-> seen, todo |-> {}, cur |-> None, run |-> {}, recs |-> r, patch |-> p]
  BY DEF Rest
<1>2. r \in [Drives -> Parts]
  BY NoPartsTyped
<1>3. p = [name |-> p.name, st |-> p.st, part |-> p.part] /\ p.st \in Statuses /\ p.part \subseteq All
  BY NoStatusTyped DEF NoPatch
<1>4. DOMAIN seen = {}
  OBVIOUS
<1> HIDE DEF seen, r, p
<1>5. /\ ctl'.pc = "sleep" /\ ctl'.seen = seen /\ ctl'.todo = {} /\ ctl'.cur = None /\ ctl'.run = {} /\ ctl'.recs = r /\ ctl'.patch = p
      /\ ctl' = [pc |-> ctl'.pc, seen |-> ctl'.seen, todo |-> ctl'.todo, cur |-> ctl'.cur, run |-> ctl'.run,
                 recs |-> ctl'.recs, patch |-> ctl'.patch]
  BY <1>1
<1>6. CtlIs(ctl)'
  BY <1>2, <1>3, <1>4, <1>5 DEF CtlIs, Pcs
<1>7. Placed(ctl)'
  BY <1>4, <1>5 DEF Placed
<1> QED
  BY <1>4, <1>5, <1>6, <1>7 DEF Listed

\* The operations are listed.
LEMMA ListOpsKeeps == ASSUME IInv, ListOps PROVE IInv'
<1>1. CTyped /\ KeptJobs
  BY DEF IInv, JobsInv
<1>2. SpentMore /\ (Troubled => Troubled')
  BY <1>1, Spending DEF ListOps
<1>3. UNCHANGED <<objs, allowed, jobs, rec, told, probed, made, uid, limit>> /\ ctl.pc = "sleep"
      /\ ctl' = [pc |-> "ops", seen |-> List(Ops), todo |-> Due(Ops), cur |-> None, run |-> {}, recs |-> Rest.recs, patch |-> NoPatch]
  BY DEF ListOps, Rest
<1>4. CtlIs(ctl)' /\ Placed(ctl)' /\ Listed(Ops)
  BY <1>1, <1>3, ListIs
<1>5. JobsGo /\ jobs' \in [Jobs -> JobSet]
  BY <1>1, <1>3, JobsStay
<1>6. ToldLess /\ told' \in [Names -> (Statuses \X SUBSET All) \cup {None}] /\ probed' \subseteq Policies \X Drives
  BY <1>1, <1>3 DEF ToldLess, CTyped
<1>7. CTyped'
  BY <1>1, <1>2, <1>3, <1>4, <1>5, <1>6, MadeStands, ObjsStand, PassTyped
<1>8. Ops \in SUBSET Names /\ ctl.pc \notin {"put", "submit"}
  BY <1>3 DEF Names
<1> QED
  BY <1>2, <1>3, <1>4, <1>5, <1>6, <1>7, <1>8, ListedKeeps

\* The jobs of objects that are gone.
LEMMA GoneGoes ==
  ASSUME CTyped, KeptJobs, NEW names, CancelGone(names)
  PROVE  /\ JobsGo /\ jobs' \in [Jobs -> JobSet]
         /\ ToldLess /\ told' \in [Names -> (Statuses \X SUBSET All) \cup {None}]
<1> DEFINE gone == Gone(names)
           f == [j \in Jobs |-> CancelledJob(jobs[j])]
           js == [j \in Jobs |-> IF j \in gone THEN f[j] ELSE jobs[j]]
<1>1. gone \in SUBSET Jobs /\ \A j \in gone : jobs[j].kept
  BY DEF Gone
<1>2. jobs' = (IF gone = {} THEN jobs ELSE Saved([j \in Jobs |-> IF j \in gone THEN CancelledJob(jobs[j]) ELSE jobs[j]]))
      /\ told' = [n \in DOMAIN told |-> IF \E j \in gone : jobs[j].owner = n THEN None ELSE told[n]]
  BY DEF CancelGone
<1>3. [j \in Jobs |-> IF j \in gone THEN CancelledJob(jobs[j]) ELSE jobs[j]] = js
  OBVIOUS
<1>4. \A j \in gone : f[j] = CancelledJob(jobs[j])
  BY <1>1
<1>5. \A j \in gone : GoesTo(j, f[j]) /\ f[j] \in JobSet
  BY <1>1, <1>4, CancelledGoes
<1> HIDE DEF f, gone
<1>6. JobsGo /\ jobs' \in [Jobs -> JobSet]
  <2>1. CASE gone = {}
    BY <1>2, <2>1, JobsStay
  <2>2. CASE gone # {}
    <3>1. jobs' = Saved(js)
      BY <1>2, <1>3, <2>2
    <3> QED
      BY <1>1, <1>5, <3>1, SomeGo
  <2> QED
    BY <2>1, <2>2
<1>7. DOMAIN told = Names
  BY DEF CTyped
<1>8. told' = [n \in Names |-> told'[n]] /\ ToldLess
  BY <1>2, <1>7 DEF ToldLess
<1> QED
  BY <1>6, <1>8, ToldTyped

\* The policies are listed, after the jobs of operations gone are cancelled.
LEMMA ListPoliciesKeeps == ASSUME IInv, ListPolicies PROVE IInv'
<1>1. CTyped /\ KeptJobs
  BY DEF IInv, JobsInv
<1>2. SpentMore /\ (Troubled => Troubled')
  BY <1>1, Spending DEF ListPolicies
<1>3. UNCHANGED <<objs, allowed, rec, probed, made, uid, limit>> /\ ctl.pc = "ops" /\ CancelGone(Ops)
      /\ ctl' = [pc |-> "policies", seen |-> List(Policies), todo |-> Due(Policies), cur |-> None, run |-> {}, recs |-> Rest.recs, patch |-> NoPatch]
  BY DEF ListPolicies, Rest
<1>4. CtlIs(ctl)' /\ Placed(ctl)' /\ Listed(Policies)
  <2>1. CASE Policies # Ops
    BY <1>1, <1>3, <2>1, ListIs
  <2>2. CASE Policies = Ops
    <3>1. Ops = {} /\ Policies = {}
      BY <2>2, ConstantsHold
    <3>2. List(Policies) = List({}) /\ Due(Policies) = {}
      BY <3>1 DEF Due
    <3> DEFINE r == Rest.recs
               p == NoPatch
               seen == List({})
    <3>3. ctl' = [pc |-> "policies", seen |-> seen, todo |-> {}, cur |-> None, run |-> {}, recs |-> r, patch |-> p]
      BY <1>3, <3>2
    <3>4. r \in [Drives -> Parts] /\ DOMAIN seen = {}
      BY NoPartsTyped DEF List
    <3>5. p = [name |-> p.name, st |-> p.st, part |-> p.part] /\ p.st \in Statuses /\ p.part \subseteq All
      BY NoStatusTyped DEF NoPatch
    <3> HIDE DEF seen, r, p
    <3>6. /\ ctl'.pc = "policies" /\ ctl'.seen = seen /\ ctl'.todo = {} /\ ctl'.cur = None /\ ctl'.run = {} /\ ctl'.recs = r /\ ctl'.patch = p
          /\ ctl' = [pc |-> ctl'.pc, seen |-> ctl'.seen, todo |-> ctl'.todo, cur |-> ctl'.cur, run |-> ctl'.run,
                     recs |-> ctl'.recs, patch |-> ctl'.patch]
      BY <3>3
    <3>7. CtlIs(ctl)'
      BY <3>4, <3>5, <3>6 DEF CtlIs, Pcs
    <3>8. Placed(ctl)'
      BY <3>4, <3>6 DEF Placed
    <3> QED
      BY <3>1, <3>4, <3>6, <3>7, <3>8 DEF Listed
  <2> QED
    BY <2>1, <2>2
<1>5. JobsGo /\ jobs' \in [Jobs -> JobSet] /\ ToldLess /\ told' \in [Names -> (Statuses \X SUBSET All) \cup {None}]
  BY <1>1, <1>3, GoneGoes
<1>6. probed' \subseteq Policies \X Drives
  BY <1>1, <1>3 DEF CTyped
<1>7. CTyped'
  BY <1>1, <1>2, <1>3, <1>4, <1>5, <1>6, MadeStands, ObjsStand, PassTyped
<1>8. Policies \in SUBSET Names /\ ctl.pc \notin {"put", "submit"}
  BY <1>3 DEF Names
<1> QED
  BY <1>2, <1>3, <1>4, <1>5, <1>7, <1>8, ListedKeeps

\* The pass ends, after the jobs of policies gone are cancelled.
LEMMA PassEndsKeeps == ASSUME IInv, PassEnds PROVE IInv'
<1>1. CTyped /\ KeptJobs
  BY DEF IInv, JobsInv
<1>2. SpentMore /\ (Troubled => Troubled')
  BY <1>1, Spending DEF PassEnds
<1>3. UNCHANGED <<objs, allowed, rec, probed, made, uid, limit>> /\ ctl.pc = "policies" /\ CancelGone(Policies) /\ ctl' = Rest
  BY DEF PassEnds
<1>4. CtlIs(ctl)' /\ Placed(ctl)' /\ Listed({})
  BY <1>3, RestIs
<1>5. JobsGo /\ jobs' \in [Jobs -> JobSet] /\ ToldLess /\ told' \in [Names -> (Statuses \X SUBSET All) \cup {None}]
  BY <1>1, <1>3, GoneGoes
<1>6. probed' \subseteq Policies \X Drives
  BY <1>1, <1>3 DEF CTyped
<1>7. CTyped'
  BY <1>1, <1>2, <1>3, <1>4, <1>5, <1>6, MadeStands, ObjsStand, PassTyped
<1>8. {} \in SUBSET Names /\ ctl.pc \notin {"put", "submit"}
  BY <1>3
<1> QED
  BY <1>2, <1>3, <1>4, <1>5, <1>7, <1>8, ListedKeeps

\* The daemon restarts.
LEMMA RestartKeeps == ASSUME IInv, Restart PROVE IInv'
<1>1. CTyped /\ KeptJobs
  BY DEF IInv, JobsInv
<1>2. Spend("crash") /\ "crash" \in Trouble
  BY DEF Restart, Trouble
<1>3. SpentMore /\ (Troubled => Troubled') /\ Troubled'
  <2>1. SpentMore /\ (Troubled => Troubled')
    BY <1>1, <1>2, Spending
  <2>2. spent'["crash"] = spent["crash"] + 1
    BY <1>1, <1>2 DEF Spend, CTyped
  <2>3. spent["crash"] \in Nat /\ spent'["lost"] \in Nat
    BY <1>1, <2>1 DEF SpentMore, CTyped, Trouble
  <2> QED
    BY <2>1, <2>2, <2>3 DEF Troubled
<1>4. UNCHANGED <<objs, allowed, rec, made, uid, limit>> /\ ctl' = Rest /\ told' = [n \in DOMAIN told |-> None] /\ probed' = {}
  BY DEF Restart
<1>5. CtlIs(ctl)' /\ Placed(ctl)' /\ Listed({})
  BY <1>4, RestIs
<1>6. JobsGo /\ jobs' \in [Jobs -> JobSet]
  BY <1>1, <1>3, RestartGoes DEF Restart
<1>7. ToldLess /\ told' = [n \in Names |-> told'[n]]
  BY <1>1, <1>4 DEF ToldLess, CTyped
<1>8. told' \in [Names -> (Statuses \X SUBSET All) \cup {None}]
  BY <1>1, <1>7, ToldTyped
<1>9. CTyped'
  BY <1>1, <1>3, <1>4, <1>5, <1>6, <1>8, MadeStands, ObjsStand, PassTyped
<1>10. {} \in SUBSET Names
  OBVIOUS
<1> QED
  BY <1>3, <1>4, <1>5, <1>6, <1>7, <1>9, <1>10, ListedKeeps
\* The status reaches the apiserver, or it does not.
LEMMA AtPut ==
  ASSUME CTyped, ctl.pc = "put"
  PROVE  ctl.patch.name = ctl.cur /\ ctl.cur \in ctl.todo /\ ctl.cur \in Names
         /\ ctl.patch.st \in Statuses /\ ctl.patch.part \in SUBSET All
<1>1. CtlIs(ctl) /\ Placed(ctl)
  BY DEF CTyped
<1>2. ctl.patch.name = ctl.cur /\ ctl.cur \in ctl.todo
  BY <1>1 DEF Placed
<1> QED
  BY <1>1, <1>2 DEF CtlIs, Names

\* A write is typed.
LEMMA PutTyped ==
  ASSUME CTyped, UNCHANGED <<allowed, jobs, rec, probed, made, uid, limit>>, SpentMore, CtlIs(ctl)', Placed(ctl)',
         DOMAIN objs' = Names, \A n \in Names : objs'[n] # None => ObjectIs(objs[n])',
         told' \in [Names -> (Statuses \X SUBSET All) \cup {None}]
  PROVE  CTyped'
<1>1. jobs' \in [Jobs -> JobSet] /\ probed' \subseteq Policies \X Drives /\ made' \in Seq(MadeSet) /\ Len(made') <= MaxJobs
  BY DEF CTyped
<1> QED
  BY <1>1, PassTyped

\* A status is lost.
LEMMA PutLostKeeps == ASSUME IInv, PutLost PROVE IInv'
<1>1. CTyped /\ KeptJobs
  BY DEF IInv, JobsInv
<1>2. Spend("lost") /\ "lost" \in Trouble
  BY DEF PutLost, Trouble
<1>3. SpentMore /\ (Troubled => Troubled') /\ Troubled'
  <2>1. SpentMore /\ (Troubled => Troubled')
    BY <1>1, <1>2, Spending
  <2>2. spent'["lost"] = spent["lost"] + 1
    BY <1>1, <1>2 DEF Spend, CTyped
  <2>3. spent["lost"] \in Nat /\ spent'["crash"] \in Nat
    BY <1>1, <2>1 DEF SpentMore, CTyped, Trouble
  <2> QED
    BY <2>1, <2>2, <2>3 DEF Troubled
<1>4. UNCHANGED <<objs, allowed, jobs, rec, told, probed, made, uid, limit>> /\ ctl.pc = "put" /\ PutDone(ctl.patch.name)
  BY DEF PutLost
<1>5. PICK n : n = ctl.cur
  OBVIOUS
<1>6. n \in ctl.todo /\ PutDone(n)
  BY <1>1, <1>4, <1>5, AtPut
<1>7. CtlIs(ctl)' /\ Placed(ctl)' /\ MovedOn(n)
  BY <1>1, <1>4, <1>6, PutDoneIs DEF CTyped
<1>8. JobsGo
  BY <1>1, <1>4, JobsStay
<1>9. CTyped'
  <2>1. told' \in [Names -> (Statuses \X SUBSET All) \cup {None}]
    BY <1>1, <1>4 DEF CTyped
  <2> QED
    BY <1>1, <1>3, <1>4, <1>7, <2>1, ObjsStand, PutTyped
<1>10. ctl.cur \in {None, n}
  BY <1>5
<1> QED
  BY <1>3, <1>4, <1>6, <1>7, <1>8, <1>9, <1>10, MovedKeeps

\* A status is written, to the object of that name or to none.
LEMMA PutKeeps == ASSUME IInv, Put PROVE IInv'
<1>1. CTyped /\ KeptJobs
  BY DEF IInv, JobsInv
<1>2. SpentMore /\ (Troubled => Troubled')
  BY <1>1, Spending DEF Put
<1>3. UNCHANGED <<allowed, jobs, rec, probed, made, uid, limit>> /\ ctl.pc = "put" /\ PutDone(ctl.patch.name)
  BY DEF Put
<1>4. PICK n, st, part : n = ctl.cur /\ st = ctl.patch.st /\ part = ctl.patch.part
  OBVIOUS
<1>5. n \in ctl.todo /\ PutDone(n) /\ ctl.patch.name = n /\ n \in Names /\ st \in Statuses /\ part \in SUBSET All
  BY <1>1, <1>3, <1>4, AtPut
<1>6. CtlIs(ctl)' /\ Placed(ctl)' /\ MovedOn(n)
  BY <1>1, <1>3, <1>5, PutDoneIs DEF CTyped
<1>7. told \in [Names -> (Statuses \X SUBSET All) \cup {None}] /\ DOMAIN objs = Names
  BY <1>1 DEF CTyped
<1>8. CASE objs[n] = None
  <2>1. UNCHANGED <<objs, told>>
    BY <1>5, <1>8 DEF Put
  <2>2. CTyped'
    BY <1>1, <1>2, <1>3, <1>6, <1>7, <2>1, ObjsStand, PutTyped
  <2>3. JobsGo
    BY <1>1, <1>3, JobsStay
  <2>4. ctl.cur \in {None, n} /\ ctl.cur = n
    BY <1>4
  <2> QED
    BY <1>2, <1>3, <1>5, <1>6, <1>8, <2>1, <2>2, <2>3, <2>4, MovedKeeps
<1>9. CASE objs[n] # None
  <2> DEFINE x == objs[n]
             m == Merged(objs[n].status, st, part)
  <2>1. /\ objs' = [objs EXCEPT ![n].status = m]
        /\ told' = [told EXCEPT ![n] = <<st, part>>]
    BY <1>4, <1>5, <1>9 DEF Put
  <2>2. ObjectIs(x)
    BY <1>1, <1>5, <1>9 DEF CTyped
  <2>3. m \in Statuses
    BY <1>5, <2>2, ObjectFields, MergedIs
  <2>4. PICK o : o = [x EXCEPT !.status = m]
    OBVIOUS
  <2>5. objs' = [objs EXCEPT ![n] = o]
    BY <2>1, <2>4
  <2>6. /\ x = [uid |-> x.uid, gen |-> x.gen, spec |-> x.spec, resume |-> x.resume, stamped |-> x.stamped,
                deleting |-> x.deleting, status |-> x.status]
        /\ x.uid \in 1..uid /\ x.gen \in 1..MaxGen /\ x.resume \in Nat
        /\ x.spec \in OpSpecs \cup PolicySpecs /\ x.stamped \in BOOLEAN /\ x.deleting \in BOOLEAN
    BY <2>2, ObjectFields, ObjectKept
  <2> HIDE DEF x, m
  <2>7. o = [uid |-> x.uid, gen |-> x.gen, spec |-> x.spec, resume |-> x.resume, stamped |-> x.stamped,
             deleting |-> x.deleting, status |-> m]
    BY <2>4, <2>6
  <2>8. o.uid = x.uid /\ o.gen = x.gen /\ o.status = m
    BY <2>7
  <2>9. ObjectIs(o) /\ o # None
    <3>1. uid \in 0..MaxUid
      BY <1>1 DEF CTyped
    <3> QED
      BY <2>3, <2>6, <2>7, <3>1, ObjectMade
  <2>10. DOMAIN objs' = Names /\ objs'[n] = o /\ \A k \in Names : k # n => objs'[k] = objs[k]
    BY <1>5, <1>7, <2>5
  <2>11. Wrote(n, st, part)
    BY <1>5, <1>9, <2>8, <2>9, <2>10 DEF Wrote, x, m
  <2>12. \A k \in Names : objs'[k] # None => ObjectIs(objs[k])'
    BY <1>1, <1>3, <2>9, <2>10 DEF CTyped, ObjectIs
  <2>13. told' \in [Names -> (Statuses \X SUBSET All) \cup {None}]
    BY <1>5, <1>7, <2>1
  <2>14. CTyped'
    BY <1>1, <1>2, <1>3, <1>6, <2>10, <2>12, <2>13, PutTyped
  <2> QED
    BY <1>2, <1>3, <1>4, <1>5, <1>6, <2>1, <2>11, <2>14, WroteKeeps
<1> QED
  BY <1>8, <1>9

-----------------------------------------------------------------------------
(* The operations.                                                           *)
\* A status said is typed.
LEMMA SaidTyped ==
  ASSUME CTyped, UNCHANGED <<objs, allowed, rec, told, made, uid, limit>>, SpentMore, jobs' \in [Jobs -> JobSet],
         probed' \subseteq Policies \X Drives, NEW n \in ctl.todo, NEW st \in Statuses, NEW part \in SUBSET All, Say(n, st, part)
  PROVE  CTyped'
<1>1. CtlIs(ctl)' /\ Placed(ctl)'
  BY SayIs DEF CTyped
<1>2. told' \in [Names -> (Statuses \X SUBSET All) \cup {None}]
  BY DEF CTyped
<1> QED
  BY <1>1, <1>2, MadeStands, ObjsStand, PassTyped

\* The requester is asked, and the apiserver may be down.
LEMMA AskedIs ==
  ASSUME NEW n, NEW a, Asked(n, a) PROVE (\E k \in Trouble : Spend(k)) \/ spent' = spent
BY DEF Asked, Trouble
\* An operation's status is said.
LEMMA OpSaid ==
  ASSUME IInv, NEW o \in Ops, o \in ctl.todo, ctl.pc = "ops", UNCHANGED <<objs, allowed, rec, told, probed, made, uid, limit>>,
         (\E k \in Trouble : Spend(k)) \/ spent' = spent, JobsGo, jobs' \in [Jobs -> JobSet],
         NEW st \in Statuses, NEW part \in SUBSET All, Say(o, st, part), Answers(o, st, part),
         st.drives = NoStatus.drives, st.job <= Len(made)
  PROVE  IInv'
<1>1. CTyped /\ Placed(ctl)
  BY DEF IInv, CTyped
<1>2. SpentMore /\ (Troubled => Troubled')
  BY <1>1, Spending
<1>3. probed' \subseteq Policies \X Drives
  BY <1>1 DEF CTyped
<1>4. CTyped'
  BY <1>1, <1>2, <1>3, SaidTyped
<1>5. o \notin Policies
  BY ConstantsHold
<1>6. ctl.pc \notin {"put", "submit"} /\ ctl.cur = None /\ (o \in Policies => HarmlessTo(o, st.drives))
  BY <1>1, <1>5 DEF Placed
<1>7. ToldOf(o, st.drives)
  BY NoRefs DEF ToldOf
<1> QED
  BY <1>2, <1>4, <1>6, <1>7, SayKeeps

\* A job's phase is a final answer.
LEMMA PhaseIs == ASSUME NEW job PROVE Phase(job) \in Phases \ {"", "Pending"}
BY DEF Phase, Phases

\* The empty status as a record.
LEMMA NoStatusForm ==
  ASSUME NEW ds, ds = NoStatus.drives
  PROVE  NoStatus = [phase |-> "", observed |-> 0, resumed |-> 0, job |-> 0, drives |-> ds]
BY DEF NoStatus

\* The empty status's values.
LEMMA Zeros == "" \in Phases /\ 0 \in 0..MaxGen /\ 0 \in Nat /\ 0 \in 0..MaxJobs
<1>1. "" \in Phases
  BY DEF Phases
<1>2. 0 \in 0..MaxGen /\ 0 \in Nat /\ 0 \in 0..MaxJobs
  BY ConstantsHold
<1> QED
  BY <1>1, <1>2

\* The status of an operation with a job.
LEMMA OpStatusIs ==
  ASSUME NEW j \in 0..MaxJobs, NEW job, NEW g \in 0..MaxGen, NEW r \in Nat
  PROVE  /\ OpStatus(j, job, g, r) \in Statuses /\ Final(OpStatus(j, job, g, r))
         /\ OpStatus(j, job, g, r).observed = g /\ OpStatus(j, job, g, r).job = j
         /\ OpStatus(j, job, g, r).drives = NoStatus.drives
<1>1. PICK ds, p, n : ds = NoStatus.drives /\ p = Phase(job) /\ n = NoStatus
  OBVIOUS
<1>2. n = [phase |-> "", observed |-> 0, resumed |-> 0, job |-> 0, drives |-> ds]
  BY <1>1, NoStatusForm
<1>3. OpStatus(j, job, g, r) = [n EXCEPT !.phase = p, !.observed = g, !.resumed = r, !.job = j]
  BY <1>1 DEF OpStatus
<1>4. PICK st : st = OpStatus(j, job, g, r)
  OBVIOUS
<1>5. st = [phase |-> p, observed |-> g, resumed |-> r, job |-> j, drives |-> ds]
  BY <1>2, <1>3, <1>4
<1>6. p \in Phases /\ p \notin {"", "Pending"} /\ ds \in [Drives -> Parts]
  BY <1>1, PhaseIs, NoPartsTyped
<1>7. st \in Statuses /\ st.phase = p /\ st.observed = g /\ st.job = j /\ st.drives = ds
  <2>1. st \in Statuses
    BY <1>5, <1>6, StatusMade
  <2> QED
    BY <1>5, <2>1
<1> QED
  BY <1>1, <1>4, <1>6, <1>7 DEF Final

\* The answer to an operation as a record,
LEMMA AnswerForm ==
  ASSUME NEW p, NEW g
  PROVE  [NoStatus EXCEPT !.phase = p, !.observed = g] =
           [phase |-> p, observed |-> g, resumed |-> 0, job |-> 0, drives |-> NoStatus.drives]
<1>1. PICK ds, n : ds = NoStatus.drives /\ n = NoStatus
  OBVIOUS
<1>2. n = [phase |-> "", observed |-> 0, resumed |-> 0, job |-> 0, drives |-> ds]
  BY <1>1, NoStatusForm
<1>3. PICK st : st = [n EXCEPT !.phase = p, !.observed = g]
  OBVIOUS
<1>4. st = [phase |-> p, observed |-> g, resumed |-> 0, job |-> 0, drives |-> ds]
  BY <1>2, <1>3
<1> QED
  BY <1>1, <1>3, <1>4

\* ... and the answer to a resume that is refused.
LEMMA ResumedForm ==
  ASSUME NEW r
  PROVE  [NoStatus EXCEPT !.resumed = r] = [phase |-> "", observed |-> 0, resumed |-> r, job |-> 0, drives |-> NoStatus.drives]
<1>1. PICK ds, n : ds = NoStatus.drives /\ n = NoStatus
  OBVIOUS
<1>2. n = [phase |-> "", observed |-> 0, resumed |-> 0, job |-> 0, drives |-> ds]
  BY <1>1, NoStatusForm
<1>3. PICK st : st = [n EXCEPT !.resumed = r]
  OBVIOUS
<1>4. st = [phase |-> "", observed |-> 0, resumed |-> r, job |-> 0, drives |-> ds]
  BY <1>2, <1>3
<1> QED
  BY <1>1, <1>3, <1>4

\* They are statuses: the answer,
LEMMA AnswerIs ==
  ASSUME NEW p \in Phases, NEW g \in 0..MaxGen
  PROVE  \E st \in Statuses : /\ st = [NoStatus EXCEPT !.phase = p, !.observed = g]
                              /\ st.phase = p /\ st.observed = g /\ st.job = 0 /\ st.drives = NoStatus.drives
<1>1. PICK ds, z : ds = NoStatus.drives /\ z = 0
  OBVIOUS
<1>2. ds \in [Drives -> Parts] /\ z \in Nat /\ z \in 0..MaxJobs
  BY <1>1, NoPartsTyped, Zeros
<1>3. PICK st : st = [phase |-> p, observed |-> g, resumed |-> z, job |-> z, drives |-> ds]
  OBVIOUS
<1>4. st \in Statuses
  BY <1>2, <1>3, StatusMade
<1>5. st.phase = p /\ st.observed = g /\ st.job = z /\ st.drives = ds
  BY <1>3
<1>6. st = [NoStatus EXCEPT !.phase = p, !.observed = g]
  BY <1>1, <1>3, AnswerForm
<1> QED
  BY <1>1, <1>4, <1>5, <1>6

\* ... and the one that only names the resume.
LEMMA ResumedStatusIs ==
  ASSUME NEW r \in Nat
  PROVE  \E st \in Statuses : st = [NoStatus EXCEPT !.resumed = r] /\ st.job = 0 /\ st.drives = NoStatus.drives
<1>1. PICK ds, z, e : ds = NoStatus.drives /\ z = 0 /\ e = ""
  OBVIOUS
<1>2. ds \in [Drives -> Parts] /\ z \in 0..MaxGen /\ z \in 0..MaxJobs /\ e \in Phases
  BY <1>1, NoPartsTyped, Zeros
<1>3. PICK st : st = [phase |-> e, observed |-> z, resumed |-> r, job |-> z, drives |-> ds]
  OBVIOUS
<1>4. st \in Statuses
  BY <1>2, <1>3, StatusMade
<1>5. st.job = z /\ st.drives = ds
  BY <1>3
<1>6. st = [NoStatus EXCEPT !.resumed = r]
  BY <1>1, <1>3, ResumedForm
<1> QED
  BY <1>1, <1>4, <1>5, <1>6

\* An object that the pass has on its list.
LEMMA SeenIs ==
  ASSUME CTyped, NEW n \in ctl.todo
  PROVE  /\ n \in DOMAIN ctl.seen /\ n \in Names
         /\ ctl.seen[n].gen \in 1..MaxGen /\ ctl.seen[n].gen \in 0..MaxGen /\ ctl.seen[n].resume \in Nat
         /\ ctl.seen[n].status \in Statuses /\ ctl.seen[n].status.resumed \in Nat
         /\ ctl.seen[n].status.drives \in [Drives -> Parts]
<1>1. CtlIs(ctl)
  BY DEF CTyped
<1>2. n \in DOMAIN ctl.seen /\ ObjectIs(ctl.seen[n]) /\ n \in Names
  BY <1>1 DEF CtlIs, Names
<1>3. ctl.seen[n].gen \in 1..MaxGen /\ ctl.seen[n].resume \in Nat /\ ctl.seen[n].status \in Statuses
  BY <1>2, ObjectFields
<1>4. ctl.seen[n].gen \in 0..MaxGen
  BY <1>3, ConstantsHold
<1> QED
  BY <1>2, <1>3, <1>4, StatusOf

\* An operation with a job is followed.
LEMMA FollowKeeps == ASSUME IInv, NEW o \in Ops, Follow(o) PROVE IInv'
<1>1. CTyped /\ KeptJobs
  BY DEF IInv, JobsInv
<1>2. AtOp(o) /\ HasJob(o) /\ o \in Names /\ o \in ctl.todo /\ ctl.pc = "ops"
  BY DEF Follow, AtOp, Names
<1> DEFINE op == ctl.seen[o]
           j == JobOf(o)
<1>3. j \in Jobs /\ jobs[j].kept /\ jobs[j].owner = o
  BY <1>1, <1>2, JobOfIs
<1>4. j \in MadeOf /\ j \in 0..MaxJobs /\ j <= Len(made)
  <2>1. j \in MadeOf /\ MadeOf = 1..Len(made) /\ Len(made) \in Nat
    <3>1. made \in Seq(MadeSet)
      BY <1>1 DEF CTyped
    <3>2. MadeOf = 1..Len(made) /\ Len(made) \in Nat
      BY <3>1, LenProperties DEF MadeOf
    <3> QED
      BY <1>1, <1>3, <3>2 DEF KeptJobs
  <2> QED
    BY <1>3, <2>1, ConstantsHold DEF Jobs
<1>5. op.gen \in 0..MaxGen /\ op.resume \in Nat /\ op.status.resumed \in Nat
  BY <1>1, <1>2, SeenIs
<1> HIDE DEF j
<1>6. UNCHANGED <<objs, allowed, rec, told, probed, made, uid, limit>>
  BY DEF Follow
<1>7. ASSUME NEW job, NEW r \in Nat, Say(o, OpStatus(j, job, op.gen, r), All), JobsGo, jobs' \in [Jobs -> JobSet],
             (\E k \in Trouble : Spend(k)) \/ spent' = spent
      PROVE  IInv'
  <2>1. PICK st : st = OpStatus(j, job, op.gen, r)
    OBVIOUS
  <2>2. st \in Statuses /\ Final(st) /\ st.observed = op.gen /\ st.job = j /\ st.drives = NoStatus.drives
    BY <1>4, <1>5, <2>1, OpStatusIs
  <2>3. Answers(o, st, All)
    BY <2>2 DEF Answers, Match, All
  <2>4. Say(o, st, All) /\ All \in SUBSET All /\ st.job <= Len(made)
    BY <1>4, <1>7, <2>1, <2>2
  <2> QED
    BY <1>2, <1>6, <1>7, <2>2, <2>3, <2>4, OpSaid
<1>8. CASE UNCHANGED <<jobs, spent>> /\ Say(o, OpStatus(j, jobs[j], op.gen, IF op.resume > op.status.resumed THEN op.resume
                                                                      ELSE op.status.resumed), All)
  <2>1. PICK r : r = IF op.resume > op.status.resumed THEN op.resume ELSE op.status.resumed
    OBVIOUS
  <2>2. r \in Nat
    BY <1>5, <2>1
  <2>3. JobsGo /\ jobs' \in [Jobs -> JobSet]
    BY <1>1, <1>8, JobsStay
  <2> QED
    BY <1>7, <1>8, <2>1, <2>2, <2>3
<1>9. ASSUME NEW a, Asked(o, a), jobs' = Saved([jobs EXCEPT ![j] = Resumed(jobs[j])]),
             Say(o, OpStatus(j, Resumed(jobs[j]), op.gen, op.resume), All)
      PROVE  IInv'
  <2>1. PICK b : b = Resumed(jobs[j])
    OBVIOUS
  <2>2. PICK js : js = [jobs EXCEPT ![j] = b]
    OBVIOUS
  <2>3. jobs[j].owner \notin Policies
    BY <1>3, ConstantsHold
  <2>4. GoesTo(j, b) /\ b \in JobSet
    BY <1>1, <1>3, <2>1, <2>3, ResumedGoes
  <2>5. jobs \in [Jobs -> JobSet]
    BY <1>1 DEF CTyped
  <2>6. js \in [Jobs -> JobSet] /\ js[j] = b /\ \A i \in Jobs : i # j => js[i] = jobs[i]
    BY <1>3, <2>2, <2>4, <2>5
  <2>7. \A i \in Jobs : GoesTo(i, js[i])
    BY <1>1, <2>4, <2>6, GoesSame
  <2>8. JobsGo /\ jobs' \in [Jobs -> JobSet]
    BY <1>9, <2>1, <2>2, <2>6, <2>7, GoesSaved
  <2>9. (\E k \in Trouble : Spend(k)) \/ spent' = spent
    BY <1>9, AskedIs
  <2> QED
    BY <1>5, <1>7, <1>9, <2>8, <2>9
<1>10. ASSUME NEW a, Asked(o, a), UNCHANGED jobs, Say(o, [NoStatus EXCEPT !.resumed = op.resume], {"resumed"}) PROVE IInv'
  <2>1. PICK st \in Statuses : st = [NoStatus EXCEPT !.resumed = op.resume] /\ st.job = 0 /\ st.drives = NoStatus.drives
    BY <1>5, ResumedStatusIs
  <2>2. st \in Statuses /\ st.job = 0 /\ st.drives = NoStatus.drives
    BY <2>1
  <2>3. PICK part : part = {"resumed"}
    OBVIOUS
  <2>4. part \in SUBSET All /\ Answers(o, st, part)
    BY <2>3 DEF Answers, All
  <2>5. st.job <= Len(made)
    BY <1>1, <2>2 DEF CTyped
  <2>6. JobsGo /\ jobs' \in [Jobs -> JobSet]
    BY <1>1, <1>10, JobsStay
  <2>7. (\E k \in Trouble : Spend(k)) \/ spent' = spent
    BY <1>10, AskedIs
  <2>8. Say(o, st, part)
    BY <1>10, <2>1, <2>3
  <2> QED
    BY <1>2, <1>6, <2>2, <2>4, <2>5, <2>6, <2>7, <2>8, OpSaid
<1>11. \/ UNCHANGED <<jobs, spent>> /\ Say(o, OpStatus(j, jobs[j], op.gen, IF op.resume > op.status.resumed THEN op.resume
                                                                    ELSE op.status.resumed), All)
       \/ \E a : /\ Asked(o, a) /\ jobs' = Saved([jobs EXCEPT ![j] = Resumed(jobs[j])])
                 /\ Say(o, OpStatus(j, Resumed(jobs[j]), op.gen, op.resume), All)
       \/ \E a : Asked(o, a) /\ UNCHANGED jobs /\ Say(o, [NoStatus EXCEPT !.resumed = op.resume], {"resumed"})
  BY DEF Follow, j
<1> QED
  BY <1>8, <1>9, <1>10, <1>11
\* An object is passed by.
LEMMA Passed ==
  ASSUME IInv, NEW n \in ctl.todo, ctl.pc = (IF n \in Ops THEN "ops" ELSE "policies"), ctl' = [ctl EXCEPT !.todo = @ \ {n}],
         UNCHANGED <<objs, allowed, jobs, rec, told, probed, made, uid, limit, spent>>
  PROVE  IInv'
<1>1. CTyped /\ KeptJobs
  BY DEF IInv, JobsInv
<1>2. SpentMore /\ (Troubled => Troubled')
  BY <1>1, Spending
<1>3. CtlIs(ctl) /\ Placed(ctl)
  BY <1>1 DEF CTyped
<1>4. ctl.pc \in {"ops", "policies"} /\ ctl.cur = None
  BY <1>3 DEF Placed
<1> DEFINE c == ctl
<1>5. c = [pc |-> c.pc, seen |-> c.seen, todo |-> c.todo, cur |-> c.cur, run |-> c.run, recs |-> c.recs, patch |-> c.patch]
  BY <1>3 DEF CtlIs
<1>6. PICK t : t = c.todo \ {n}
  OBVIOUS
<1>7. ctl' = [c EXCEPT !.todo = t]
  BY <1>6
<1>8. ctl.run \in SUBSET Drives /\ ctl.recs \in [Drives -> Parts]
      /\ ctl.patch = [name |-> ctl.patch.name, st |-> ctl.patch.st, part |-> ctl.patch.part]
      /\ ctl.patch.st \in Statuses /\ ctl.patch.part \subseteq All
  BY <1>3 DEF CtlIs
<1> HIDE DEF c
<1>9. ctl' = [pc |-> c.pc, seen |-> c.seen, todo |-> t, cur |-> c.cur, run |-> c.run, recs |-> c.recs, patch |-> c.patch]
  BY <1>5, <1>7
<1>10. ctl' = [pc |-> IF n \in Ops THEN "ops" ELSE "policies", seen |-> ctl.seen, todo |-> ctl.todo \ {n}, cur |-> None,
               run |-> ctl.run, recs |-> ctl.recs, patch |-> ctl.patch]
  BY <1>4, <1>6, <1>9 DEF c
<1>11. CtlIs(ctl)' /\ Placed(ctl)' /\ MovedOn(n)
  BY <1>3, <1>8, <1>10, CtlMoved
<1>12. CTyped'
  <2>1. told' \in [Names -> (Statuses \X SUBSET All) \cup {None}] /\ jobs' \in [Jobs -> JobSet] /\ probed' \subseteq Policies \X Drives
    BY <1>1 DEF CTyped
  <2> QED
    BY <1>1, <1>2, <1>11, <2>1, MadeStands, ObjsStand, PassTyped
<1>13. JobsGo
  BY <1>1, JobsStay
<1>14. ctl.cur \in {None, n} /\ ctl.pc \notin {"put", "submit"}
  BY <1>4
<1> QED
  BY <1>2, <1>11, <1>12, <1>13, <1>14, MovedKeeps

\* An answered operation is passed by.
LEMMA LeaveKeeps == ASSUME IInv, NEW o \in Ops, Leave(o) PROVE IInv'
<1>1. o \in ctl.todo /\ ctl.pc = (IF o \in Ops THEN "ops" ELSE "policies") /\ ctl' = [ctl EXCEPT !.todo = @ \ {o}]
  BY DEF Leave, AtOp
<1>2. UNCHANGED <<objs, allowed, jobs, rec, told, probed, made, uid, limit, spent>>
  BY DEF Leave
<1> QED
  BY <1>1, <1>2, Passed

\* Nothing has been made for an operation that has not been answered.
LEMMA NotMadeYet ==
  ASSUME IInv, NEW o \in Ops, o \in ctl.todo, ctl.pc = "ops", ~Answered(o)
  PROVE  Troubled \/ \A i \in MadeOf : ~Match(ctl.seen[o], i)
<1> SUFFICES ASSUME ~Troubled, NEW i \in MadeOf, Match(ctl.seen[o], i) PROVE FALSE
  OBVIOUS
<1>1. AnsweredSeen /\ Placed(ctl)
  BY DEF IInv, AnswerInv, CTyped
<1>2. ctl.cur = None /\ o # None
  BY <1>1, ConstantsHold DEF Placed, Names
<1>3. o \in Ahead \cap Ops
  BY <1>2 DEF Ahead
<1>4. Said(ctl.seen[o], i)
  BY <1>1, <1>3 DEF AnsweredSeen
<1> QED
  BY <1>4 DEF Said, Final, Answered, Match

\* An operation is answered without a job.
LEMMA AnswerSaid ==
  ASSUME IInv, NEW o \in Ops, o \in ctl.todo, ctl.pc = "ops", ~Answered(o), UNCHANGED <<objs, allowed, rec, told, probed, made, uid, limit, jobs>>,
         (\E k \in Trouble : Spend(k)) \/ spent' = spent, NEW a \in Phases, Answer_(o, a)
  PROVE  IInv'
<1>1. CTyped /\ KeptJobs
  BY DEF IInv, JobsInv
<1>2. ctl.seen[o].gen \in 0..MaxGen
  BY <1>1, SeenIs
<1>3. PICK st \in Statuses : st = [NoStatus EXCEPT !.phase = a, !.observed = ctl.seen[o].gen] /\ st.job = 0 /\ st.drives = NoStatus.drives
  <2>1. PICK g \in 0..MaxGen : g = ctl.seen[o].gen
    BY <1>2
  <2>2. \E st \in Statuses : /\ st = [NoStatus EXCEPT !.phase = a, !.observed = g]
                             /\ st.phase = a /\ st.observed = g /\ st.job = 0 /\ st.drives = NoStatus.drives
    BY AnswerIs
  <2> QED
    BY <2>1, <2>2
<1>4. PICK part : part = {"phase", "observed"}
  OBVIOUS
<1>5. Say(o, st, part) /\ part \in SUBSET All
  BY <1>3, <1>4 DEF Answer_, All
<1>6. Answers(o, st, part)
  BY NotMadeYet DEF Answers
<1>7. st.job <= Len(made)
  BY <1>1, <1>3 DEF CTyped
<1>8. JobsGo /\ jobs' \in [Jobs -> JobSet]
  BY <1>1, JobsStay
<1> QED
  BY <1>3, <1>5, <1>6, <1>7, <1>8, OpSaid

\* Users name drives of the node.
LEMMA SpecDrives ==
  ASSUME CTyped, NEW n \in ctl.todo PROVE ctl.seen[n].spec.drives \in SUBSET Drives
<1>1. CtlIs(ctl)
  BY DEF CTyped
<1>2. ObjectIs(ctl.seen[n])
  BY <1>1 DEF CtlIs
<1>3. ctl.seen[n].spec \in OpSpecs \cup PolicySpecs
  BY <1>2, ObjectKept
<1> QED
  BY <1>3, ControllerAssumption

\* An operation's job is made, and its status said.
LEMMA MadeForOp ==
  ASSUME IInv, NEW o \in Ops, o \in ctl.todo, ctl.pc = "ops", ~Answered(o), UNCHANGED <<objs, allowed, rec, told, probed, uid, limit>>,
         (\E k \in Trouble : Spend(k)) \/ spent' = spent, NEW ds \in SUBSET Drives, NEW run \in SUBSET ds, run # {}, Make(o, ds, run),
         NEW job, NEW r \in Nat, Say(o, OpStatus(Len(made) + 1, job, ctl.seen[o].gen, r), All)
  PROVE  IInv'
<1>1. CTyped
  BY DEF IInv
<1>2. SpentMore /\ (Troubled => Troubled')
  BY <1>1, Spending
<1>3. PICK k : k = Len(made) + 1
  OBVIOUS
<1>4. o \in DOMAIN ctl.seen /\ o \in Names /\ o \in Names \cup {None} /\ ctl.seen[o].gen \in 0..MaxGen
  BY <1>1, SeenIs
<1>5. MadeJob(k, o, ds, run)
  BY <1>1, <1>3, <1>4, MakeIs
<1>6. made' \in Seq(MadeSet) /\ Len(made') <= MaxJobs /\ jobs' \in [Jobs -> JobSet]
  BY <1>1, <1>5, MadeTyped
<1>7. k \in 0..MaxJobs
  <2>1. k \in Jobs
    BY <1>5 DEF MadeJob
  <2> QED
    BY <2>1, ConstantsHold DEF Jobs
<1>8. PICK st : st = OpStatus(k, job, ctl.seen[o].gen, r)
  OBVIOUS
<1>9. st \in Statuses /\ Final(st) /\ st.observed = ctl.seen[o].gen /\ st.job = k /\ st.drives = NoStatus.drives
  BY <1>4, <1>7, <1>8, OpStatusIs
<1>10. Say(o, st, All) /\ All \in SUBSET All
  BY <1>3, <1>8
<1>11. CTyped'
  <2>1. CtlIs(ctl)' /\ Placed(ctl)'
    BY <1>1, <1>9, <1>10, SayIs DEF CTyped
  <2>2. told' \in [Names -> (Statuses \X SUBSET All) \cup {None}] /\ probed' \subseteq Policies \X Drives
    BY <1>1 DEF CTyped
  <2> QED
    BY <1>1, <1>2, <1>6, <2>1, <2>2, ObjsStand, PassTyped
<1>12. run \in SUBSET Drives /\ o \in ctl.todo \cap Ops
  OBVIOUS
<1> QED
  BY <1>2, <1>5, <1>9, <1>10, <1>11, <1>12, NewJobKeeps

\* A new operation is answered.
LEMMA NewOpKeeps == ASSUME IInv, NEW o \in Ops, NewOp(o) PROVE IInv'
<1>1. o \in ctl.todo /\ ctl.pc = "ops" /\ ~Answered(o) /\ UNCHANGED <<objs, allowed, rec, told, probed, uid, limit>>
  BY DEF NewOp, AtOp
<1>2. CTyped
  BY DEF IInv
<1> DEFINE op == ctl.seen[o]
           run == Runnable(op.spec.drives, op.spec.named)
<1>3. PICK a \in {"yes", "Refused", "Pending"} :
        /\ Asked(o, a)
        /\ \/ a # "yes" /\ Answer_(o, a) /\ UNCHANGED <<jobs, made>>
           \/ Answer_(o, "Planned") /\ UNCHANGED <<jobs, made>>
           \/ Answer_(o, "Refused") /\ UNCHANGED <<jobs, made>>
           \/ /\ run # {} /\ Make(o, op.spec.drives, run)
              /\ Say(o, OpStatus(Len(made) + 1, jobs'[Len(made) + 1], op.gen, op.resume), All)
  BY DEF NewOp
<1>4. (\E k \in Trouble : Spend(k)) \/ spent' = spent
  BY <1>3, AskedIs
<1>5. a # "yes" => a \in Phases
  BY DEF Phases
<1>6. "Planned" \in Phases /\ "Refused" \in Phases
  BY DEF Phases
<1>7. ASSUME NEW b \in Phases, Answer_(o, b), UNCHANGED <<jobs, made>> PROVE IInv'
  BY <1>1, <1>4, <1>7, AnswerSaid
<1>8. CASE run # {} /\ Make(o, op.spec.drives, run) /\ Say(o, OpStatus(Len(made) + 1, jobs'[Len(made) + 1], op.gen, op.resume), All)
  <2>1. PICK ds, ru, r, job : ds = op.spec.drives /\ ru = run /\ r = op.resume /\ job = jobs'[Len(made) + 1]
    OBVIOUS
  <2>2. ds \in SUBSET Drives /\ r \in Nat
    BY <1>1, <1>2, <2>1, SpecDrives, SeenIs
  <2>3. ru \in SUBSET ds /\ ru # {}
    BY <1>8, <2>1 DEF Runnable
  <2>4. Make(o, ds, ru) /\ Say(o, OpStatus(Len(made) + 1, job, ctl.seen[o].gen, r), All)
    BY <1>8, <2>1
  <2> QED
    BY <1>1, <1>4, <2>2, <2>3, <2>4, MadeForOp
<1> QED
  BY <1>3, <1>5, <1>6, <1>7, <1>8

-----------------------------------------------------------------------------
(* The policies: what is said of them without a job.                         *)
\* A policy's status as a record.
LEMMA PolicyForm ==
  ASSUME NEW p, NEW ph, NEW recs
  PROVE  PolicyStatus(p, ph, recs) = [phase |-> ph, observed |-> ctl.seen[p].gen, resumed |-> 0, job |-> 0, drives |-> recs]
<1>1. PICK ds, n, g, st : ds = NoStatus.drives /\ n = NoStatus /\ g = ctl.seen[p].gen /\ st = PolicyStatus(p, ph, recs)
  OBVIOUS
<1>2. n = [phase |-> "", observed |-> 0, resumed |-> 0, job |-> 0, drives |-> ds]
  BY <1>1, NoStatusForm
<1>3. st = [n EXCEPT !.phase = ph, !.observed = g, !.drives = recs]
  BY <1>1 DEF PolicyStatus
<1>4. st = [phase |-> ph, observed |-> g, resumed |-> 0, job |-> 0, drives |-> recs]
  BY <1>2, <1>3
<1> QED
  BY <1>1, <1>4

\* It is a status.
LEMMA PolicyStatusIs ==
  ASSUME CTyped, NEW p \in ctl.todo, NEW ph \in Phases, NEW recs \in [Drives -> Parts]
  PROVE  \E st \in Statuses : st = PolicyStatus(p, ph, recs) /\ st.job = 0 /\ st.drives = recs
<1>1. PICK z, g : z = 0 /\ g = ctl.seen[p].gen
  OBVIOUS
<1>2. z \in Nat /\ z \in 0..MaxJobs /\ g \in 0..MaxGen
  BY <1>1, Zeros, SeenIs
<1>3. PICK st : st = [phase |-> ph, observed |-> g, resumed |-> z, job |-> z, drives |-> recs]
  OBVIOUS
<1>4. st \in Statuses
  BY <1>2, <1>3, StatusMade
<1>5. st.job = z /\ st.drives = recs
  BY <1>3
<1>6. st = PolicyStatus(p, ph, recs)
  BY <1>1, <1>3, PolicyForm
<1> QED
  BY <1>1, <1>4, <1>5, <1>6
\* A policy's status is said.
LEMMA PolicySaid ==
  ASSUME IInv, NEW p \in Policies, p \in ctl.todo, ctl.pc = "policies", UNCHANGED <<objs, allowed, rec, told, made, uid, limit>>,
         (\E k \in Trouble : Spend(k)) \/ spent' = spent, JobsGo, jobs' \in [Jobs -> JobSet], probed' \subseteq Policies \X Drives,
         NEW ph \in Phases, NEW recs \in [Drives -> Parts], NEW part \in SUBSET All, Say(p, PolicyStatus(p, ph, recs), part),
         HarmlessTo(p, recs), ToldOf(p, recs)
  PROVE  IInv'
<1>1. CTyped /\ Placed(ctl)
  BY DEF IInv, CTyped
<1>2. SpentMore /\ (Troubled => Troubled')
  BY <1>1, Spending
<1>3. PICK st \in Statuses : st = PolicyStatus(p, ph, recs) /\ st.job = 0 /\ st.drives = recs
  BY <1>1, PolicyStatusIs
<1>4. Say(p, st, part) /\ HarmlessTo(p, st.drives) /\ ToldOf(p, st.drives)
  BY <1>3
<1>5. CTyped'
  BY <1>1, <1>2, <1>4, SaidTyped
<1>6. ctl.pc \notin {"put", "submit"} /\ ctl.cur = None /\ (p \in Policies => HarmlessTo(p, st.drives))
  BY <1>1, <1>4 DEF Placed
<1>7. p \in Ops => Answers(p, st, part)
  BY ConstantsHold
<1>8. st.job <= Len(made)
  BY <1>1, <1>3 DEF CTyped
<1> QED
  BY <1>2, <1>4, <1>5, <1>6, <1>7, <1>8, SayKeeps

\* A broken spec is answered.
LEMMA InvalidKeeps == ASSUME IInv, NEW p \in Policies, Invalid(p) PROVE IInv'
<1>1. CTyped /\ KeptJobs
  BY DEF IInv, JobsInv
<1>2. /\ p \in ctl.todo /\ ctl.pc = "policies" /\ UNCHANGED <<objs, allowed, jobs, rec, told, probed, made, uid, limit, spent>>
      /\ Say(p, PolicyStatus(p, "Invalid", NoStatus.drives), {"phase", "observed"})
  BY DEF Invalid, Current
<1>3. PICK ph, recs, part : ph = "Invalid" /\ recs = NoStatus.drives /\ part = {"phase", "observed"}
  OBVIOUS
<1>4. ph \in Phases /\ recs \in [Drives -> Parts] /\ part \in SUBSET All
  BY <1>3, NoPartsTyped DEF Phases, All
<1>5. HarmlessTo(p, recs)
  BY <1>3, NoStatusIs DEF HarmlessTo, Harmless
<1>6. ToldOf(p, recs)
  BY <1>3, NoRefs DEF ToldOf
<1>7. JobsGo /\ jobs' \in [Jobs -> JobSet]
  BY <1>1, <1>2, JobsStay
<1>8. probed' \subseteq Policies \X Drives
  BY <1>1, <1>2 DEF CTyped
<1>9. Say(p, PolicyStatus(p, ph, recs), part)
  BY <1>2, <1>3
<1> QED
  BY <1>2, <1>4, <1>5, <1>6, <1>7, <1>8, <1>9, PolicySaid

\* A policy of other nodes is passed by.
LEMMA ElsewhereKeeps == ASSUME IInv, NEW p \in Policies, Elsewhere(p) PROVE IInv'
<1>1. p \notin Ops
  BY ConstantsHold
<1>2. p \in ctl.todo /\ ctl.pc = (IF p \in Ops THEN "ops" ELSE "policies") /\ ctl' = [ctl EXCEPT !.todo = @ \ {p}]
      /\ UNCHANGED <<objs, allowed, jobs, rec, told, probed, made, uid, limit, spent>>
  BY <1>1 DEF Elsewhere, Current
<1> QED
  BY <1>2, Passed

\* The records seen are harmless.
LEMMA SeenTold ==
  ASSUME IInv, NEW n \in ctl.todo
  PROVE  HarmlessTo(n, ctl.seen[n].status.drives) /\ ToldOf(n, ctl.seen[n].status.drives)
<1>1. n \in DOMAIN ctl.seen
  BY SeenIs DEF IInv
<1>2. HarmlessTo(n, ctl.seen[n].status.drives)
  BY DEF HarmlessTo, Harmless, RecordOK
<1>3. RefsFine(n, ctl.seen[n].status.drives)
  BY <1>1 DEF IInv, RefInv
<1> QED
  BY <1>1, <1>2, <1>3 DEF ToldOf, Ref

\* A requester who may not, or cannot be asked about.
LEMMA NotAllowedKeeps == ASSUME IInv, NEW p \in Policies, NotAllowed(p) PROVE IInv'
<1>1. CTyped /\ KeptJobs
  BY DEF IInv, JobsInv
<1>2. p \in ctl.todo /\ ctl.pc = "policies" /\ UNCHANGED <<objs, allowed, jobs, rec, told, probed, made, uid, limit>>
  BY DEF NotAllowed, AtPolicy, Current
<1>3. PICK ph \in {"Refused", "Pending"} :
        Asked(p, ph) /\ Say(p, PolicyStatus(p, ph, ctl.seen[p].status.drives), {"phase", "observed"})
  BY DEF NotAllowed
<1>4. PICK recs, part : recs = ctl.seen[p].status.drives /\ part = {"phase", "observed"}
  OBVIOUS
<1>5. ph \in Phases /\ part \in SUBSET All /\ recs \in [Drives -> Parts]
  BY <1>1, <1>2, <1>3, <1>4, SeenIs DEF Phases, All
<1>6. HarmlessTo(p, recs) /\ ToldOf(p, recs)
  BY <1>2, <1>4, SeenTold
<1>7. JobsGo /\ jobs' \in [Jobs -> JobSet]
  BY <1>1, <1>2, JobsStay
<1>8. probed' \subseteq Policies \X Drives
  BY <1>1, <1>2 DEF CTyped
<1>9. Say(p, PolicyStatus(p, ph, recs), part)
  BY <1>3, <1>4
<1>10. (\E k \in Trouble : Spend(k)) \/ spent' = spent
  BY <1>3, AskedIs
<1> QED
  BY <1>2, <1>5, <1>6, <1>7, <1>8, <1>9, <1>10, PolicySaid

\* Whose drives are submitted.
LEMMA AtSubmit ==
  ASSUME CTyped, ctl.pc = "submit"
  PROVE  /\ ctl.cur \in ctl.todo /\ ctl.cur \in Policies /\ ctl.cur \notin Ops /\ ctl.cur # None /\ ctl.cur \in DOMAIN ctl.seen
         /\ ctl.recs \in [Drives -> Parts] /\ ctl.run \subseteq Drives
<1>1. CtlIs(ctl) /\ Placed(ctl)
  BY DEF CTyped
<1>2. ctl.cur \in ctl.todo /\ DOMAIN ctl.seen \subseteq Policies
  BY <1>1 DEF Placed
<1>3. ctl.todo \subseteq DOMAIN ctl.seen /\ ctl.recs \in [Drives -> Parts] /\ ctl.run \subseteq Drives
  BY <1>1 DEF CtlIs
<1> QED
  BY <1>2, <1>3, ConstantsHold DEF Names

\* All groups are submitted.
LEMMA SubmittedKeeps == ASSUME IInv, Submitted PROVE IInv'
<1>1. CTyped /\ KeptJobs /\ RefInv
  BY DEF IInv, JobsInv
<1>2. /\ ctl.pc = "submit" /\ UNCHANGED <<objs, allowed, jobs, rec, told, probed, made, uid, limit, spent>>
      /\ Say(ctl.cur, PolicyStatus(ctl.cur, "Active", ctl.recs), All)
  BY DEF Submitted
<1>3. PICK p, ph, recs : p = ctl.cur /\ ph = "Active" /\ recs = ctl.recs
  OBVIOUS
<1>4. p \in ctl.todo /\ p \notin Ops /\ recs \in [Drives -> Parts] /\ ph \in Phases
  BY <1>1, <1>2, <1>3, AtSubmit DEF Phases
<1>5. PICK st \in Statuses : st = PolicyStatus(p, ph, recs) /\ st.job = 0 /\ st.drives = recs
  BY <1>1, <1>4, PolicyStatusIs
<1>6. Say(p, st, All) /\ All \in SUBSET All
  BY <1>2, <1>3, <1>5
<1>7. SpentMore /\ (Troubled => Troubled')
  BY <1>1, <1>2, Spending
<1>8. JobsGo /\ jobs' \in [Jobs -> JobSet]
  BY <1>1, <1>2, JobsStay
<1>9. probed' \subseteq Policies \X Drives
  BY <1>1, <1>2 DEF CTyped
<1>10. CTyped'
  BY <1>1, <1>2, <1>4, <1>6, <1>7, <1>8, <1>9, SaidTyped
<1>11. ToldOf(p, st.drives)
  <2>1. RefsFine(p, recs)
    BY <1>1, <1>2, <1>3 DEF RefInv
  <2>2. \A j \in Jobs : RefIn(recs, j) => Ref(j)
    BY <1>2, <1>3 DEF Ref
  <2> QED
    BY <1>5, <2>1, <2>2 DEF ToldOf
<1>12. ctl.pc = "submit" /\ ctl.cur = p /\ st.drives = ctl.recs
  BY <1>2, <1>3, <1>5
<1>13. p \in Ops => Answers(p, st, All)
  BY <1>4
<1>14. st.job <= Len(made)
  BY <1>1, <1>5 DEF CTyped
<1> QED
  BY <1>2, <1>4, <1>6, <1>7, <1>8, <1>10, <1>11, <1>12, <1>13, <1>14, SayKeeps

-----------------------------------------------------------------------------
(* A group of drives is submitted.                                           *)
\* The pass after a group, field by field.
LEMMA RunForm ==
  ASSUME CtlIs(ctl), NEW u, NEW r
  PROVE  [ctl EXCEPT !.run = u, !.recs = r] =
           [pc |-> ctl.pc, seen |-> ctl.seen, todo |-> ctl.todo, cur |-> ctl.cur, run |-> u, recs |-> r, patch |-> ctl.patch]
<1>1. PICK c : c = ctl
  OBVIOUS
<1>2. c = [pc |-> c.pc, seen |-> c.seen, todo |-> c.todo, cur |-> c.cur, run |-> c.run, recs |-> c.recs, patch |-> c.patch]
  BY <1>1 DEF CtlIs
<1>3. PICK z : z = [c EXCEPT !.run = u, !.recs = r]
  OBVIOUS
<1>4. z = [pc |-> c.pc, seen |-> c.seen, todo |-> c.todo, cur |-> c.cur, run |-> u, recs |-> r, patch |-> c.patch]
  BY <1>2, <1>3
<1> QED
  BY <1>1, <1>3, <1>4
\* The records of a group name its job.
Regrouped(r, p, group, w, k) ==
  r = [d \in Drives |-> IF d \in group THEN [state |-> w[d], gen |-> ctl.seen[p].gen, job |-> k] ELSE ctl.recs[d]]

\* The group is done, and the pass typed.
LEMMA GroupIs ==
  ASSUME CTyped, ctl.pc = "submit", UNCHANGED <<uid>>, NEW p, p = ctl.cur, NEW group \in SUBSET ctl.run, NEW k \in 0..MaxJobs, NEW w,
         \A d \in group : w[d] \in Words, NEW u, u = ctl.run \ group,
         NEW r, Regrouped(r, p, group, w, k),
         ctl' = [pc |-> ctl.pc, seen |-> ctl.seen, todo |-> ctl.todo, cur |-> ctl.cur, run |-> u, recs |-> r, patch |-> ctl.patch]
  PROVE  CtlIs(ctl)' /\ Placed(ctl)' /\ GroupDone(p, k, group)
<1>1. CtlIs(ctl) /\ Placed(ctl)
  BY DEF CTyped
<1>2. p \in ctl.todo /\ p \in DOMAIN ctl.seen /\ ctl.recs \in [Drives -> Parts] /\ ctl.run \subseteq Drives
  BY AtSubmit
<1>3. PICK g : g = ctl.seen[p].gen
  OBVIOUS
<1>4. g \in 1..MaxGen
  BY <1>2, <1>3, SeenIs
<1> DEFINE c == ctl
<1>5. \A d \in group : [state |-> w[d], job |-> k, gen |-> g] \in Parts /\ [state |-> w[d], job |-> k, gen |-> g] # None
  BY <1>4, PartMade
<1>6. \A d \in Drives : r[d] = IF d \in group THEN [state |-> w[d], job |-> k, gen |-> g] ELSE ctl.recs[d]
  BY <1>3 DEF Regrouped
<1>7. r \in [Drives -> Parts]
  <2>1. \A d \in Drives : r[d] \in Parts
    <3> TAKE d \in Drives
    <3>1. CASE d \in group
      BY <1>5, <1>6, <3>1
    <3>2. CASE d \notin group
      BY <1>2, <1>6, <3>2
    <3> QED
      BY <3>1, <3>2
  <2> QED
    BY <2>1 DEF Regrouped
<1>8. \A d \in group : r[d] # None /\ r[d].gen = g /\ r[d].job = k
  <2> TAKE d \in group
  <2>1. d \in Drives
    BY <1>2
  <2>2. r[d] = [state |-> w[d], job |-> k, gen |-> g] /\ r[d] # None
    BY <1>5, <1>6, <2>1
  <2> QED
    BY <2>2
<1>9. \A d \in Drives : d \notin group => r[d] = ctl.recs[d]
  BY <1>6
<1>12. u \subseteq Drives /\ u = ctl.run \ group
  BY <1>2
<1> HIDE DEF c
<1>13. ctl' = [pc |-> c.pc, seen |-> c.seen, todo |-> c.todo, cur |-> c.cur, run |-> u, recs |-> r, patch |-> c.patch]
  BY DEF c
<1>14. /\ ctl'.pc = c.pc /\ ctl'.seen = c.seen /\ ctl'.todo = c.todo /\ ctl'.cur = c.cur /\ ctl'.run = u /\ ctl'.recs = r /\ ctl'.patch = c.patch
       /\ ctl' = [pc |-> ctl'.pc, seen |-> ctl'.seen, todo |-> ctl'.todo, cur |-> ctl'.cur, run |-> ctl'.run,
                  recs |-> ctl'.recs, patch |-> ctl'.patch]
  BY <1>13, CtlMade
<1>15. CtlIs(ctl)'
  <2>1. \A m \in DOMAIN ctl.seen : ObjectIs(ctl.seen[m])'
    BY <1>1, <1>14 DEF CtlIs, ObjectIs, c
  <2> QED
    BY <1>1, <1>7, <1>12, <1>14, <2>1 DEF CtlIs, c
<1>16. Placed(ctl)'
  BY <1>1, <1>14 DEF Placed, c
<1>17. GroupDone(p, k, group)
  BY <1>3, <1>7, <1>8, <1>9, <1>12, <1>14 DEF GroupDone, c
<1> QED
  BY <1>15, <1>16, <1>17

\* A group is submitted.
LEMMA SubmitKeeps == ASSUME IInv, NEW odd \in BOOLEAN, Submit(odd) PROVE IInv'
<1>1. CTyped /\ KeptJobs
  BY DEF IInv, JobsInv
<1> DEFINE p == ctl.cur
           grp == {d \in ctl.run : (rec[d].odd /\ ctl.seen[p].spec.reformat) = odd}
           steps == PolSteps(p)
           oks == {d \in grp : Guard(rec[d], steps[d], FALSE)}
<1>2. ctl.pc = "submit" /\ UNCHANGED <<objs, allowed, rec, told, probed, uid, limit, spent>>
  BY DEF Submit
<1>3. SpentMore /\ (Troubled => Troubled')
  BY <1>1, <1>2, Spending
<1>4. p \in ctl.todo /\ p \in Policies /\ p # None /\ p \in DOMAIN ctl.seen /\ p \in Names /\ ctl.run \subseteq Drives
  BY <1>1, <1>2, AtSubmit DEF Names
<1>5. PICK q, group, ok, w, k :
        /\ q = p /\ group = grp /\ ok = oks
        /\ w = [d \in group |-> IF ok = {} THEN "refused" ELSE jobs'[Len(made) + 1].dj[d]]
        /\ k = IF ok = {} THEN 0 ELSE Len(made) + 1
  OBVIOUS
<1>6. group \in SUBSET ctl.run /\ ok \in SUBSET group /\ group \in SUBSET Drives
  BY <1>4, <1>5
<1>7. IF ok = {} THEN UNCHANGED <<jobs, made>> ELSE Make(q, group, ok)
  BY <1>5 DEF Submit
<1>8. PICK u, r : /\ u = ctl.run \ group
                  /\ Regrouped(r, q, group, w, k)
                  /\ ctl' = [pc |-> ctl.pc, seen |-> ctl.seen, todo |-> ctl.todo, cur |-> ctl.cur, run |-> u, recs |-> r, patch |-> ctl.patch]
  <2>1. ctl' = [ctl EXCEPT !.run = @ \ group,
                           !.recs = [d \in Drives |->
                             IF d \in group
                             THEN [state |-> IF ok = {} THEN "refused" ELSE jobs'[Len(made) + 1].dj[d], gen |-> ctl.seen[q].gen,
                                   job |-> IF ok = {} THEN 0 ELSE Len(made) + 1]
                             ELSE @[d]]]
    BY <1>5 DEF Submit
  <2> HIDE DEF p, grp, oks
  <2>2. \A d \in group : w[d] = IF ok = {} THEN "refused" ELSE jobs'[Len(made) + 1].dj[d]
    BY <1>5
  <2>3. PICK u, r : /\ u = ctl.run \ group
                    /\ r = [d \in Drives |-> IF d \in group THEN [state |-> w[d], gen |-> ctl.seen[q].gen, job |-> k] ELSE ctl.recs[d]]
    OBVIOUS
  <2>4. ctl' = [ctl EXCEPT !.run = u, !.recs = r]
    BY <1>5, <2>1, <2>2, <2>3
  <2>5. ctl' = [pc |-> ctl.pc, seen |-> ctl.seen, todo |-> ctl.todo, cur |-> ctl.cur, run |-> u, recs |-> r, patch |-> ctl.patch]
    BY <1>1, <2>4, RunForm DEF CTyped
  <2> QED
    BY <2>3, <2>5 DEF Regrouped
<1> HIDE DEF p, grp, oks, steps
<1> HIDE DEF p, grp, oks
<1>12. q = ctl.cur /\ uid' = uid
  BY <1>2, <1>5 DEF p
<1>9. told' \in [Names -> (Statuses \X SUBSET All) \cup {None}] /\ probed' \subseteq Policies \X Drives
  BY <1>1, <1>2 DEF CTyped
<1>10. CASE ok = {}
  <2>1. k = 0 /\ UNCHANGED <<jobs, made>> /\ k \in 0..MaxJobs
    BY <1>5, <1>7, <1>10, Zeros
  <2>2. \A d \in group : w[d] \in Words
    <3>1. \A d \in group : w[d] = "refused"
      BY <1>5, <1>10
    <3> QED
      BY <3>1 DEF Words, Ended
  <2>3. CtlIs(ctl)' /\ Placed(ctl)' /\ GroupDone(q, k, group)
    BY <1>1, <1>2, <1>6, <1>8, <1>12, <2>1, <2>2, GroupIs
  <2>4. jobs' \in [Jobs -> JobSet]
    BY <1>1, <2>1 DEF CTyped
  <2>5. CTyped'
    BY <1>1, <1>2, <1>3, <1>9, <2>1, <2>3, <2>4, MadeStands, ObjsStand, PassTyped
  <2> QED
    BY <1>2, <1>3, <1>5, <2>1, <2>3, <2>5, <1>12, GroupKeeps
<1>11. CASE ok # {}
  <2>1. k = Len(made) + 1 /\ Make(q, group, ok)
    BY <1>5, <1>7, <1>11
  <2>2. q \in Names \cup {None} /\ q \in DOMAIN ctl.seen
    BY <1>4, <1>5
  <2>3. MadeJob(k, q, group, ok)
    BY <1>1, <1>6, <1>11, <2>1, <2>2, MakeIs
  <2>4. made' \in Seq(MadeSet) /\ Len(made') <= MaxJobs /\ jobs' \in [Jobs -> JobSet]
    BY <1>1, <2>3, MadeTyped
  <2>5. k \in 0..MaxJobs
    <3>1. k \in Jobs
      BY <2>3 DEF MadeJob
    <3> QED
      BY <3>1, ConstantsHold DEF Jobs
  <2>6. \A d \in group : w[d] \in Words
    <3> TAKE d \in group
    <3>1. w[d] = jobs'[k].dj[d] /\ d \in Drives
      BY <1>5, <1>6, <1>11, <2>1
    <3>2. w[d] = "queued" \/ w[d] = "refused"
      BY <2>3, <3>1 DEF MadeJob
    <3> QED
      BY <3>2 DEF Words, Ended
  <2>7. CtlIs(ctl)' /\ Placed(ctl)' /\ GroupDone(q, k, group)
    BY <1>1, <1>2, <1>6, <1>8, <1>12, <2>5, <2>6, GroupIs
  <2>8. CTyped'
    BY <1>1, <1>2, <1>3, <1>9, <2>4, <2>7, ObjsStand, PassTyped
  <2> QED
    BY <1>2, <1>3, <1>5, <1>6, <2>3, <2>7, <2>8, <1>12, GroupKeeps
<1> QED
  BY <1>10, <1>11

-----------------------------------------------------------------------------
(* What the controller decides of a policy's drives.                         *)
\* What the controller decides of a policy's drives.
Recs(p) == Kept(p, Followed(p, ResumedJobs(p)))
\* ... of each drive,
Dec(p, d) == IF d \in Selected(p) THEN Decision(p, ResumedJobs(p), Recs(p), d) ELSE "pass"
\* ... the drives that are run,
RunOf(p) == {d \in Drives : Dec(p, d) = "run"}
\* ... the records that are told,
NowOf(p) == [d \in Drives |-> IF Dec(p, d) \in {"skip", "probe"} THEN SkipRecord(p) ELSE Recs(p)[d]]
\* ... and those of a dry run.
PlanOf(p) == [d \in Drives |-> IF d \in RunOf(p) THEN [SkipRecord(p) EXCEPT !.state = "planned"] ELSE NowOf(p)[d]]
\* The record of a drive as the pass saw it.
SeenPart(p, d) == ctl.seen[p].status.drives[d]

\* Decide, in these words.
LEMMA DecideIs ==
  ASSUME NEW p, Decide(p)
  PROVE  /\ AtPolicy(p) /\ Asked(p, "yes")
         /\ jobs' = IF ResumedJobs(p) = jobs THEN jobs ELSE Saved(ResumedJobs(p))
         /\ probed' \subseteq probed \cup ({p} \X Drives)
         /\ \/ \E ph \in {"Suspended", "Waiting"} : Say(p, PolicyStatus(p, ph, NowOf(p)), All)
            \/ Say(p, PolicyStatus(p, "Planned", PlanOf(p)), All)
            \/ /\ ~ctl.seen[p].spec.suspend
               /\ ctl' = [ctl EXCEPT !.pc = "submit", !.cur = p, !.run = RunOf(p), !.recs = NowOf(p)]
         /\ UNCHANGED <<objs, allowed, rec, told, made, uid, limit>>
<1> DEFINE js == ResumedJobs(p)
           recs == Kept(p, Followed(p, js))
           dec == [d \in Drives |-> IF d \in Selected(p) THEN Decision(p, js, recs, d) ELSE "pass"]
           run == {d \in Drives : dec[d] = "run"}
           now == [d \in Drives |-> IF dec[d] \in {"skip", "probe"} THEN SkipRecord(p) ELSE recs[d]]
           plan == [d \in Drives |-> IF d \in run THEN [SkipRecord(p) EXCEPT !.state = "planned"] ELSE now[d]]
<1>1. /\ AtPolicy(p) /\ Asked(p, "yes") /\ UNCHANGED <<objs, allowed, rec, told, made, uid, limit>>
      /\ jobs' = IF js = jobs THEN jobs ELSE Saved(js)
      /\ probed' = (probed \cup {<<p, d>> : d \in {x \in Drives : dec[x] = "probe"}}) \ {<<p, d>> : d \in run}
  BY DEF Decide
<1>2. \/ \E ph \in {"Suspended", "Waiting"} : Say(p, PolicyStatus(p, ph, now), All)
      \/ Say(p, PolicyStatus(p, "Planned", plan), All)
      \/ /\ ~ctl.seen[p].spec.suspend
         /\ ctl' = [ctl EXCEPT !.pc = "submit", !.cur = p, !.run = run, !.recs = now]
  BY DEF Decide
<1>3. recs = Recs(p)
  BY DEF Recs
<1> HIDE DEF js, recs
<1>4. \A d \in Drives : dec[d] = Dec(p, d)
  BY <1>3 DEF Dec, js
<1> HIDE DEF dec
<1>5. run = RunOf(p)
  BY <1>4 DEF RunOf
<1>6. now = NowOf(p)
  BY <1>3, <1>4 DEF NowOf
<1>7. probed' \subseteq probed \cup ({p} \X Drives)
  BY <1>1
<1> HIDE DEF run, now
<1>8. plan = PlanOf(p)
  BY <1>5, <1>6 DEF PlanOf
<1> QED
  BY <1>1, <1>2, <1>5, <1>6, <1>7, <1>8 DEF js

\* The jobs that its records name are resumed.
LEMMA ResumedJobsIs ==
  ASSUME CTyped, NEW p
  PROVE  /\ ResumedJobs(p) \in [Jobs -> JobSet]
         /\ \A j \in Jobs : ResumedJobs(p)[j] = IF j \in FollowedJobs(p) /\ ~ctl.seen[p].spec.suspend THEN Resumed(jobs[j]) ELSE jobs[j]
<1>1. \A j \in Jobs : jobs[j] \in JobSet /\ Resumed(jobs[j]) \in JobSet
  BY ResumedIs DEF CTyped
<1> QED
  BY <1>1 DEF ResumedJobs

\* The jobs followed are the kept ones that the records name.
LEMMA FollowedJobIs ==
  ASSUME CTyped, NEW p \in ctl.todo, NEW j \in Jobs
  PROVE  j \in FollowedJobs(p) <=> jobs[j].kept /\ RefIn(ctl.seen[p].status.drives, j)
BY DEF FollowedJobs, RefIn

\* Resumed, they go on.
LEMMA ResumedJobsGo ==
  ASSUME IInv, NEW p \in ctl.todo, jobs' = IF ResumedJobs(p) = jobs THEN jobs ELSE Saved(ResumedJobs(p))
  PROVE  JobsGo /\ jobs' \in [Jobs -> JobSet]
<1>1. CTyped /\ KeptJobs
  BY DEF IInv, JobsInv
<1>2. PICK js : js = ResumedJobs(p)
  OBVIOUS
<1>3. js \in [Jobs -> JobSet]
      /\ \A j \in Jobs : js[j] = IF j \in FollowedJobs(p) /\ ~ctl.seen[p].spec.suspend THEN Resumed(jobs[j]) ELSE jobs[j]
  BY <1>1, <1>2, ResumedJobsIs
<1>4. \A j \in Jobs : GoesTo(j, js[j])
  <2> TAKE j \in Jobs
  <2>1. CASE j \in FollowedJobs(p) /\ ~ctl.seen[p].spec.suspend
    <3>1. jobs[j].kept /\ RefIn(ctl.seen[p].status.drives, j) /\ p \in DOMAIN ctl.seen
      BY <1>1, <2>1, FollowedJobIs, SeenIs
    <3>2. Ref(j)
      BY <3>1 DEF Ref
    <3>3. GoesTo(j, Resumed(jobs[j]))
      BY <1>1, <3>1, <3>2, ResumedGoes
    <3> QED
      BY <1>3, <2>1, <3>3
  <2>2. CASE ~(j \in FollowedJobs(p) /\ ~ctl.seen[p].spec.suspend)
    BY <1>1, <1>3, <2>2, GoesSame
  <2> QED
    BY <2>1, <2>2
<1>5. jobs' = Saved(js) \/ jobs' = js
  BY <1>2
<1> QED
  BY <1>3, <1>4, <1>5, GoesSaved

\* What becomes of a record.
LEMMA RecsIs ==
  ASSUME CTyped, NEW p \in ctl.todo, NEW d \in Drives
  PROVE  /\ Recs(p)[d] \in Parts
         /\ SeenPart(p, d) = None => Recs(p)[d] = None
         /\ Recs(p)[d] # None => /\ SeenPart(p, d) # None /\ Recs(p)[d].job = SeenPart(p, d).job
                                 /\ Recs(p)[d].gen = SeenPart(p, d).gen
         /\ \A j \in Jobs : SeenPart(p, d) # None /\ SeenPart(p, d).job = j /\ ResumedJobs(p)[j].kept
                            /\ ResumedJobs(p)[j].dj[d] # "absent" =>
              Recs(p)[d] # None /\ Recs(p)[d].state = ResumedJobs(p)[j].dj[d]
<1>1. PICK js, r, f : js = ResumedJobs(p) /\ r = SeenPart(p, d) /\ f = Followed(p, js)[d]
  OBVIOUS
<1>2. js \in [Jobs -> JobSet]
  BY <1>1, ResumedJobsIs
<1>3. r \in Parts
  BY <1>1, SeenIs DEF SeenPart
<1>4. f = IF r # None /\ r.job # 0 /\ js[r.job].kept /\ js[r.job].dj[d] # "absent" THEN [r EXCEPT !.state = js[r.job].dj[d]] ELSE r
  BY <1>1 DEF Followed, SeenPart
<1>5. Recs(p)[d] = IF d \notin Selected(p) /\ f # None /\ f.job = 0 THEN None ELSE f
  BY <1>1 DEF Recs, Kept
<1>6. CASE r = None
  <2>1. f = None
    BY <1>4, <1>6
  <2> QED
    BY <1>1, <1>5, <1>6, <2>1 DEF Parts
<1>7. CASE r # None /\ ~(r.job # 0 /\ js[r.job].kept /\ js[r.job].dj[d] # "absent")
  <2>1. f = r
    BY <1>4, <1>7
  <2>2. Recs(p)[d] \in {f, None}
    BY <1>5
  <2>3. \A j \in Jobs : ~(r.job = j /\ js[j].kept /\ js[j].dj[d] # "absent")
    <3>1. 0 \notin Jobs
      BY DEF Jobs
    <3> QED
      BY <1>7, <3>1
  <2> QED
    BY <1>1, <1>3, <1>7, <2>1, <2>2, <2>3 DEF Parts
<1>8. CASE r # None /\ r.job # 0 /\ js[r.job].kept /\ js[r.job].dj[d] # "absent"
  <2>1. PICK w : w = js[r.job].dj[d]
    OBVIOUS
  <2>2. r = [state |-> r.state, job |-> r.job, gen |-> r.gen] /\ r.job \in 0..MaxJobs /\ r.gen \in 1..MaxGen
    BY <1>3, <1>8, PartIs
  <2>3. r.job \in Jobs
    BY <1>8, <2>2, ConstantsHold DEF Jobs
  <2>4. w \in Words
    <3>1. js[r.job].dj \in [Drives -> DjStates]
      BY <1>2, <2>3, JobFields
    <3>2. w \in DjStates /\ w # "absent"
      BY <1>8, <2>1, <3>1
    <3> QED
      BY <3>2 DEF DjStates, Words
  <2>5. f = [r EXCEPT !.state = w]
    BY <1>4, <1>8, <2>1
  <2>6. f = [state |-> w, job |-> r.job, gen |-> r.gen]
    BY <2>2, <2>5
  <2>7. f \in Parts /\ f # None
    BY <2>2, <2>4, <2>6, PartMade
  <2>8. f.state = w /\ f.job = r.job /\ f.gen = r.gen
    BY <2>6
  <2>9. Recs(p)[d] = f
    BY <1>5, <1>8, <2>8
  <2> QED
    BY <1>1, <1>8, <2>1, <2>7, <2>8, <2>9
<1> QED
  BY <1>6, <1>7, <1>8
\* A record that a pass carries on: it was seen, or it names no job.
Carried(p, recs) ==
  \A d \in Drives : recs[d] # None =>
    \/ recs[d].gen = ctl.seen[p].gen /\ recs[d].job = 0
    \/ SeenPart(p, d) # None /\ recs[d].job = SeenPart(p, d).job /\ recs[d].gen = SeenPart(p, d).gen

\* Such records are harmless,
LEMMA CarriedIsHarmless ==
  ASSUME NEW p, NEW recs, Carried(p, recs) PROVE HarmlessTo(p, recs)
<1> SUFFICES ASSUME NEW i \in MadeOf, NEW d \in Drives, Match(ctl.seen[p], i), RecordOK(SeenPart(p, d), i)
             PROVE  Harmless(recs[d], i)
  BY DEF HarmlessTo, SeenPart
<1>1. ctl.seen[p].gen = made[i].gen
  BY DEF Match
<1>2. SeenPart(p, d).job = i /\ SeenPart(p, d).gen = made[i].gen
  BY DEF RecordOK
<1>3. PICK r : r = recs[d]
  OBVIOUS
<1>4. r # None => \/ r.gen = ctl.seen[p].gen /\ r.job = 0
                  \/ SeenPart(p, d) # None /\ r.job = SeenPart(p, d).job /\ r.gen = SeenPart(p, d).gen
  BY <1>3 DEF Carried
<1>5. r # None => r.gen = made[i].gen /\ (r.job = 0 \/ r.job = i)
  BY <1>1, <1>2, <1>4
<1> QED
  BY <1>3, <1>5 DEF Harmless

\* ... and name only what is named.
LEMMA CarriedIsTold ==
  ASSUME IInv, NEW p \in ctl.todo, NEW recs, Carried(p, recs) PROVE ToldOf(p, recs)
<1>1. CTyped /\ RefInv /\ p \in DOMAIN ctl.seen
  BY SeenIs DEF IInv
<1>2. Len(made) \in Nat
  BY <1>1 DEF CTyped
<1>3. RefsFine(p, ctl.seen[p].status.drives)
  BY <1>1 DEF RefInv
<1>4. ASSUME NEW d \in Drives, recs[d] # None
      PROVE  /\ recs[d].job \in 0..Len(made)
             /\ recs[d].job # 0 => jobs[recs[d].job].owner \in {p, None}
  <2>1. \/ recs[d].job = 0
        \/ SeenPart(p, d) # None /\ recs[d].job = SeenPart(p, d).job
    BY <1>4 DEF Carried
  <2>2. CASE recs[d].job = 0
    BY <1>2, <2>2
  <2>3. CASE SeenPart(p, d) # None /\ recs[d].job = SeenPart(p, d).job
    BY <1>3, <2>3 DEF RefsFine, SeenPart
  <2> QED
    BY <2>1, <2>2, <2>3
<1>5. ASSUME NEW j \in Jobs, RefIn(recs, j) PROVE Ref(j)
  <2>1. PICK d \in Drives : recs[d] # None /\ recs[d].job = j
    BY <1>5 DEF RefIn
  <2>2. j # 0
    BY DEF Jobs
  <2>3. SeenPart(p, d) # None /\ SeenPart(p, d).job = j
    BY <2>1, <2>2 DEF Carried
  <2> QED
    BY <1>1, <2>3 DEF Ref, RefIn, SeenPart
<1> QED
  BY <1>4, <1>5 DEF ToldOf, RefsFine

\* The records that a pass makes.
LEMMA SkipIs ==
  ASSUME CTyped, NEW p \in ctl.todo
  PROVE  /\ SkipRecord(p) \in Parts /\ SkipRecord(p).gen = ctl.seen[p].gen /\ SkipRecord(p).job = 0
         /\ [SkipRecord(p) EXCEPT !.state = "planned"] \in Parts
         /\ [SkipRecord(p) EXCEPT !.state = "planned"].gen = ctl.seen[p].gen /\ [SkipRecord(p) EXCEPT !.state = "planned"].job = 0
<1>1. PICK g, z, s, l : g = ctl.seen[p].gen /\ z = 0 /\ s = "skipped" /\ l = "planned"
  OBVIOUS
<1>2. g \in 1..MaxGen /\ z \in 0..MaxJobs /\ s \in Words /\ l \in Words
  BY <1>1, SeenIs, Zeros DEF Words
<1>3. PICK a, b : a = SkipRecord(p) /\ b = [a EXCEPT !.state = l]
  OBVIOUS
<1>4. a = [state |-> s, job |-> z, gen |-> g]
  BY <1>1, <1>3 DEF SkipRecord
<1>5. b = [state |-> l, job |-> z, gen |-> g]
  BY <1>3, <1>4
<1>6. a \in Parts /\ b \in Parts
  BY <1>2, <1>4, <1>5, PartMade
<1>7. a.gen = g /\ a.job = z /\ b.gen = g /\ b.job = z
  BY <1>4, <1>5
<1> QED
  BY <1>1, <1>3, <1>6, <1>7

\* They are such records.
LEMMA NowIs ==
  ASSUME CTyped, NEW p \in ctl.todo
  PROVE  NowOf(p) \in [Drives -> Parts] /\ Carried(p, NowOf(p)) /\ PlanOf(p) \in [Drives -> Parts] /\ Carried(p, PlanOf(p))
<1>1. PICK a, b : a = SkipRecord(p) /\ b = [a EXCEPT !.state = "planned"]
  OBVIOUS
<1>2. a \in Parts /\ b \in Parts /\ a.gen = ctl.seen[p].gen /\ b.gen = ctl.seen[p].gen /\ a.job = 0 /\ b.job = 0
  BY <1>1, SkipIs
<1>3. PICK now, plan : now = NowOf(p) /\ plan = PlanOf(p)
  OBVIOUS
<1>4. \A d \in Drives : now[d] = a \/ now[d] = Recs(p)[d]
  BY <1>1, <1>3 DEF NowOf
<1>5. \A d \in Drives : plan[d] = b \/ plan[d] = now[d]
  BY <1>1, <1>3 DEF PlanOf
<1>6. now = [d \in Drives |-> now[d]] /\ plan = [d \in Drives |-> plan[d]]
  BY <1>3 DEF NowOf, PlanOf
<1>7. \A d \in Drives : Recs(p)[d] \in Parts
  BY RecsIs
<1>8. Carried(p, now)
  <2> SUFFICES ASSUME NEW d \in Drives, now[d] # None
               PROVE  \/ now[d].gen = ctl.seen[p].gen /\ now[d].job = 0
                      \/ SeenPart(p, d) # None /\ now[d].job = SeenPart(p, d).job /\ now[d].gen = SeenPart(p, d).gen
    BY DEF Carried
  <2>1. CASE now[d] = a
    BY <1>2, <2>1
  <2>2. CASE now[d] = Recs(p)[d]
    BY <2>2, RecsIs
  <2> QED
    BY <1>4, <2>1, <2>2
<1>9. Carried(p, plan)
  <2> SUFFICES ASSUME NEW d \in Drives, plan[d] # None
               PROVE  \/ plan[d].gen = ctl.seen[p].gen /\ plan[d].job = 0
                      \/ SeenPart(p, d) # None /\ plan[d].job = SeenPart(p, d).job /\ plan[d].gen = SeenPart(p, d).gen
    BY DEF Carried
  <2>1. CASE plan[d] = b
    BY <1>2, <2>1
  <2>2. CASE plan[d] = now[d]
    BY <1>8, <2>2 DEF Carried
  <2> QED
    BY <1>5, <2>1, <2>2
<1>10. \A d \in Drives : now[d] \in Parts
  BY <1>2, <1>4, <1>7
<1>11. \A d \in Drives : plan[d] \in Parts
  BY <1>2, <1>5, <1>10
<1>12. now \in [Drives -> Parts] /\ plan \in [Drives -> Parts]
  BY <1>6, <1>10, <1>11
<1> QED
  BY <1>3, <1>8, <1>9, <1>12
\* What the drives that a policy is to run on are not.
LEMMA RunIs ==
  ASSUME NEW p, NEW d \in RunOf(p)
  PROVE  /\ d \in Drives /\ ~RetryBlocked(Recs(p)[d], ctl.seen[p].gen)
         /\ \A j \in Jobs : ResumedJobs(p)[j].dj[d] \notin {"queued", "running"}
<1>1. d \in Drives /\ Dec(p, d) = "run"
  BY DEF RunOf
<1>2. Decision(p, ResumedJobs(p), Recs(p), d) = "run"
  BY <1>1 DEF Dec
<1> DEFINE inJob == \E j \in Jobs : ResumedJobs(p)[j].dj[d] \in {"queued", "running"}
           v == Verdict(ctl.seen[p].spec.reformat, rec[d], inJob)
<1>3. v = "run"
  BY <1>2 DEF Decision
<1>4. ~Blocked(p, Recs(p), d)
  BY <1>2, <1>3 DEF Decision
<1>5. ~inJob
  BY <1>3 DEF Verdict
<1> QED
  BY <1>1, <1>4, <1>5 DEF Blocked

\* What following does to a job: nothing that was interrupted stays so, unless it was cancelled.
LEMMA FollowedResumes ==
  ASSUME CTyped, KeptJobs, NEW p \in ctl.todo, ~ctl.seen[p].spec.suspend, NEW j \in Jobs, NEW d \in Drives
  PROVE  /\ ResumedJobs(p)[j].kept = jobs[j].kept /\ ResumedJobs(p)[j].cancel = jobs[j].cancel
         /\ ResumedJobs(p)[j].owner = jobs[j].owner
         /\ ResumedJobs(p)[j].dj[d] = jobs[j].dj[d]
            \/ (jobs[j].dj[d] = "interrupted" /\ ResumedJobs(p)[j].dj[d] = "queued")
         /\ j \in FollowedJobs(p) /\ ~jobs[j].cancel => ResumedJobs(p)[j].dj[d] # "interrupted"
<1>1. jobs[j] \in JobSet
  BY DEF CTyped
<1>2. PICK b : b = ResumedJobs(p)[j]
  OBVIOUS
<1>3. CASE j \in FollowedJobs(p)
  <2>1. b = Resumed(jobs[j])
    BY <1>2, <1>3, ResumedJobsIs
  <2>2. CASE jobs[j].cancel
    <3>1. b = jobs[j]
      BY <1>1, <2>1, <2>2, ResumedIs
    <3> QED
      BY <1>2, <2>2, <3>1
  <2>3. CASE ~jobs[j].cancel
    <3>1. b.dj[d] = IF jobs[j].dj[d] = "interrupted" THEN "queued" ELSE jobs[j].dj[d]
      BY <1>1, <2>1, <2>3, ResumedIs
    <3>2. b.kept = jobs[j].kept /\ b.cancel = jobs[j].cancel /\ b.owner = jobs[j].owner
      BY <1>1, <2>1, ResumedIs
    <3> QED
      BY <1>2, <3>1, <3>2
  <2> QED
    BY <2>2, <2>3
<1>4. CASE j \notin FollowedJobs(p)
  <2>1. b = jobs[j]
    BY <1>2, <1>4, ResumedJobsIs
  <2> QED
    BY <1>2, <1>4, <2>1
<1> QED
  BY <1>3, <1>4
\* A drive it failed on under this generation is not one of them.
LEMMA NotRunAgain ==
  ASSUME IInv, NEW p \in ctl.todo, ~ctl.seen[p].spec.suspend, NEW i \in MadeOf, NEW d \in RunOf(p),
         Holding(i, d), Match(ctl.seen[p], i), RecordOK(SeenPart(p, d), i)
  PROVE  Troubled
<1> SUFFICES ASSUME ~Troubled PROVE FALSE
  OBVIOUS
<1>1. CTyped /\ KeptJobs /\ HeldStates /\ CancelledStay
  BY DEF IInv, JobsInv
<1>2. i \in Jobs /\ d \in Drives /\ jobs[i].kept
  BY <1>1, MadeFields, RunIs DEF Holding
<1>3. PICK a, b : a = jobs[i] /\ b = ResumedJobs(p)[i]
  OBVIOUS
<1>4. a.dj[d] \in Held
  BY <1>1, <1>2, <1>3 DEF HeldStates, Holding
<1>5. SeenPart(p, d) # None /\ SeenPart(p, d).job = i /\ SeenPart(p, d).gen = made[i].gen
  BY DEF RecordOK
<1>6. i \in FollowedJobs(p)
  BY <1>1, <1>2, <1>5, FollowedJobIs DEF RefIn, SeenPart
<1>7. /\ b.kept /\ (b.dj[d] = a.dj[d] \/ (a.dj[d] = "interrupted" /\ b.dj[d] = "queued"))
      /\ ~a.cancel => b.dj[d] # "interrupted"
  BY <1>1, <1>2, <1>3, <1>6, FollowedResumes
<1>8. b.dj[d] \notin {"queued", "running"}
  BY <1>2, <1>3, RunIs
<1>9. a.cancel => a.dj[d] # "interrupted"
  BY <1>1, <1>2, <1>3 DEF CancelledStay
<1>10. b.dj[d] \in {"failed", "cancelled"}
  BY <1>4, <1>7, <1>8, <1>9 DEF Held
<1>11. b.dj[d] # "absent"
  BY <1>10
<1>12. Recs(p)[d] # None /\ Recs(p)[d].state = b.dj[d] /\ Recs(p)[d].gen = SeenPart(p, d).gen
  BY <1>1, <1>2, <1>3, <1>5, <1>7, <1>11, RecsIs
<1>13. Recs(p)[d].gen = ctl.seen[p].gen
  BY <1>5, <1>12 DEF Match
<1>14. Recs(p)[d].state \in GivenUp
  BY <1>10, <1>12 DEF GivenUp
<1>15. RetryBlocked(Recs(p)[d], ctl.seen[p].gen)
  BY <1>12, <1>13, <1>14 DEF RetryBlocked
<1> QED
  BY <1>15, RunIs
\* Nor one that a job of the policy has, but one that nobody will resume.
LEMMA NamedBySeen ==
  ASSUME IInv, NEW p \in ctl.todo \cap Policies, ctl.pc = "policies", NEW j \in Jobs, jobs[j].owner = p, Ref(j)
  PROVE  RefIn(ctl.seen[p].status.drives, j)
<1>1. CTyped /\ UidsInv /\ RefInv /\ p \in DOMAIN ctl.seen /\ p # None /\ j # 0
  BY SeenIs, ConstantsHold DEF IInv, Names, Jobs
<1>2. ASSUME NEW n, NEW drives, RefsFine(n, drives), RefIn(drives, j) PROVE n = p
  BY <1>1, <1>2 DEF RefsFine, RefIn
<1>3. \/ \E n \in Names : objs[n] # None /\ RefIn(objs[n].status.drives, j)
      \/ \E n \in DOMAIN ctl.seen : RefIn(ctl.seen[n].status.drives, j)
  BY DEF Ref
<1>4. CASE \E n \in Names : objs[n] # None /\ RefIn(objs[n].status.drives, j)
  <2>1. PICK n \in Names : objs[n] # None /\ RefIn(objs[n].status.drives, j)
    BY <1>4
  <2>2. RefsFine(n, objs[n].status.drives)
    BY <1>1, <2>1 DEF RefInv
  <2>3. n = p
    BY <1>2, <2>1, <2>2
  <2>4. objs[p].status.drives = ctl.seen[p].status.drives \/ objs[p].status.drives = NoStatus.drives
    BY <1>1, <2>1, <2>3 DEF UidsInv, SeenCovers
  <2> QED
    BY <2>1, <2>3, <2>4, NoRefs
<1>5. CASE \E n \in DOMAIN ctl.seen : RefIn(ctl.seen[n].status.drives, j)
  <2>1. PICK n \in DOMAIN ctl.seen : RefIn(ctl.seen[n].status.drives, j)
    BY <1>5
  <2>2. RefsFine(n, ctl.seen[n].status.drives)
    BY <1>1, <2>1 DEF RefInv
  <2>3. n = p
    BY <1>2, <2>1, <2>2
  <2> QED
    BY <2>1, <2>3
<1> QED
  BY <1>3, <1>4, <1>5

\* So the drives that are run are free.
LEMMA RunIsFree ==
  ASSUME IInv, NEW p \in ctl.todo \cap Policies, ctl.pc = "policies", ~ctl.seen[p].spec.suspend,
         jobs' = IF ResumedJobs(p) = jobs THEN jobs ELSE Saved(ResumedJobs(p)),
         ctl'.cur = p, ctl'.run = RunOf(p), NoNewRefs
  PROVE  RunFree'
<1>1. CTyped /\ KeptJobs
  BY DEF IInv, JobsInv
<1>2. PICK js : js = ResumedJobs(p)
  OBVIOUS
<1>3. js \in [Jobs -> JobSet]
  BY <1>1, <1>2, ResumedJobsIs
<1>4. \A j \in Jobs : jobs'[j] = js[j] \/ jobs'[j] = NoJob
  BY <1>2, <1>3, SavedIs
<1> SUFFICES ASSUME NEW d \in RunOf(p), NEW j \in Jobs, jobs'[j].owner = p, Live(j, d)'
             PROVE  Lost(j, d)'
  BY DEF RunFree
<1>5. d \in Drives
  BY RunIs
<1>6. PICK b : b = jobs'[j]
  OBVIOUS
<1>7. b.dj[d] \in {"queued", "running"} \/ (b.dj[d] = "interrupted" /\ ~b.cancel)
  BY <1>6 DEF Live
<1>8. b # NoJob
  BY <1>5, <1>7, NoJobIs
<1>9. b = js[j]
  BY <1>4, <1>6, <1>8
<1>10. b.dj[d] = "interrupted" /\ ~b.cancel
  BY <1>2, <1>7, <1>9, RunIs
<1>11. b.kept = jobs[j].kept /\ b.cancel = jobs[j].cancel /\ b.owner = jobs[j].owner
       /\ (b.dj[d] = jobs[j].dj[d] \/ (jobs[j].dj[d] = "interrupted" /\ b.dj[d] = "queued"))
       /\ (j \in FollowedJobs(p) /\ ~jobs[j].cancel => b.dj[d] # "interrupted")
  BY <1>1, <1>2, <1>5, <1>9, FollowedResumes
<1>12. j \notin FollowedJobs(p) /\ jobs[j].dj[d] = "interrupted" /\ jobs[j].owner = p
  BY <1>6, <1>10, <1>11
<1>13. jobs[j].kept
  <2>1. jobs[j] # NoJob
    BY <1>5, <1>12, NoJobIs
  <2> QED
    BY <1>1, <2>1 DEF KeptJobs
<1>14. ~RefIn(ctl.seen[p].status.drives, j)
  BY <1>1, <1>12, <1>13, FollowedJobIs
<1>15. ~Ref(j)
  BY <1>12, <1>14, NamedBySeen
<1>16. ~Ref(j)'
  BY <1>15 DEF NoNewRefs
<1> QED
  BY <1>6, <1>10, <1>16 DEF Lost

\* The pass before a submission, field by field.
LEMMA SubmitForm ==
  ASSUME CtlIs(ctl), NEW q, NEW p, NEW u, NEW r
  PROVE  [ctl EXCEPT !.pc = q, !.cur = p, !.run = u, !.recs = r] =
           [pc |-> q, seen |-> ctl.seen, todo |-> ctl.todo, cur |-> p, run |-> u, recs |-> r, patch |-> ctl.patch]
<1>1. PICK c : c = ctl
  OBVIOUS
<1>2. c = [pc |-> c.pc, seen |-> c.seen, todo |-> c.todo, cur |-> c.cur, run |-> c.run, recs |-> c.recs, patch |-> c.patch]
  BY <1>1 DEF CtlIs
<1>3. PICK z : z = [c EXCEPT !.pc = q, !.cur = p, !.run = u, !.recs = r]
  OBVIOUS
<1>4. z = [pc |-> q, seen |-> c.seen, todo |-> c.todo, cur |-> p, run |-> u, recs |-> r, patch |-> c.patch]
  BY <1>2, <1>3
<1> QED
  BY <1>1, <1>3, <1>4

\* It is typed.
LEMMA SubmitTyped ==
  ASSUME CTyped, UNCHANGED <<objs, allowed, rec, told, made, uid, limit>>, SpentMore, jobs' \in [Jobs -> JobSet],
         probed' \subseteq Policies \X Drives, ctl.pc = "policies", NEW p \in ctl.todo,
         NEW q, q = "submit", NEW u \in SUBSET Drives, NEW r \in [Drives -> Parts],
         ctl' = [pc |-> q, seen |-> ctl.seen, todo |-> ctl.todo, cur |-> p, run |-> u, recs |-> r, patch |-> ctl.patch]
  PROVE  CTyped'
<1>1. CtlIs(ctl) /\ Placed(ctl)
  BY DEF CTyped
<1> DEFINE c == ctl
<1> HIDE DEF c
<1>2. ctl' = [pc |-> q, seen |-> c.seen, todo |-> c.todo, cur |-> p, run |-> u, recs |-> r, patch |-> c.patch]
  BY DEF c
<1>3. /\ ctl'.pc = q /\ ctl'.seen = c.seen /\ ctl'.todo = c.todo /\ ctl'.cur = p /\ ctl'.run = u /\ ctl'.recs = r /\ ctl'.patch = c.patch
      /\ ctl' = [pc |-> ctl'.pc, seen |-> ctl'.seen, todo |-> ctl'.todo, cur |-> ctl'.cur, run |-> ctl'.run,
                 recs |-> ctl'.recs, patch |-> ctl'.patch]
  BY <1>2, CtlMade
<1>4. q \in Pcs
  BY DEF Pcs
<1>5. CtlIs(ctl)'
  <2>1. \A m \in DOMAIN ctl.seen : ObjectIs(ctl.seen[m])'
    BY <1>1, <1>3 DEF CtlIs, ObjectIs, c
  <2> QED
    BY <1>1, <1>3, <1>4, <2>1 DEF CtlIs, c
<1>6. Placed(ctl)'
  BY <1>1, <1>3 DEF Placed, c
<1>7. told' \in [Names -> (Statuses \X SUBSET All) \cup {None}]
  BY DEF CTyped
<1> QED
  BY <1>5, <1>6, <1>7, MadeStands, ObjsStand, PassTyped

\* A policy's drives are decided.
LEMMA DecideKeeps == ASSUME IInv, NEW p \in Policies, Decide(p) PROVE IInv'
<1>1. CTyped /\ KeptJobs /\ Placed(ctl)
  BY DEF IInv, JobsInv, CTyped
<1>2. /\ AtPolicy(p) /\ Asked(p, "yes")
      /\ jobs' = IF ResumedJobs(p) = jobs THEN jobs ELSE Saved(ResumedJobs(p))
      /\ probed' \subseteq probed \cup ({p} \X Drives)
      /\ UNCHANGED <<objs, allowed, rec, told, made, uid, limit>>
  BY DecideIs
<1>3. \/ \E ph \in {"Suspended", "Waiting"} : Say(p, PolicyStatus(p, ph, NowOf(p)), All)
      \/ Say(p, PolicyStatus(p, "Planned", PlanOf(p)), All)
      \/ /\ ~ctl.seen[p].spec.suspend
         /\ ctl' = [ctl EXCEPT !.pc = "submit", !.cur = p, !.run = RunOf(p), !.recs = NowOf(p)]
  BY DecideIs
<1>4. p \in ctl.todo /\ p \in ctl.todo \cap Policies /\ ctl.pc = "policies" /\ ctl.cur = None
  BY <1>1, <1>2 DEF AtPolicy, Current, Placed
<1>5. (\E k \in Trouble : Spend(k)) \/ spent' = spent
  BY <1>2, AskedIs
<1>6. SpentMore /\ (Troubled => Troubled')
  BY <1>1, <1>5, Spending
<1>7. JobsGo /\ jobs' \in [Jobs -> JobSet]
  BY <1>2, <1>4, ResumedJobsGo
<1>8. probed' \subseteq Policies \X Drives
  BY <1>1, <1>2 DEF CTyped
<1>9. NowOf(p) \in [Drives -> Parts] /\ Carried(p, NowOf(p)) /\ PlanOf(p) \in [Drives -> Parts] /\ Carried(p, PlanOf(p))
  BY <1>1, <1>4, NowIs
<1>10. ASSUME NEW ph \in Phases, NEW recs \in [Drives -> Parts], Carried(p, recs), Say(p, PolicyStatus(p, ph, recs), All)
       PROVE  IInv'
  <2>1. HarmlessTo(p, recs) /\ ToldOf(p, recs)
    BY <1>4, <1>10, CarriedIsHarmless, CarriedIsTold
  <2>2. All \in SUBSET All
    OBVIOUS
  <2> QED
    BY <1>2, <1>4, <1>5, <1>7, <1>8, <1>10, <2>1, <2>2, PolicySaid
<1>11. CASE \E ph \in {"Suspended", "Waiting"} : Say(p, PolicyStatus(p, ph, NowOf(p)), All)
  <2>1. PICK ph \in {"Suspended", "Waiting"} : Say(p, PolicyStatus(p, ph, NowOf(p)), All)
    BY <1>11
  <2>2. ph \in Phases
    BY DEF Phases
  <2> QED
    BY <1>9, <1>10, <2>1, <2>2
<1>12. CASE Say(p, PolicyStatus(p, "Planned", PlanOf(p)), All)
  <2>1. PICK ph : ph = "Planned"
    OBVIOUS
  <2>2. ph \in Phases /\ Say(p, PolicyStatus(p, ph, PlanOf(p)), All)
    BY <1>12, <2>1 DEF Phases
  <2> QED
    BY <1>9, <1>10, <2>2
<1>13. CASE /\ ~ctl.seen[p].spec.suspend
            /\ ctl' = [ctl EXCEPT !.pc = "submit", !.cur = p, !.run = RunOf(p), !.recs = NowOf(p)]
  <2>1. PICK q, u, r : q = "submit" /\ u = RunOf(p) /\ r = NowOf(p)
    OBVIOUS
  <2>2. u \in SUBSET Drives /\ r \in [Drives -> Parts] /\ Carried(p, r)
    BY <1>9, <2>1 DEF RunOf
  <2>3. ctl' = [pc |-> q, seen |-> ctl.seen, todo |-> ctl.todo, cur |-> p, run |-> u, recs |-> r, patch |-> ctl.patch]
    <3>1. ctl' = [ctl EXCEPT !.pc = q, !.cur = p, !.run = u, !.recs = r]
      BY <1>13, <2>1
    <3>2. CtlIs(ctl)
      BY <1>1 DEF CTyped
    <3> QED
      BY <3>1, <3>2, SubmitForm
  <2>4. CTyped'
    BY <1>1, <1>2, <1>4, <1>6, <1>7, <1>8, <2>1, <2>2, <2>3, SubmitTyped
  <2>5. ctl'.pc = q /\ ctl'.seen = ctl.seen /\ ctl'.todo = ctl.todo /\ ctl'.cur = p /\ ctl'.run = u /\ ctl'.recs = r
    BY <2>3, CtlMade
  <2>6. HarmlessTo(p, r) /\ ToldOf(p, r)
    BY <1>4, <2>2, CarriedIsHarmless, CarriedIsTold
  <2>7. HarmlessTo(p, ctl'.recs) /\ ToldOf(p, ctl'.recs)
    BY <2>5, <2>6
  <2>8. ctl'.pc = "submit" /\ ctl'.run = RunOf(p)
    BY <2>1, <2>5
  <2>9. \A j \in Jobs : RefIn(ctl'.recs, j) => Ref(j)
    BY <2>5, <2>6 DEF ToldOf
  <2>10. NoNewRefs
    BY <1>2, <2>5, <2>8, <2>9, RefsDecided
  <2>11. RunFree'
    BY <1>2, <1>4, <1>13, <2>5, <2>8, <2>10, RunIsFree
  <2>12. \A i \in MadeOf : \A d \in ctl'.run : Holding(i, d) /\ Match(ctl.seen[p], i) =>
           (RecordOK(ctl.seen[p].status.drives[d], i) => Troubled)
    BY <1>4, <1>13, <2>8, NotRunAgain DEF SeenPart
  <2> QED
    BY <1>2, <1>4, <1>6, <1>7, <2>4, <2>5, <2>7, <2>8, <2>11, <2>12, DecidedKeeps
<1> QED
  BY <1>3, <1>11, <1>12, <1>13

-----------------------------------------------------------------------------
(* The invariant holds, and what follows from it.                            *)
\* The initial state is typed.
LEMMA InitTyped == ASSUME Init PROVE CTyped
<1>1. DOMAIN objs = Names /\ \A n \in Names : objs[n] = None
  BY DEF Init, Names
<1>2. jobs \in [Jobs -> JobSet]
  BY NoJobIs DEF Init
<1>3. rec \in [Drives -> Drive]
  <2>1. CleanDrive \in Drive
    BY DEF CleanDrive, Drive, ActivityOf, Designations, HealthOf
  <2> QED
    BY <2>1 DEF Init
<1>4. CtlIs(ctl) /\ Placed(ctl)
  <2>1. PICK c, r, q, s : c = ctl /\ r = Rest.recs /\ q = "sleep" /\ s = NoStatus
    OBVIOUS
  <2>2. r \in [Drives -> Parts] /\ s \in Statuses /\ q \in Pcs
    BY <2>1, NoPartsTyped, NoStatusTyped DEF Pcs
  <2>3. PICK e, b : e = [n \in {} |-> None] /\ b = NoPatch
    OBVIOUS
  <2>4. b = [name |-> None, st |-> s, part |-> {}]
    BY <2>1, <2>3 DEF NoPatch
  <2>5. b.st = s /\ b.part = {} /\ b = [name |-> b.name, st |-> b.st, part |-> b.part]
    BY <2>4
  <2>6. r = [d \in Drives |-> None]
    BY <2>1 DEF Rest
  <2>7. c = [pc |-> q, seen |-> e, todo |-> {}, cur |-> None, run |-> {}, recs |-> r, patch |-> b]
    BY <2>1, <2>3, <2>6 DEF Init, Rest
  <2>8. /\ c.pc = q /\ c.seen = e /\ c.todo = {} /\ c.run = {} /\ c.recs = r /\ c.patch = b
        /\ c = [pc |-> c.pc, seen |-> c.seen, todo |-> c.todo, cur |-> c.cur, run |-> c.run, recs |-> c.recs, patch |-> c.patch]
    BY <2>7
  <2>9. DOMAIN c.seen = {}
    BY <2>3, <2>8
  <2>10. CtlIs(c)
    BY <2>2, <2>5, <2>8, <2>9 DEF CtlIs
  <2>11. Placed(c)
    BY <2>1, <2>8 DEF Placed
  <2> QED
    BY <2>1, <2>10, <2>11
<1>5. told \in [Names -> (Statuses \X SUBSET All) \cup {None}]
  BY DEF Init, Names
<1>6. made = <<>> /\ made \in Seq(MadeSet) /\ Len(made) = 0
  BY DEF Init
<1>7. uid \in 0..MaxUid /\ Len(made) <= MaxJobs
  BY <1>6, ConstantsHold DEF Init
<1>8. limit \in [Trouble -> Nat] /\ spent \in [Trouble -> Nat] /\ allowed \in BOOLEAN /\ probed \subseteq Policies \X Drives
  BY ControllerAssumption DEF Init
<1> QED
  BY <1>1, <1>2, <1>3, <1>4, <1>5, <1>6, <1>7, <1>8 DEF CTyped

\* The invariant holds in it.
LEMMA InitHolds == ASSUME Init PROVE IInv
<1>1. CTyped
  BY InitTyped
<1>2. \A n \in Names : objs[n] = None /\ told[n] = None
  BY DEF Init, Names
<1>3. MadeOf = {} /\ DOMAIN made = {}
  BY DEF Init, MadeOf
<1>4. ctl.pc = "sleep" /\ DOMAIN ctl.seen = {} /\ ctl.todo = {}
  BY DEF Init, Rest
<1>5. \A j \in Jobs : jobs[j] = NoJob
  BY DEF Init
<1>6. UidsInv
  BY <1>2, <1>3, <1>4 DEF UidsInv, UidsOnce, SeenWas, SeenCovers, MadeWas
<1>7. AnswerInv
  BY <1>3 DEF AnswerInv, AnsweredHere, AnsweredSeen, AnsweredNext
<1>8. JobsInv
  BY <1>5, NoJobIs DEF JobsInv, KeptJobs, HeldStates, CancelledStay
<1>9. RefInv
  BY <1>2, <1>4 DEF RefInv
<1>10. LiveInv
  BY <1>4, <1>5, NoJobIs, ConstantsHold DEF LiveInv, Apart, RunFree, Names
<1>11. RetryInv
  BY <1>3, <1>4 DEF RetryInv, RecordedHere, RecordedNow, RecordedSeen, NotAgain
<1>12. OpRunsOnce /\ RetryAfterEdit
  BY <1>3 DEF OpRunsOnce, RetryAfterEdit
<1> QED
  BY <1>1, <1>6, <1>7, <1>8, <1>9, <1>10, <1>11, <1>12 DEF IInv

\* Every step of the pass keeps the invariant,
LEMMA PassKeeps == ASSUME IInv, Pass PROVE IInv'
<1>1. CASE ListOps
  BY <1>1, ListOpsKeeps
<1>2. CASE Operation
  BY <1>2, FollowKeeps, LeaveKeeps, NewOpKeeps DEF Operation
<1>3. CASE ListPolicies
  BY <1>3, ListPoliciesKeeps
<1>4. CASE PolicyStep
  BY <1>4, InvalidKeeps, ElsewhereKeeps, NotAllowedKeeps, DecideKeeps, SubmitKeeps, SubmittedKeeps DEF PolicyStep
<1>5. CASE PassEnds
  BY <1>5, PassEndsKeeps
<1>6. CASE Put
  BY <1>6, PutKeeps
<1> QED
  BY <1>1, <1>2, <1>3, <1>4, <1>5, <1>6 DEF Pass

\* ... every step of the users,
LEMMA UsersKeep == ASSUME IInv, Users PROVE IInv'
<1>1. CASE \E o \in Ops, s \in OpSpecs, b \in BOOLEAN : Create(o, s, b)
  <2>1. PICK o \in Ops, s \in OpSpecs, b \in BOOLEAN : Create(o, s, b)
    BY <1>1
  <2>2. o \in Names /\ s \in OpSpecs \cup PolicySpecs
    BY DEF Names
  <2> QED
    BY <2>1, <2>2, CreateKeeps
<1>2. CASE \E p \in Policies, s \in PolicySpecs : Create(p, s, TRUE)
  <2>1. PICK p \in Policies, s \in PolicySpecs : Create(p, s, TRUE)
    BY <1>2
  <2>2. PICK b \in BOOLEAN : b = TRUE
    OBVIOUS
  <2>3. p \in Names /\ s \in OpSpecs \cup PolicySpecs /\ Create(p, s, b)
    BY <2>1, <2>2 DEF Names
  <2> QED
    BY <2>3, CreateKeeps
<1>3. CASE \E n \in Ops \cup Policies : Delete(n)
  BY <1>3, DeleteKeeps DEF Names
<1>4. CASE \E p \in Policies, s \in PolicySpecs : Edit(p, s)
  <2>1. PICK p \in Policies, s \in PolicySpecs : Edit(p, s)
    BY <1>4
  <2>2. p \in Names /\ s \in OpSpecs \cup PolicySpecs
    BY DEF Names
  <2> QED
    BY <2>1, <2>2, EditKeeps
<1>5. CASE \E o \in Ops : AskResume(o)
  BY <1>5, AskResumeKeeps DEF Names
<1>6. CASE Revoke
  BY <1>6, RevokeKeeps
<1> QED
  BY <1>1, <1>2, <1>3, <1>4, <1>5, <1>6 DEF Users

\* ... of the jobs and the drives,
LEMMA WorldKeeps == ASSUME IInv, World PROVE IInv'
<1>1. CASE \E j \in Jobs, d \in Drives : Start(j, d) \/ TooLate(j, d) \/ EndsWell(j, d) \/ EndsBadly(j, d) \/ Interrupted(j, d)
  BY <1>1, StartKeeps, TooLateKeeps, EndsWellKeeps, EndsBadlyKeeps, InterruptedKeeps
<1>2. CASE \E d \in Drives : OtherJob(d) \/ RecordChanges(d)
  BY <1>2, OtherJobKeeps, RecordKeeps
<1>3. CASE \E p \in Policies, d \in Drives : LookAgain(p, d)
  BY <1>3, LookKeeps
<1> QED
  BY <1>1, <1>2, <1>3 DEF World

\* ... every step.
LEMMA NextKeeps == ASSUME IInv, [Next]_vars PROVE IInv'
<1>1. CASE Next
  BY <1>1, PassKeeps, UsersKeep, WorldKeeps, PutLostKeeps, RestartKeeps DEF Next
<1>2. CASE UNCHANGED vars
  <2>1. UNCHANGED <<objs, ctl, told, uid, limit, jobs, made>> /\ allowed' = allowed /\ rec' = rec /\ probed' = probed /\ spent' = spent
    BY <1>2 DEF vars
  <2>2. allowed \in BOOLEAN /\ rec \in [Drives -> Drive]
    BY DEF IInv, CTyped
  <2>3. allowed' \in BOOLEAN /\ rec' \in [Drives -> Drive] /\ probed' \subseteq probed
    BY <2>1, <2>2
  <2> QED
    BY <2>1, <2>3, StillKeeps
<1> QED
  BY <1>1, <1>2

\* What follows from it.
LEMMA IInvImplies == ASSUME IInv PROVE ControllerInv /\ DoneOnceAGeneration
<1>1. CTyped /\ Apart /\ OpRunsOnce /\ RetryAfterEdit
  BY DEF IInv, LiveInv
<1>2. TypeOK
  <2>1. DOMAIN objs = Ops \cup Policies
    BY <1>1 DEF CTyped, Names
  <2>2. \A n \in DOMAIN objs : objs[n] # None => objs[n] \in ObjectRecords /\ objs[n].uid <= uid
    <3> TAKE n \in DOMAIN objs
    <3> HAVE objs[n] # None
    <3>1. ObjectIs(objs[n])
      BY <1>1 DEF CTyped
    <3>2. objs[n].uid \in 1..uid /\ uid \in Nat
      BY <1>1, <3>1, ConstantsHold DEF ObjectIs, CTyped
    <3> QED
      BY <3>1, <3>2 DEF ObjectIs
  <2>3. \A j \in Jobs : /\ jobs[j].kept \in BOOLEAN /\ jobs[j].cancel \in BOOLEAN
                        /\ jobs[j].owner \in Ops \cup Policies \cup {None}
                        /\ jobs[j].dj \in [Drives -> DjStates]
    <3> TAKE j \in Jobs
    <3>1. jobs[j] \in JobSet
      BY <1>1 DEF CTyped
    <3> QED
      BY <3>1, JobFields DEF Names
  <2>4. ctl.pc \in Pcs /\ ctl.run \subseteq Drives
    BY <1>1 DEF CTyped, CtlIs
  <2> QED
    BY <1>1, <2>1, <2>2, <2>3, <2>4 DEF CTyped, TypeOK
<1>3. PolicyJobsApart
  <2> SUFFICES ASSUME NEW j \in Jobs, NEW k \in Jobs, NEW d \in Drives, j # k, Policed(j), jobs[j].owner = jobs[k].owner,
                      jobs[j].dj[d] \in {"queued", "running"}, jobs[k].dj[d] \in {"queued", "running"}
               PROVE  FALSE
    BY DEF PolicyJobsApart
  <2>1. Live(j, d) /\ Live(k, d)
    BY DEF Live
  <2>2. ~Lost(j, d) /\ ~Lost(k, d)
    BY DEF Lost
  <2> QED
    BY <1>1, <2>1, <2>2 DEF Apart, Policed
<1> QED
  BY <1>1, <1>2, <1>3 DEF ControllerInv, DoneOnceAGeneration

\* The invariant that the proofs keep holds in every reachable state: who is who,
\* what is answered, which jobs and records belong together (controller.rs: the
\* answered check of operation(), the active_drives check and retry_blocked of policy()).
THEOREM IInvHolds == Spec => []IInv
<1>1. Init => IInv
  BY InitHolds
<1>2. IInv /\ [Next]_vars => IInv'
  BY NextKeeps
<1> QED
  BY <1>1, <1>2, PTL DEF Spec

\* The variables are typed, and a policy never has one drive queued or running in
\* two of its jobs, across edits, resumes, cancels, lost statuses and restarts
\* (controller.rs, policy(): active_drives, and the jobs its records name resumed).
THEOREM ControllerHolds == Spec => []ControllerInv
<1>1. IInv => ControllerInv
  BY IInvImplies
<1> QED
  BY <1>1, IInvHolds, PTL

\* One generation of an operation is run once, and a drive that a policy's job did
\* not get done is not given to another under the same generation while the worker
\* keeps that job, but after a lost status or a crash (controller.rs, operation():
\* by_operation and the observed generation; policy.rs, retry_blocked).
THEOREM DoneOnceHolds == Spec => []DoneOnceAGeneration
<1>1. IInv => DoneOnceAGeneration
  BY IInvImplies
<1> QED
  BY <1>1, IInvHolds, PTL
=============================================================================
