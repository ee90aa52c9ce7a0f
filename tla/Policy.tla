-------------------------------- MODULE Policy --------------------------------
(***************************************************************************)
(* The decision of a DrivePolicy: src/policy.rs, and the worker's guard    *)
(* (src/worker.rs) over a drive's record.  Pure: Controller decides with   *)
(* it, Rules checks it against what it is to promise.                      *)
(***************************************************************************)
EXTENDS Naturals, Sequences

CONSTANT None

HealthOf == 0..4          \* unknown, good, warning, failing, failed
Unknown == 0
Failing == 3
Designations == {"none", "reserved", "system", "failed"}
ActivityOf == {"idle", "busy", "missing"}

\* What the decision reads of a drive.  odd: the kernel cannot read its
\* sectors (needs_reformat); inUse: the record says who has data on it;
\* foreign: the disk itself holds something (contents::holds_drive).
Drive == [fleet : BOOLEAN, activity : ActivityOf, designation : Designations,
          inUse : BOOLEAN, health : HealthOf, hot : BOOLEAN, odd : BOOLEAN,
          foreign : BOOLEAN]
CleanDrive == [fleet |-> FALSE, activity |-> "idle", designation |-> "none",
               inUse |-> FALSE, health |-> 1, hot |-> FALSE, odd |-> FALSE,
               foreign |-> FALSE]

\* The words of a worker job's drive, as a policy's record has them
\* ("done" is told as "enrolled").
Ended == {"done", "failed", "refused", "cancelled"}
GivenUp == {"failed", "refused", "cancelled"}

\* The worker steps of a policy for a drive: the format when it needs one.
StepsFor(reformat, odd) ==
  (IF reformat /\ odd THEN <<"format">> ELSE <<>>) \o <<"partition", "enroll">>

\* verdict: from the record alone.
Verdict(reformat, d, inJob) ==
  IF d.fleet \/ d.activity = "missing" \/ inJob THEN "pass"
  ELSE IF \/ d.designation # "none" \/ d.inUse \/ d.activity # "idle"
          \/ d.health >= Failing \/ d.hot \/ (d.odd /\ ~reformat)
          \/ d.health = Unknown /\ ~d.odd
       THEN "skip" ELSE "run"

\* guard: the worker's own look, with the disk's contents fresh.  named: the
\* request names the drive in "destroy".
Guard(d, steps, named) ==
  LET has(s) == \E i \in DOMAIN steps : steps[i] = s
      destroys == steps # <<"test">> IN
  /\ d.activity = "idle"
  /\ destroys => ~d.fleet /\ d.designation # "reserved" /\ ~d.inUse
  /\ destroys /\ ~named => ~d.foreign /\ d.designation # "system"
  /\ has("enroll") => d.designation \notin {"system", "failed"} /\ d.health < Failing
  /\ d.odd => has("format")

\* retry_blocked: the record says it failed under this generation.
RetryBlocked(record, generation) ==
  /\ record # None
  /\ record.state \in GivenUp
  /\ record.gen = generation
=============================================================================
