------------------------------- MODULE Health -------------------------------
(* Health polling: the sampler that reads every drive, bounded and timed    *)
(* out (poller.rs), and the supervised loop that judges what comes back and *)
(* writes the verdict to the drive's record (monitor.rs).                   *)
(*                                                                          *)
(* Actors: the loop (one task; ticks and outcomes interleave, but an        *)
(* outcome is applied to its end before the next), one sampling task per    *)
(* drive, its blocking read, the monitor pass that finds drives missing and *)
(* holds the engine's slab report against them, and the requests that       *)
(* acknowledge a warning.  A read lock, an await and a write lock are three *)
(* moments: what the loop read of a record may be old when it writes.       *)
(*                                                                          *)
(* Time is left out: a drive may be due at any moment, a hanging read times *)
(* out at some moment.  The counters, temperatures and limits of a sample   *)
(* are left out too: a reading is what the thresholds make of it.           *)
EXTENDS Integers, Sequences, FiniteSets

CONSTANTS
  Drives,         \* the drives of the inventory
  MaxConcurrent,  \* monitor.max_concurrent
  Hysteresis,     \* monitor.hysteresis
  Readings,       \* what an answering drive may say, of DOMAIN Level
  Severities,     \* what the engine may find, of {Warning, Failing}
  MaxChan,        \* bound: outcomes on their way to the loop
  Budgets         \* bound: how often each kind of trouble strikes

Unknown == 0
Good == 1
Warning == 2
Failing == 3
Failed == 4
Statuses == Unknown .. Failed
NoFinding == Unknown

\* The verdict of a reading, without an acknowledgement: "accepted" is a
\* warning an acknowledgement covers, "grown" one it does not.
Level == [good |-> Good, accepted |-> Warning, grown |-> Warning,
          failing |-> Failing, broken |-> Failed]

Trouble == {"hang", "pull", "engine", "ack", "die", "panic"}

ASSUME MaxConcurrentPositive == MaxConcurrent \in Nat \ {0}
ASSUME HysteresisPositive == Hysteresis \in Nat \ {0}
ASSUME ReadingsKnown == Readings \subseteq DOMAIN Level
ASSUME SeveritiesKnown == Severities \subseteq {Warning, Failing}
ASSUME MaxChanPositive == MaxChan \in Nat \ {0}
ASSUME BudgetsKnown == Budgets \subseteq [Trouble -> Nat]

VARIABLES
  rec,       \* of each drive's record: what this module reads and writes
  hang,      \* does a read of the drive hang
  running,   \* the sampler's map: no entry, or how far the entry's read is
  queue,     \* the drives waiting for a permit, in order
  orphan,    \* the drives whose sample answers a loop that is gone
  chan,      \* the outcomes sent to the loop
  loop,      \* the loop: where it is, and what it read of the record
  damper,    \* the worse verdict a drive is about to be believed, and how often read
  left,      \* the trouble that may still strike
  recent,    \* history: the last verdict of a drive's samples, and how often in a row
  believed,  \* history: what the samples alone make of a drive
  found      \* history: the drives the engine ever had a finding of

vars == <<rec, hang, running, queue, orphan, chan, loop, damper, left,
          recent, believed, found>>
history == <<recent, believed, found>>

Record == [status : Statuses, finding : {NoFinding} \cup Severities, present : BOOLEAN,
           ack : BOOLEAN, fresh : BOOLEAN]
Outcomes == Readings \cup {"timed_out", "still_stuck"}
\* "lost": the read timed out and its thread died; nothing removes the entry.
Entries == {"none", "waiting", "reading", "stuck", "lost"}
Streak == [to : Statuses, n : Nat]
NoStreak == [to |-> Unknown, n |-> 0]
Loop == [pc : {"select", "dead"}]
        \cup [pc : {"write"}, drive : Drives, out : Outcomes,
              current : Statuses, finding : {NoFinding} \cup Severities, ack : BOOLEAN]
Selecting == [pc |-> "select"]

TypeOK ==
  /\ rec \in [Drives -> Record]
  /\ hang \in [Drives -> BOOLEAN]
  /\ running \in [Drives -> Entries]
  /\ queue \in Seq(Drives)
  /\ orphan \subseteq Drives
  /\ chan \in Seq(Drives \X Outcomes)
  /\ loop \in Loop
  /\ damper \in [Drives -> Streak]
  /\ left \in [Trouble -> Nat]
  /\ recent \in [Drives -> Streak]
  /\ believed \in [Drives -> Statuses]
  /\ found \subseteq Drives

\* The daemon starts with drives it has never sampled.
Init ==
  /\ rec = [d \in Drives |-> [status |-> Unknown, finding |-> NoFinding,
                              present |-> TRUE, ack |-> FALSE, fresh |-> FALSE]]
  /\ hang = [d \in Drives |-> FALSE]
  /\ running = [d \in Drives |-> "none"]
  /\ queue = <<>>
  /\ orphan = {}
  /\ chan = <<>>
  /\ loop = Selecting
  /\ damper = [d \in Drives |-> NoStreak]
  /\ left \in Budgets
  /\ recent = [d \in Drives |-> NoStreak]
  /\ believed = [d \in Drives |-> Unknown]
  /\ found = {}

Higher(a, b) == IF a < b THEN b ELSE a

Strike(k) ==
  /\ left[k] > 0
  /\ left' = [left EXCEPT ![k] = @ - 1]

----------------------------------------------------------------------------
(* The sampler *)

\* What a sample sends reaches the loop that asked, or nobody.
Send(d, out) ==
  /\ chan' = IF d \in orphan THEN chan ELSE Append(chan, <<d, out>>)
  /\ orphan' = orphan \ {d}

\* A poller that says nothing of a drive whose last read still hangs.
DueSilent(d) ==
  /\ loop.pc = "select"
  /\ rec[d].present
  /\ Len(chan) < MaxChan
  /\ running[d] = "none"
  /\ running' = [running EXCEPT ![d] = "waiting"]
  /\ queue' = Append(queue, d)
  /\ UNCHANGED <<rec, hang, orphan, chan, loop, damper, left, history>>

\* A tick of the loop finds a present drive due: a task samples it.  One
\* whose last read is still entered is not asked again.
Due(d) ==
  /\ loop.pc = "select"
  /\ rec[d].present
  /\ Len(chan) < MaxChan
  /\ IF running[d] = "none"
       THEN /\ running' = [running EXCEPT ![d] = "waiting"]
            /\ queue' = Append(queue, d)
            /\ UNCHANGED chan
       ELSE /\ chan' = Append(chan, <<d, "still_stuck">>)
            /\ UNCHANGED <<running, queue>>
  /\ UNCHANGED <<rec, hang, orphan, loop, damper, left, history>>

\* A timed-out read that keeps its permit until it returns.
PermitsTakenByStuck == {d \in Drives : running[d] \in {"reading", "stuck", "lost"}}

\* A read holds its permit until it returns or times out.
PermitsTaken == {d \in Drives : running[d] = "reading"}

\* The permits are given out in the order they were asked for.
Acquire ==
  /\ queue # <<>>
  /\ Cardinality(PermitsTaken) < MaxConcurrent
  /\ running' = [running EXCEPT ![Head(queue)] = "reading"]
  /\ queue' = Tail(queue)
  /\ UNCHANGED <<rec, hang, orphan, chan, loop, damper, left, history>>

\* The read returns in time: its entry is removed, its permit given back.
Answer(d, r) ==
  /\ running[d] = "reading"
  /\ ~hang[d]
  /\ running' = [running EXCEPT ![d] = "none"]
  /\ Send(d, r)
  /\ UNCHANGED <<rec, hang, queue, loop, damper, left, history>>

\* The timeout gives the permit back and leaves the entry to the read.
TimeOut(d) ==
  /\ running[d] = "reading"
  /\ hang[d]
  /\ running' = [running EXCEPT ![d] = "stuck"]
  /\ Send(d, "timed_out")
  /\ UNCHANGED <<rec, hang, queue, loop, damper, left, history>>

\* A hung read returns at last: what it read is not used.
LateReturn(d) ==
  /\ running[d] = "stuck"
  /\ ~hang[d]
  /\ running' = [running EXCEPT ![d] = "none"]
  /\ UNCHANGED <<rec, hang, queue, orphan, chan, loop, damper, left, history>>

\* The collector panics.  In time, sample() cleans up and calls it a timeout;
\* later nobody waits for the thread, and the entry stays.
CollectorPanics(d) ==
  /\ Strike("panic")
  /\ \/ /\ running[d] = "reading"
        /\ running' = [running EXCEPT ![d] = "none"]
        /\ Send(d, "timed_out")
     \/ /\ running[d] = "stuck"
        /\ running' = [running EXCEPT ![d] = "lost"]
        /\ UNCHANGED <<orphan, chan>>
  /\ UNCHANGED <<rec, hang, queue, loop, damper, history>>

----------------------------------------------------------------------------
(* The loop *)

\* A read without an answer is a device that is not usable.
Evaluate(out, ack) ==
  IF out \in {"timed_out", "still_stuck"} THEN Failed
  ELSE IF out = "accepted" /\ ack THEN Good
  ELSE Level[out]

\* A damper that goes on counting when the candidate changes.
AgainAny(s, candidate) == [to |-> candidate, n |-> s.n + 1]

\* One more sample of the same candidate, or the first of another.
Again(s, candidate) ==
  IF s.to = candidate THEN [s EXCEPT !.n = @ + 1] ELSE [to |-> candidate, n |-> 1]

\* A damper that counts one sample too few.
SticksEarly(d, current, candidate) ==
  candidate <= current \/ Again(damper[d], candidate).n + 1 >= Hysteresis

\* Better is believed at once, worse when it was read often enough in a row.
Sticks(d, current, candidate) ==
  candidate <= current \/ Again(damper[d], candidate).n >= Hysteresis

Damp(d, current, candidate) ==
  damper' = [damper EXCEPT ![d] =
    IF Sticks(d, current, candidate) THEN NoStreak ELSE Again(@, candidate)]

\* An outcome arrives: the loop reads the record, and goes on to the drive's
\* history for the baseline of its error count.
Receive ==
  /\ loop.pc = "select"
  /\ chan # <<>>
  /\ LET d == Head(chan)[1] IN
     loop' = [pc |-> "write", drive |-> d, out |-> Head(chan)[2],
              current |-> rec[d].status, finding |-> rec[d].finding, ack |-> rec[d].ack]
  /\ chan' = Tail(chan)
  /\ UNCHANGED <<rec, hang, running, queue, orphan, damper, left, history>>

\* The reference the damper is held against: what the samples of a drive
\* alone, read one after the other, make of it.
InARow(d, candidate) ==
  IF recent[d].to # candidate THEN 1
  ELSE IF recent[d].n < Hysteresis THEN recent[d].n + 1
  ELSE Hysteresis

Remember(d, candidate) ==
  LET streak == [to |-> candidate, n |-> InARow(d, candidate)] IN
  /\ recent' = [recent EXCEPT ![d] = streak]
  /\ believed' = [believed EXCEPT ![d] =
       IF candidate <= @ \/ streak.n >= Hysteresis THEN candidate ELSE @]
  /\ UNCHANGED found

\* The verdict is damped against the status read before, raised to the finding
\* read before, and written; without an answer the old readings stand.
Apply ==
  /\ loop.pc = "write"
  /\ LET d == loop.drive
         candidate == Evaluate(loop.out, loop.ack)
         damped == IF Sticks(d, loop.current, candidate) THEN candidate ELSE loop.current
     IN
     /\ rec' = [rec EXCEPT ![d].status = Higher(damped, loop.finding),
                           ![d].fresh = loop.out \in Readings]
     /\ Damp(d, loop.current, candidate)
     /\ Remember(d, candidate)
  /\ loop' = Selecting
  /\ UNCHANGED <<hang, running, queue, orphan, chan, left>>

\* The loop panics: what was on its way to it is lost, and so is its damper.
LoopDies ==
  /\ loop.pc # "dead"
  /\ Strike("die")
  /\ loop' = [pc |-> "dead"]
  /\ chan' = <<>>
  /\ orphan' = {d \in Drives : running[d] \in {"waiting", "reading"}}
  /\ damper' = [d \in Drives |-> NoStreak]
  /\ UNCHANGED <<rec, hang, running, queue, history>>

\* The supervisor starts it again.
Supervise ==
  /\ loop.pc = "dead"
  /\ loop' = Selecting
  /\ UNCHANGED <<rec, hang, running, queue, orphan, chan, damper, left, history>>

----------------------------------------------------------------------------
(* The monitor pass, the requests and the drives *)

\* Three intervals without a sample: the record says so.
StaleHealth(d) ==
  /\ rec[d].present
  /\ rec[d].fresh
  /\ rec' = [rec EXCEPT ![d].fresh = FALSE]
  /\ UNCHANGED <<hang, running, queue, orphan, chan, loop, damper, left, history>>

\* The engine's slab report names the drive, names it otherwise or no longer:
\* a finding counts now, not only at the next sample.
RefreshEngine(d, f) ==
  /\ rec[d].present
  /\ f # rec[d].finding
  /\ Strike("engine")
  /\ rec' = [rec EXCEPT ![d].finding = f, ![d].status = Higher(@, f)]
  /\ found' = found \cup {d}
  /\ UNCHANGED <<hang, running, queue, orphan, chan, loop, damper, recent, believed>>

\* A warning is accepted; the next sample is read against it.
Acknowledge(d) ==
  /\ rec[d].status = Warning
  /\ Strike("ack")
  /\ rec' = [rec EXCEPT ![d].ack = TRUE]
  /\ UNCHANGED <<hang, running, queue, orphan, chan, loop, damper, history>>

\* The scan finds the drive missing, or back.
Pull(d) ==
  /\ rec[d].present
  /\ Strike("pull")
  /\ rec' = [rec EXCEPT ![d].present = FALSE]
  /\ UNCHANGED <<hang, running, queue, orphan, chan, loop, damper, history>>

PutBack(d) ==
  /\ ~rec[d].present
  /\ rec' = [rec EXCEPT ![d].present = TRUE]
  /\ UNCHANGED <<hang, running, queue, orphan, chan, loop, damper, left, history>>

\* The drive stops answering, or answers again.
Hang(d) ==
  /\ ~hang[d]
  /\ Strike("hang")
  /\ hang' = [hang EXCEPT ![d] = TRUE]
  /\ UNCHANGED <<rec, running, queue, orphan, chan, loop, damper, history>>

Recover(d) ==
  /\ hang[d]
  /\ hang' = [hang EXCEPT ![d] = FALSE]
  /\ UNCHANGED <<rec, running, queue, orphan, chan, loop, damper, left, history>>

Reads(d) == (\E r \in Readings : Answer(d, r)) \/ TimeOut(d) \/ LateReturn(d)
Environment(d) ==
  \/ CollectorPanics(d)
  \/ StaleHealth(d)
  \/ \E f \in {NoFinding} \cup Severities : RefreshEngine(d, f)
  \/ Acknowledge(d)
  \/ Pull(d) \/ PutBack(d)
  \/ Hang(d) \/ Recover(d)

Next ==
  \/ \E d \in Drives : Due(d) \/ Reads(d) \/ Environment(d)
  \/ Acquire \/ Receive \/ Apply \/ LoopDies \/ Supervise

Spec == Init /\ [][Next]_vars

\* Tasks are run when they can, and reads that do not hang return.  The loop's
\* select chooses fairly between its tick and its outcomes, so a drive that is
\* due again and again while outcomes keep coming is taken in the end.
Fairness ==
  /\ WF_vars(Acquire) /\ WF_vars(Receive) /\ WF_vars(Apply) /\ WF_vars(Supervise)
  /\ \A d \in Drives : SF_vars(Due(d)) /\ WF_vars(Reads(d))

FairSpec == Spec /\ Fairness

----------------------------------------------------------------------------
(* Properties *)

\* A worse verdict must repeat monitor.hysteresis samples in a row before it
\* sticks (Damper::apply): over lost outcomes, unanswered reads, a loop that
\* died and records that changed while it read, a drive the engine never
\* found anything of reads no worse than its samples, taken alone, say.
SticksOnlyRepeated == \A d \in Drives \ found : rec[d].status <= believed[d]

\* What the promise rests on while the loop works: the damper never counts
\* further than the samples do, and nothing but the loop and the engine's
\* report moves a status between the loop's read of it and its write.
DampInv ==
  \A d \in Drives \ found :
    /\ rec[d].finding = NoFinding
    /\ rec[d].status <= believed[d]
    /\ damper[d].n > 0 => damper[d].to = recent[d].to /\ damper[d].n <= recent[d].n
    /\ loop.pc = "write" /\ loop.drive = d
         => loop.current = rec[d].status /\ loop.finding = NoFinding

HealthInv == TypeOK /\ DampInv

\* The same promise of every sample judged while the record has no finding,
\* also of a drive that had one: the finding raised the status the sample is
\* damped against, so one bad sample may stick.
OnlyRepeatedSticks ==
  [][\A d \in Drives :
       Apply /\ loop.drive = d /\ loop.finding = NoFinding
         /\ rec'[d].status = recent'[d].to /\ recent'[d].to > believed[d]
         => recent'[d].n >= Hysteresis]_vars

\* Each due time of a hung drive counts as another timeout, which walks it to
\* failed (Sampler::sample, Outcome::StillStuck), whatever the loop lost.
HungDriveFails ==
  \A d \in Drives : <>[](hang[d] /\ rec[d].present) => <>[](rec[d].status = Failed)

\* A drive that hangs does not stall the others: a timed-out read gives its
\* permit back, so an answering drive is sampled again and again.
DriveIsRead ==
  \A d \in Drives :
    <>[](~hang[d] /\ rec[d].present /\ running[d] # "lost") => []<>rec[d].fresh

\* Both, of every drive: what hangs ends as failed, and what answers is read
\* again and again, behind one permit and a loop that may die.
SamplingGoesOn == HungDriveFails /\ DriveIsRead
=============================================================================
