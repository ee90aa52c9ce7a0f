---------------------------- MODULE HealthProofs ----------------------------
(* Health's safety, proved for any number of drives, permits and samples a  *)
(* worse verdict must repeat: a verdict sticks only when it was repeated.   *)
EXTENDS Health, TLAPS

\* The verdict of an outcome is one of the four.
LEMMA EvaluateType ==
  ASSUME NEW out \in Outcomes, NEW ack \in BOOLEAN
  PROVE  Evaluate(out, ack) \in Statuses /\ Evaluate(out, ack) > Unknown
  BY ReadingsKnown DEF Evaluate, Outcomes, Statuses, Level, Unknown, Good, Warning, Failing, Failed

\* A finding is a status, and so is the worse of two statuses.
LEMMA HigherType ==
  ASSUME NEW a \in Statuses, NEW b \in Statuses
  PROVE  Higher(a, b) \in Statuses
  BY DEF Higher

LEMMA FindingType == {NoFinding} \cup Severities \subseteq Statuses
  BY SeveritiesKnown DEF NoFinding, Statuses, Unknown, Warning, Failing, Failed

\* One more of the same, or one of another: a streak again, of at least one.
LEMMA AgainType ==
  ASSUME NEW s \in Streak, NEW c \in Statuses
  PROVE  /\ Again(s, c) \in Streak
         /\ Again(s, c).to = c
         /\ Again(s, c).n = (IF s.to = c THEN s.n + 1 ELSE 1)
  BY DEF Again, Streak

\* The history counts without end but stops at Hysteresis: a natural number.
LEMMA InARowType ==
  ASSUME NEW d \in Drives, recent[d] \in Streak, NEW c
  PROVE  InARow(d, c) \in Nat
  BY HysteresisPositive DEF InARow, Streak

-----------------------------------------------------------------------------
\* Every variable keeps its type.
LEMMA InitType == Init => TypeOK
  BY BudgetsKnown, FindingType
  DEF Init, TypeOK, Record, Entries, Loop, Selecting, Streak, NoStreak, Statuses,
      NoFinding, Unknown, Good, Warning, Failing, Failed

LEMMA NextType == TypeOK /\ [Next]_vars => TypeOK'
<1> SUFFICES ASSUME TypeOK, [Next]_vars
             PROVE  TypeOK'
  OBVIOUS
<1> USE DEF TypeOK, history
<1>1. ASSUME NEW d \in Drives, Due(d)
      PROVE  TypeOK'
  <2>1. CASE running[d] = "none"
    <3>1. /\ running' = [running EXCEPT ![d] = "waiting"]
          /\ queue' = Append(queue, d)
          /\ UNCHANGED <<rec, hang, orphan, chan, loop, damper, left, recent, believed, found>>
      BY <1>1, <2>1 DEF Due
    <3>2. QED
      BY <3>1 DEF Entries
  <2>2. CASE running[d] # "none"
    <3>1. <<d, "still_stuck">> \in Drives \X Outcomes
      BY DEF Outcomes
    <3>2. /\ chan' = Append(chan, <<d, "still_stuck">>)
          /\ UNCHANGED <<rec, hang, running, queue, orphan, loop, damper, left, recent, believed, found>>
      BY <1>1, <2>2 DEF Due
    <3>3. QED
      BY <3>1, <3>2
  <2>3. QED
    BY <2>1, <2>2
<1>2. ASSUME NEW d \in Drives, Reads(d)
      PROVE  TypeOK'
  <2>1. ASSUME NEW r \in Readings, Answer(d, r)
        PROVE  TypeOK'
    BY <2>1 DEF Answer, Send, Entries, Outcomes
  <2>2. CASE TimeOut(d)
    BY <2>2 DEF TimeOut, Send, Entries, Outcomes
  <2>3. CASE LateReturn(d)
    BY <2>3 DEF LateReturn, Entries
  <2>4. QED
    BY <1>2, <2>1, <2>2, <2>3 DEF Reads
<1>3. ASSUME NEW d \in Drives, Environment(d)
      PROVE  TypeOK'
  <2>1. CASE CollectorPanics(d)
    <3>1. left' \in [Trouble -> Nat]
      BY <2>1 DEF CollectorPanics, Strike, Trouble
    <3>2. <<d, "timed_out">> \in Drives \X Outcomes
      BY DEF Outcomes
    <3>3. chan' \in Seq(Drives \X Outcomes) /\ orphan' \subseteq Drives
      <4>1. CASE Send(d, "timed_out")
        BY <3>2, <4>1 DEF Send
      <4>2. CASE UNCHANGED <<orphan, chan>>
        BY <4>2
      <4>3. QED
        BY <2>1, <4>1, <4>2 DEF CollectorPanics
    <3>4. running' \in [Drives -> Entries]
      BY <2>1 DEF CollectorPanics, Entries
    <3>5. QED
      BY <2>1, <3>1, <3>3, <3>4 DEF CollectorPanics
  <2>2. CASE StaleHealth(d)
    BY <2>2 DEF StaleHealth, Record
  <2>3. ASSUME NEW f \in {NoFinding} \cup Severities, RefreshEngine(d, f)
        PROVE  TypeOK'
    <3>1. Higher(rec[d].status, f) \in Statuses
      BY FindingType, HigherType DEF Record
    <3>2. rec' \in [Drives -> Record]
      BY <2>3, <3>1 DEF RefreshEngine, Record
    <3>3. QED
      BY <2>3, <3>2 DEF RefreshEngine, Strike, Trouble
  <2>4. CASE Acknowledge(d)
    <3>1. rec' \in [Drives -> Record]
      BY <2>4 DEF Acknowledge, Record
    <3>2. left' \in [Trouble -> Nat]
      BY <2>4 DEF Acknowledge, Strike, Trouble
    <3>3. QED
      BY <2>4, <3>1, <3>2 DEF Acknowledge
  <2>5. CASE Pull(d)
    <3>1. rec' \in [Drives -> Record]
      BY <2>5 DEF Pull, Record
    <3>2. left' \in [Trouble -> Nat]
      BY <2>5 DEF Pull, Strike, Trouble
    <3>3. QED
      BY <2>5, <3>1, <3>2 DEF Pull
  <2>6. CASE PutBack(d)
    BY <2>6 DEF PutBack, Record
  <2>7. CASE Hang(d)
    BY <2>7 DEF Hang, Strike, Trouble
  <2>8. CASE Recover(d)
    BY <2>8 DEF Recover
  <2>9. QED
    BY <1>3, <2>1, <2>2, <2>3, <2>4, <2>5, <2>6, <2>7, <2>8 DEF Environment
<1>4. CASE Acquire
  BY <1>4 DEF Acquire, Entries
<1>5. CASE Receive
  <2>1. /\ Head(chan) \in Drives \X Outcomes
        /\ Tail(chan) \in Seq(Drives \X Outcomes)
    BY <1>5 DEF Receive
  <2>2. loop' \in Loop
    BY <1>5, <2>1 DEF Receive, Loop, Record
  <2>3. QED
    BY <1>5, <2>1, <2>2 DEF Receive
<1>6. CASE Apply
  <2> DEFINE d == loop.drive
             c == Evaluate(loop.out, loop.ack)
             damped == IF Sticks(d, loop.current, c) THEN c ELSE loop.current
  <2>1. /\ d \in Drives /\ loop.out \in Outcomes /\ loop.ack \in BOOLEAN
        /\ loop.current \in Statuses /\ loop.finding \in Statuses
    BY <1>6, FindingType DEF Apply, Loop
  <2>2. c \in Statuses
    BY <2>1, EvaluateType
  <2>3. Higher(damped, loop.finding) \in Statuses
    BY <2>1, <2>2, HigherType
  <2>4. rec' \in [Drives -> Record]
    <3>1. PICK s \in Statuses, b \in BOOLEAN :
            rec' = [rec EXCEPT ![d].status = s, ![d].fresh = b]
      <4>1. (loop.out \in Readings) \in BOOLEAN
        OBVIOUS
      <4>2. rec' = [rec EXCEPT ![d].status = Higher(damped, loop.finding),
                               ![d].fresh = loop.out \in Readings]
        BY <1>6, <2>1 DEF Apply
      <4> HIDE DEF damped
      <4>3. QED
        BY <2>3, <4>1, <4>2, Zenon
    <3>2. QED
      BY <2>1, <3>1 DEF Record
  <2>5. damper' \in [Drives -> Streak]
    <3>1. Again(damper[d], c) \in Streak
      BY <2>1, <2>2, AgainType
    <3>2. NoStreak \in Streak
      BY DEF NoStreak, Streak, Statuses, Unknown, Failed
    <3>3. damper' = [damper EXCEPT ![d] =
            IF Sticks(d, loop.current, c) THEN NoStreak ELSE Again(damper[d], c)]
      BY <1>6 DEF Apply, Damp
    <3>4. QED
      BY <2>1, <3>1, <3>2, <3>3
  <2>6. [to |-> c, n |-> InARow(d, c)] \in Streak
    BY <2>1, <2>2, InARowType DEF Streak
  <2>7. recent' \in [Drives -> Streak] /\ believed' \in [Drives -> Statuses]
    BY <1>6, <2>1, <2>2, <2>6 DEF Apply, Remember
  <2>8. QED
    BY <1>6, <2>4, <2>5, <2>7 DEF Apply, Remember, Selecting, Loop
<1>7. CASE LoopDies
  BY <1>7 DEF LoopDies, Strike, Loop, Streak, NoStreak, Statuses, Unknown, Failed, Trouble
<1>8. CASE Supervise
  BY <1>8 DEF Supervise, Selecting, Loop
<1>9. CASE UNCHANGED vars
  BY <1>9 DEF vars
<1>10. QED
  BY <1>1, <1>2, <1>3, <1>4, <1>5, <1>6, <1>7, <1>8, <1>9 DEF Next

\* TypeOK: every variable keeps its type, whatever the loop and the tasks do.
THEOREM TypeCorrect == Spec => []TypeOK
  BY InitType, NextType, PTL DEF Spec

-----------------------------------------------------------------------------
\* The damper's promise at its heart: the loop judges one outcome.
LEMMA ApplyDamps == TypeOK /\ DampInv /\ Apply => DampInv'
<1> SUFFICES ASSUME TypeOK, DampInv, Apply, NEW x \in Drives \ found'
             PROVE  /\ rec'[x].finding = NoFinding
                    /\ rec'[x].status <= believed'[x]
                    /\ damper'[x].n > 0 => /\ damper'[x].to = recent'[x].to
                                           /\ damper'[x].n <= recent'[x].n
  <2>1. Apply => loop' = [pc |-> "select"]
    BY DEF Apply, Selecting
  <2>2. QED
    BY <2>1 DEF DampInv
<1> DEFINE d == loop.drive
           c == Evaluate(loop.out, loop.ack)
           damped == IF Sticks(d, loop.current, c) THEN c ELSE loop.current
           more == Again(damper[d], c)
           streak == [to |-> c, n |-> InARow(d, c)]
<1>1. /\ d \in Drives /\ loop.out \in Outcomes /\ loop.ack \in BOOLEAN
      /\ loop.current \in Statuses /\ loop.finding \in Statuses
      /\ found' = found
  BY FindingType DEF Apply, Remember, TypeOK, Loop
<1>2. c \in Statuses
  BY <1>1, EvaluateType
<1>3. CASE x # d
  BY <1>1, <1>3 DEF Apply, Damp, Remember, DampInv, TypeOK
<1>4. CASE x = d
  <2>1. /\ rec[d].finding = NoFinding
        /\ loop.current = rec[d].status /\ loop.finding = NoFinding
        /\ loop.current <= believed[d]
        /\ damper[d].n > 0 => damper[d].to = recent[d].to /\ damper[d].n <= recent[d].n
    BY <1>1, <1>4 DEF DampInv, Apply
  <2>2. /\ damper[d] \in Streak /\ recent[d] \in Streak /\ believed[d] \in Statuses
        /\ rec[d] \in Record
    BY <1>1 DEF TypeOK
  <2>3. more \in Streak /\ more.to = c /\ more.n = (IF damper[d].to = c THEN damper[d].n + 1 ELSE 1)
    BY <1>2, <2>2, AgainType
  <2>4. /\ streak \in Streak /\ streak.to = c
        /\ streak.n = InARow(d, c)
    BY <1>1, <1>2, <2>2, InARowType DEF Streak
  <2>5. /\ damper[d].n \in Nat /\ recent[d].n \in Nat /\ more.n \in Nat /\ streak.n \in Nat
        /\ Hysteresis \in Nat \ {0}
    BY <2>2, <2>3, <2>4, HysteresisPositive DEF Streak
  \* The samples were counted at least as far as the damper did.
  <2>6. more.n >= Hysteresis => streak.n >= Hysteresis
    BY <2>1, <2>3, <2>4, <2>5 DEF InARow
  <2>7. more.n < Hysteresis => more.n <= streak.n
    BY <2>1, <2>3, <2>4, <2>5 DEF InARow
  <2>8. believed'[d] = IF c <= believed[d] \/ streak.n >= Hysteresis THEN c ELSE believed[d]
    BY <1>1 DEF Apply, Remember, TypeOK
  <2>9. recent'[d] = streak
    BY <1>1 DEF Apply, Remember, TypeOK
  <2>10. damper'[d] = IF Sticks(d, loop.current, c) THEN NoStreak ELSE more
    BY <1>1 DEF Apply, Damp, TypeOK
  <2>11. /\ rec'[d].status = Higher(damped, loop.finding)
         /\ rec'[d].finding = rec[d].finding
    BY <1>1, <2>2 DEF Apply, TypeOK, Record
  <2>12. Higher(damped, loop.finding) = damped
    BY <1>1, <1>2, <2>1 DEF Higher, NoFinding, Unknown, Statuses, Failed
  <2>13. Sticks(d, loop.current, c) <=> c <= loop.current \/ more.n >= Hysteresis
    BY DEF Sticks
  <2>14. damped <= believed'[d]
    BY <1>1, <1>2, <2>1, <2>2, <2>6, <2>8, <2>13 DEF Statuses, Unknown, Failed
  <2>15. damper'[d].n > 0 => damper'[d].to = recent'[d].to /\ damper'[d].n <= recent'[d].n
    BY <2>3, <2>4, <2>5, <2>7, <2>9, <2>10, <2>13 DEF NoStreak
  <2>16. QED
    BY <1>4, <2>1, <2>11, <2>12, <2>14, <2>15
<1>5. QED
  BY <1>3, <1>4

\* No other step disturbs it: a status moves under the loop's feet only by a
\* finding, and a loop that died starts with nothing counted.
LEMMA NextDamps == TypeOK /\ DampInv /\ [Next]_vars => DampInv'
<1> SUFFICES ASSUME TypeOK, DampInv, [Next]_vars
             PROVE  DampInv'
  OBVIOUS
<1> USE DEF DampInv, history
<1>1. ASSUME NEW d \in Drives, Due(d) \/ Reads(d)
      PROVE  DampInv'
  BY <1>1 DEF Due, Reads, Answer, TimeOut, LateReturn
<1>2. ASSUME NEW d \in Drives, Environment(d)
      PROVE  DampInv'
  <2>1. CASE CollectorPanics(d)
    BY <2>1 DEF CollectorPanics
  <2>2. CASE StaleHealth(d)
    BY <2>2 DEF StaleHealth, TypeOK, Record
  <2>3. ASSUME NEW f \in {NoFinding} \cup Severities, RefreshEngine(d, f)
        PROVE  DampInv'
    BY <2>3 DEF RefreshEngine, TypeOK, Record
  <2>4. CASE Acknowledge(d)
    BY <2>4 DEF Acknowledge, TypeOK, Record
  <2>5. CASE Pull(d) \/ PutBack(d)
    <3>1. PICK b \in BOOLEAN : rec' = [rec EXCEPT ![d].present = b]
      BY <2>5 DEF Pull, PutBack
    <3>2. \A x \in Drives : /\ rec'[x].status = rec[x].status
                            /\ rec'[x].finding = rec[x].finding
      BY <3>1 DEF TypeOK, Record
    <3>3. UNCHANGED <<loop, damper, recent, believed, found>>
      BY <2>5 DEF Pull, PutBack
    <3>4. QED
      BY <3>2, <3>3
  <2>6. CASE Hang(d) \/ Recover(d)
    BY <2>6 DEF Hang, Recover
  <2>7. QED
    BY <1>2, <2>1, <2>2, <2>3, <2>4, <2>5, <2>6 DEF Environment
<1>3. CASE Acquire
  BY <1>3 DEF Acquire
<1>4. CASE Receive
  BY <1>4 DEF Receive, TypeOK
<1>5. CASE Apply
  BY <1>5, ApplyDamps
<1>6. CASE LoopDies
  BY <1>6 DEF LoopDies, NoStreak
<1>7. CASE Supervise
  BY <1>7 DEF Supervise, Selecting
<1>8. CASE UNCHANGED vars
  BY <1>8 DEF vars
<1>9. QED
  BY <1>1, <1>2, <1>3, <1>4, <1>5, <1>6, <1>7, <1>8 DEF Next

\* HealthInv: what the damper's promise rests on holds at every step.
THEOREM Invariant == Spec => []HealthInv
<1>1. Init => HealthInv
  <2>1. Init => DampInv
    BY DEF Init, DampInv, NoStreak, NoFinding, Selecting, Unknown
  <2>2. QED
    BY <2>1, InitType DEF HealthInv
<1>2. HealthInv /\ [Next]_vars => HealthInv'
  BY NextType, NextDamps DEF HealthInv
<1>3. QED
  BY <1>1, <1>2, PTL DEF Spec

\* SticksOnlyRepeated: a drive the engine never found anything of reads no
\* worse than a verdict repeated Hysteresis times in a row, or improved to.
THEOREM OnlyRepeatedVerdicts == Spec => []SticksOnlyRepeated
<1>1. HealthInv => SticksOnlyRepeated
  BY DEF HealthInv, DampInv, SticksOnlyRepeated
<1>2. QED
  BY <1>1, Invariant, PTL
=============================================================================
