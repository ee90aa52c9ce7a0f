------------------------------- MODULE MCFleet -------------------------------
(* The bounds of the runs of Fleet: what the requests ask for, and how     *)
(* often each kind of trouble strikes.                                     *)
EXTENDS Fleet, TLC

\* The drives that start in the fleet are interchangeable.
Symmetry == Permutations(Enrolled)

NoKinds == {}
DrainKinds == {"drain", "drain_leave", "cancel", "mark_failed"}
LiveKinds == {"join", "drain_leave"}
FormatJoinKinds == {"format", "join"}
MarkKinds == {"mark_failed"}

Quiet == [k \in Trouble |-> 0]
OpsBudgets == {[Quiet EXCEPT !["verdict"] = 1, !["engine"] = 1, !["crash"] = 1],
               [Quiet EXCEPT !["verdict"] = 1, !["fault"] = 1]}
RaceBudgets == {[Quiet EXCEPT !["verdict"] = 1]}
\* One crash and one lost call, with the engine restarting or stuck, or with
\* the drive pulled and put back.
LiveBudgets ==
  LET b == [Quiet EXCEPT !["verdict"] = 1, !["fault"] = 1, !["crash"] = 1] IN
  {[b EXCEPT !["engine"] = 1, !["save"] = 1], [b EXCEPT !["pull"] = 1]}
MarkBudgets == {[Quiet EXCEPT !["verdict"] = 2]}
CrashBudgets == {[Quiet EXCEPT !["verdict"] = 1, !["crash"] = 1, !["save"] = 1]}
NoBudgets == {Quiet}
==============================================================================
