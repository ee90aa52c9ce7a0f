------------------------------- MODULE MCWorker -------------------------------
(* The bounds of the runs of Worker: the drives' kinds, the step lists, and  *)
(* how often each kind of trouble strikes.                                   *)
EXTENDS WorkerInv, TLC

CONSTANTS s1, n1

MCKind == [d \in Drives |-> IF d = n1 THEN "nvme" ELSE "sata"]
EveryStep == {<<"erase">>, <<"test", "format">>, <<"sanitize">>, <<"partition", "enroll">>}
SanitizeLast == {<<"test", "sanitize">>}
Partition == {<<"partition">>}
One == {Drives}
Quiet == [k \in Trouble |-> 0]
OpsBudgets == {[Quiet EXCEPT !["crash"] = 1, !["resume"] = 1],
               [Quiet EXCEPT !["fail"] = 1], [Quiet EXCEPT !["pull"] = 1],
               [Quiet EXCEPT !["cancel"] = 1, !["unavailable"] = 1, !["resume"] = 1]}
CrashBudgets == {[Quiet EXCEPT !["crash"] = 1]}
CancelBudgets == {[Quiet EXCEPT !["cancel"] = 1]}
==============================================================================
