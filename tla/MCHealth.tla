------------------------------ MODULE MCHealth ------------------------------
(* The bounds of the runs of Health: how often each kind of trouble strikes. *)
EXTENDS Health, TLC

Quiet == [k \in Trouble |-> 0]
EachTrouble == {[Quiet EXCEPT !["hang"] = 1, !["die"] = 1],
                [Quiet EXCEPT !["hang"] = 1, !["panic"] = 1],
                [Quiet EXCEPT !["pull"] = 1],
                [Quiet EXCEPT !["engine"] = 1, !["ack"] = 1]}
FindingCleared == {[Quiet EXCEPT !["engine"] = 2]}
=============================================================================
