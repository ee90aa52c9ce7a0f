----------------------------- MODULE MCObjects -----------------------------
(* The bounds of the runs of Objects: two nodes, a shelf that is well or     *)
(* whose power supply failed.                                               *)
EXTENDS Objects

CONSTANTS n1, n2, e1

Element(t, s) == [type |-> t, overall |-> FALSE, index |-> 0, status |-> s, ident |-> FALSE, fault |-> FALSE,
                  off |-> FALSE, sensed |-> FALSE, predicted |-> FALSE, flagged |-> FALSE, overtemp |-> FALSE,
                  overlimit |-> FALSE, bay |-> None, address |-> None, sas |-> None]
Report(s) == [key |-> "shelf", esps |-> <<e1>>, generation |-> 0, flags |-> {}, through |-> FALSE, slots |-> <<>>,
              elements |-> <<Element("enclosure", "ok"), Element("power supply", s)>>]
Two == [s \in {"ok", "critical"} |-> Report(s)]

Events == {"fails", "restarts", "changes", "moves", "shares", "edits", "deletes"}
Of2(a, b) == [e \in Events |-> (IF e = a THEN 1 ELSE 0) + (IF e = b THEN 1 ELSE 0)]
Pairs == {Of2("fails", "edits"), Of2("moves", "fails"), Of2("shares", "changes"), Of2("deletes", "changes"),
          Of2("restarts", "edits"), Of2("edits", "edits")}
Moved == {Of2("moves", "none")}
=============================================================================
