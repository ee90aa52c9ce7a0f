---------------------------- MODULE MCHardware ----------------------------
(* The bounds of the runs of Hardware.                                       *)
EXTENDS Hardware

CONSTANTS e1, e2, d1, d2, r1, r2, c1, c2, s1, s2

(* A shelf of one slot and its own element behind two IOMs; a power supply     *)
(* listed first once it is put in; a few things at a time.                     *)
TwoPaths == <<e1, e2>>
SlotType == [type |-> "array device slot", count |-> 1]
OwnType == [type |-> "enclosure", count |-> 1]
SupplyType == [type |-> "power supply", count |-> 1]
OneLayout == <<<<SlotType, OwnType>>, <<SupplyType, SlotType, OwnType>>>>
Bounds(a, e, s, r) == [asks |-> a, edits |-> e, swaps |-> s, refits |-> r]
Ops == {Bounds(1, 0, 2, 0), Bounds(0, 1, 1, 0), Bounds(1, 1, 0, 0), Bounds(0, 0, 2, 1), Bounds(0, 2, 0, 0), Bounds(2, 0, 0, 0)}

\* The report of the shelf is what the scan of its ESPs makes of the pages they
\* answer with, also when only some of them answer.
PagesOf(l, g, raw) == [id |-> "shelf", generation |-> g, flags |-> {}, config |-> Layouts[l], status |-> raw, additional |-> <<>>]
ASSUME ScanIsFound ==
    \A l \in DOMAIN Layouts : \A b1, b2 \in BOOLEAN : \A up \in SUBSET ToSet(Paths) \ {{}} :
        LET raw == [p \in DOMAIN PageOrder(Layouts[l]) |-> [Quiet EXCEPT !.ident = b1, !.fault = b2, !.off = p = 2]]
        IN  ScanShelves(Paths, [e \in up |-> PagesOf(l, 7, raw)]) = "shelf" :> ReportOf(Answering(up), l, 7, raw)

(* Two drives and two requests: both drives serving data, one NVMe, one not   *)
(* serving and failing; forced requests; no engine, or one without placements. *)
Plan(ds, force) == [drives |-> ds, force |-> force]
NodeOf(serves, ask1, ask2, harms, restarts) ==
    [serves |-> serves, nvme |-> {}, failing |-> {}, engine |-> TRUE, placed |-> TRUE,
     ask |-> (r1 :> ask1 @@ r2 :> ask2), harms |-> harms, restarts |-> restarts]
Both == {d1, d2}
NodesFew == {NodeOf(Both, Plan(Both, FALSE), Plan({d1}, FALSE), 1, 0),
             NodeOf(Both, Plan({d1}, FALSE), Plan({d2}, FALSE), 0, 1),
             NodeOf(Both, Plan({d1}, TRUE), Plan({d2}, FALSE), 0, 0),
             [NodeOf({d1}, Plan(Both, TRUE), Plan({d2}, FALSE), 0, 0) EXCEPT !.nvme = {d2}, !.failing = {d2}],
             [NodeOf(Both, Plan({d1}, FALSE), Plan({d2}, FALSE), 0, 0) EXCEPT !.engine = FALSE],
             [NodeOf(Both, Plan({d1}, FALSE), Plan({d2}, TRUE), 0, 0) EXCEPT !.placed = FALSE]}

(* Two drives behind the two IOMs of a shelf, one start or two.              *)
ShelfOf(w1, w2, serving, starts) ==
    [wired |-> (c1 :> w1 @@ c2 :> w2), serving |-> serving, allow |-> {}, starts |-> starts, pulls |-> 0, fails |-> 0]
ShelvesFew == {[ShelfOf({1, 2}, {1, 2}, {c1, c2}, {s1}) EXCEPT !.fails = 1],
               [ShelfOf({1, 2}, {}, {c1}, {s1}) EXCEPT !.pulls = 1],
               ShelfOf({1, 2}, {}, {c1}, {s1, s2}),
               ShelfOf({1, 2}, {1}, {c1, c2}, {s1}),
               [ShelfOf({1, 2}, {1}, {c1, c2}, {s1}) EXCEPT !.allow = {s1}]}

\* Two requests to the enclosure by itself.
TwoAsks == {Bounds(2, 0, 0, 0)}
EnclosureOnly == HardwareInit /\ part = "enclosure" /\ [][HardwareNext]_hwvars
=============================================================================
