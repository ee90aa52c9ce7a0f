----------------------------- MODULE MCDrives -----------------------------
(* Small instances of the parts of Drives.                                   *)
EXTENDS Drives, TLC

CONSTANTS a1, a2, n1, n2, w1, w2, sn, f1, f2, z1, z2, x1, x2, x3, b1, b2

(* A drive in six states, two requests.                                      *)
Blank == [fleet |-> FALSE, desig |-> "none", activity |-> "idle", health |-> "good", usable |-> TRUE,
          hot |-> FALSE, slab |-> "none", mounted |-> FALSE, enrolable |-> FALSE, nvme |-> FALSE]
Whole == [slab |-> "none", mounted |-> FALSE, usable |-> TRUE, here |-> TRUE, nvme |-> FALSE,
          bad |-> 0, changes |-> 1, restarts |-> 1]
SomeStarts ==
    {[record |-> Blank, disk |-> Whole],
     [record |-> Blank, disk |-> [Whole EXCEPT !.slab = "data", !.changes = 0]],
     [record |-> [Blank EXCEPT !.slab = "system", !.desig = "system"], disk |-> [Whole EXCEPT !.slab = "system"]],
     [record |-> [Blank EXCEPT !.fleet = TRUE], disk |-> [Whole EXCEPT !.slab = "member"]],
     [record |-> [Blank EXCEPT !.usable = FALSE, !.health = "unknown"], disk |-> [Whole EXCEPT !.usable = FALSE, !.bad = 1]],
     [record |-> [Blank EXCEPT !.desig = "reserved", !.nvme = TRUE, !.health = "warning", !.hot = TRUE],
      disk |-> [Whole EXCEPT !.nvme = TRUE]]}
AllWanted == {"acknowledge", "locate", "join", "leave", "cancel", "smoke", "destructive", "enroll", "format",
              "forget", "spare", "failed", "system", "clear"}

(* Two drives of one serial number; three listings of the engine.            *)
Named(w, f) == [wwn |-> w, serial |-> sn, paths |-> {f}, capacity |-> 3]
TwoNames == n1 :> Named(w1, f1) @@ n2 :> Named(w2, f2)
Ref(w, s, f, fabric) == [wwn |-> w, serial |-> s, path |-> f, fabric |-> fabric]
Slab(id, ref, total, used, committed) == [id |-> id, ref |-> ref, total |-> total, allocated |-> used, committed |-> committed]
Leg(ref, bytes, state) == [ref |-> ref, bytes |-> bytes, state |-> state]
OnN1 == Ref(w1, sn, f1, FALSE)
Remote == Ref(w1, sn, None, TRUE)
TwoListings ==
    <<[slabs |-> {}, volumes |-> {}],
      [slabs |-> {Slab(1, OnN1, 2, 1, 3), Slab(2, Ref(w2, sn, f2, FALSE), 4, 4, None)},
       volumes |-> {[id |-> 1, placement |-> {Leg(OnN1, 1, "ok"), Leg(Remote, 2, "failed")}],
                    [id |-> 2, placement |-> {Leg(Ref(None, None, f1, FALSE), 1, "draining")}],
                    [id |-> 3, placement |-> None]}],
      [slabs |-> {Slab(1, OnN1, 2, 1, 3)}, volumes |-> {[id |-> 3, placement |-> None]}]>>
What == {"moves", "fails", "settings", "joins", "leaves", "retires", "engine"}
Course(fleet, routes, some) ==
    [fleet |-> fleet, routes |-> routes, left |-> [w \in What |-> IF w \in DOMAIN some THEN some[w] ELSE 0]]
Few == {Course({}, TRUE, "joins" :> 1), Course({n1}, TRUE, "settings" :> 2 @@ "fails" :> 1), Course({n1}, TRUE, "fails" :> 1 @@ "moves" :> 2),
        Course({n1}, TRUE, "settings" :> 1 @@ "leaves" :> 1 @@ "joins" :> 1),
        Course({n1}, TRUE, "settings" :> 1 @@ "retires" :> 1 @@ "joins" :> 1),
        Course({n1, n2}, FALSE, "settings" :> 1 @@ "engine" :> 2 @@ "fails" :> 1),
        Course({n1, n2}, TRUE, "settings" :> 1 @@ "moves" :> 1 @@ "engine" :> 1)}

(* Three identities over two names and two bays; a few things at a time.     *)
Dev(i, b, h) == [Empty EXCEPT !.id = i, !.bay = b, !.holds = h]
OnePlugged == {[n \in Nodes |-> IF n = 1 THEN Dev(x1, b1, "data") ELSE Empty]}
Round(m, w, f, s, g, usb, slot) ==
    [moves |-> m, writes |-> w, formats |-> f, shelfFails |-> s, forgets |-> g, naps |-> 0, restarts |-> 0,
     usb |-> usb, slot |-> slot, bays |-> {b1, b2}]
No == {FALSE}
FewRounds == {[Round(4, 0, 0, 0, 0, No, {TRUE}) EXCEPT !.bays = {b1}], Round(3, 0, 0, 0, 0, No, {TRUE}),
              Round(2, 0, 0, 1, 1, No, No), Round(2, 1, 0, 0, 0, BOOLEAN, No),
              Round(1, 0, 1, 1, 0, No, No), Round(1, 1, 1, 0, 0, No, No),
              [Round(1, 0, 0, 0, 0, No, No) EXCEPT !.naps = 2, !.restarts = 1]}

(* One controller: no answer; nothing; one enclosure with a disk that is in   *)
(* none, or that has no slot, or whose address is not known; two enclosures;  *)
(* an enclosure only a disk names.  A card of two hosts.                      *)
RIn(e, s) == [enclosure |-> e, slot |-> s]
RList(entries, addressed, first, second) ==
    [entries |-> entries, addressed |-> addressed, disk |-> [i \in Disks |-> IF i = 4 THEN first ELSE second]]
RLists == {None,
           RList({}, {}, None, None),
           RList({32}, {32}, RIn(32, 0), RIn(None, 1)),
           RList({32}, {}, RIn(32, 1), RIn(None, None)),
           RList({32, 33}, {32}, RIn(33, 0), RIn(None, 1)),
           RList({}, {}, RIn(32, 0), None)}
RCards == {None} \union [card : {"a"}, firmware : {None, "v1", "v2"}]
RAtFirst == {[h \in Hosts |-> IF h = 1 THEN [card |-> "a", firmware |-> "v1"] ELSE None]}

(* Two objects of each kind; all of them, or those on the first shelf.       *)
KWDrives == {None} \union [shelf : {1, 2}, what : {"good"}]
KWReports == {None, "ok"}
KWKinds == [drives : BOOLEAN, selector : {None, 1}]
=============================================================================
