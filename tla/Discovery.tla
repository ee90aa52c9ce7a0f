------------------------------ MODULE Discovery ------------------------------
(***************************************************************************)
(* The discovery pass (monitor.rs, tick; discovery/mod.rs; topology.rs):   *)
(* shelves, then block devices through the probe cache, then removable     *)
(* media, merged into the inventory one after the other, while drives are  *)
(* pulled, pushed in elsewhere, written to and formatted.  A drive's       *)
(* activities other than a format are left to the other modules.           *)
(***************************************************************************)
EXTENDS Absent, Naturals, FiniteSets

CONSTANTS Nodes,          \* kernel names, numbers: the first of them is the primary path
          Ids,            \* identities: a WWID, or a model and serial
          Holds,          \* what a disk may hold ("blank" among them)
          ProbeRefresh,   \* PROBE_REFRESH, in passes
          Forgets,        \* passes after which being gone longer makes no difference
          Plugged,        \* what is plugged in at first
          Rounds          \* how much may happen, and to what sorts of drives

VARIABLES sys,            \* per kernel name: the device, or Empty
          inv,            \* per identity: its record, or None
          cache, shelfTable,   \* the probe cache; the shelf shelfTable: identity -> bay
          media,          \* the identities listed as removable media
          pass,           \* the pass: its step and what it has seen
          quiet,          \* history: nothing changed since the pass began, and it read the shelves
          aged,           \* history, per identity: passes since what it holds was changed
          more            \* how much more may happen

\* What may be plugged in at first: awake and sized, one device by all its paths.
Bays == (UNION {r.bays : r \in Rounds}) \union {None}
Devices == [id : Ids \union {None}, bay : Bays, holds : Holds,
            usb : BOOLEAN, slot : BOOLEAN, asleep : {FALSE}, sized : {TRUE}, disk : {TRUE}]
\* The drive's record, of what a pass writes.
Records == [activity : {"idle", "missing", "formatting"}, paths : SUBSET Nodes, bay : Bays, holds : Holds,
            sized : {"asked", "guessed"}, usable : BOOLEAN, replaces : Ids \union {None}, unseen : Nat]
ASSUME PassesAssumption ==
    /\ Nodes \subseteq Nat /\ None \notin Ids /\ None \notin Records /\ "blank" \in Holds
    /\ ProbeRefresh \in Nat /\ Forgets \in Nat
    /\ Rounds \subseteq [moves : Nat, writes : Nat, formats : Nat, shelfFails : Nat, forgets : Nat, naps : Nat, restarts : Nat,
                         usb : SUBSET BOOLEAN, slot : SUBSET BOOLEAN, bays : SUBSET Bays]
    /\ \A s \in Plugged : /\ s \in [Nodes -> Devices]
                          /\ \A m, n \in Nodes : s[m].id # None /\ s[m].id = s[n].id => s[m] = s[n]

dvars == <<sys, inv, cache, shelfTable, media, pass, quiet, aged, more>>

Device(i, b, h, usb, slot) ==
    [id |-> i, bay |-> b, holds |-> h, usb |-> usb, slot |-> slot, asleep |-> FALSE, sized |-> TRUE, disk |-> TRUE]
Empty == Device(None, None, "blank", FALSE, FALSE)
There == {n \in Nodes : sys[n].id # None}
\* The lookups of scan_in that leave a device out: an empty slot; one on a USB host.
IsMedia(v) == v.usb /\ v.sized
IsSeen(v) == ~v.usb /\ (v.sized \/ v.disk)

DInit ==
    /\ sys \in Plugged /\ more \in Rounds
    /\ inv = [i \in Ids |-> None]
    /\ cache = [n \in Nodes |-> None] /\ shelfTable = [i \in Ids |-> None]
    /\ media = {}
    /\ pass = [pc |-> "rest", seen |-> <<>>, usb |-> {}]
    /\ quiet = FALSE /\ aged = [i \in Ids |-> ProbeRefresh]

Grow(n, top) == IF n < top THEN n + 1 ELSE top

(***************************************************************************)
(* A pass.  The shelf scan that does not come back leaves the old shelfTable;   *)
(* one whose SES page fails has no bays.                                   *)
(***************************************************************************)
BayOf(i) == LET at == {n \in There : sys[n].id = i} IN IF at = {} THEN None ELSE sys[CHOOSE n \in at : TRUE].bay
ScanShelves ==
    /\ pass.pc = "rest"
    /\ \/ shelfTable' = [i \in Ids |-> BayOf(i)] /\ quiet' = TRUE /\ UNCHANGED more
       \/ /\ more.shelfFails > 0 /\ more' = [more EXCEPT !.shelfFails = @ - 1]
          /\ quiet' = FALSE
          /\ shelfTable' = shelfTable \/ shelfTable' = [i \in Ids |-> None]
    /\ pass' = [pass EXCEPT !.pc = "blocks"]
    /\ cache' = [n \in Nodes |-> IF cache[n] = None THEN None ELSE [cache[n] EXCEPT !.age = Grow(@, ProbeRefresh)]]
    /\ aged' = [i \in Ids |-> Grow(aged[i], ProbeRefresh)]
    /\ UNCHANGED <<sys, inv, media>>

\* What the cache goes by: a swap or a new size shows in it, what is written on the disk does not.
ByName(v) == [id |-> None, sized |-> v.sized] \* mutant: whatever device has the name
ProbeKey(v) == [id |-> v.id, sized |-> v.sized]
Cached(n) == cache[n] # None /\ (cache[n] # None => cache[n].key = ProbeKey(sys[n]) /\ cache[n].age < ProbeRefresh)

\* What the drive is asked.  One that is not ready is not cached; sysfs stands in for its
\* size, and nothing can be read off it.
Probe(n) == IF Cached(n) THEN cache[n].probe
            ELSE [holds |-> IF sys[n].asleep THEN "blank" ELSE sys[n].holds,
                  sized |-> IF sys[n].asleep THEN "guessed" ELSE "asked"]
CachesGuess(n) == TRUE \* mutant: a guess is kept like an answer
Answers(n) == ~sys[n].asleep
ScanBlocks ==
    /\ pass.pc = "blocks"
    /\ LET seen == {n \in There : IsSeen(sys[n])}
           asks == {n \in There : (IsSeen(sys[n]) \/ IsMedia(sys[n])) /\ ~Cached(n) /\ Answers(n)}
       IN  /\ pass' = [pc |-> "media",
                       seen |-> [n \in seen |-> [id |-> sys[n].id, usable |-> sys[n].sized, probe |-> Probe(n)]],
                       usb |-> {sys[n].id : n \in {o \in There : IsMedia(sys[o])}}]
           /\ cache' = [n \in Nodes |->
                 IF n \in asks THEN [key |-> ProbeKey(sys[n]), probe |-> Probe(n), age |-> 0]
                 ELSE IF n \in There THEN cache[n] ELSE None]
    /\ UNCHANGED <<sys, inv, shelfTable, media, quiet, aged, more>>

\* An entry that was really a medium goes, fleet member or not.
MergeMedia ==
    /\ pass.pc = "media"
    /\ media' = pass.usb
    /\ inv' = [i \in Ids |-> IF i \in pass.usb THEN None ELSE inv[i]]
    /\ pass' = [pass EXCEPT !.pc = "merge", !.usb = {}]
    /\ UNCHANGED <<sys, cache, shelfTable, quiet, aged, more>>

\* topology::locate, of the name as it is now: sysfs names the slot, or the shelf shelfTable the bay.
Locate(n) == IF sys[n].id = None THEN None ELSE IF sys[n].slot THEN sys[n].bay ELSE shelfTable[sys[n].id]
\* A bay this pass could not read keeps its value, unless the paths changed.
BayNow(r, paths, fresh) == IF r.paths = paths /\ fresh = None THEN r.bay ELSE fresh

Group(i) == {n \in DOMAIN pass.seen : pass.seen[n].id = i}
First(S) == CHOOSE n \in S : \A o \in S : n <= o
IsMissing(r) == r.activity = "missing"
TakenAgain == {} \* mutant: a drive may be replaced twice
Taken == {inv[i].replaces : i \in {j \in Ids : inv[j] # None}} \ {None}
\* replaced_in_bay: the one seen last; of several as old, any.
Replaced(bay) ==
    LET gone == {i \in Ids \ Taken : inv[i] # None /\ (inv[i] # None => IsMissing(inv[i]) /\ inv[i].bay = bay)}
    IN  IF bay = None \/ gone = {} THEN {None}
        ELSE {i \in gone : \A j \in gone : inv[i].unseen <= inv[j].unseen}

Fields(r, o) == IF r.activity = "formatting" THEN r
                ELSE [r EXCEPT !.holds = o.probe.holds, !.sized = o.probe.sized, !.usable = o.usable]
Again(r, i) ==
    LET paths == Group(i)
        o == pass.seen[First(paths)]
    IN  [Fields(r, o) EXCEPT !.bay = BayNow(r, paths, Locate(First(paths))), !.paths = paths, !.unseen = 0,
                             !.activity = IF IsMissing(r) THEN "idle" ELSE @]
NewDrive(i, replaces) ==
    LET o == pass.seen[First(Group(i))]
    IN  [activity |-> "idle", paths |-> Group(i), bay |-> Locate(First(Group(i))), holds |-> o.probe.holds,
         sized |-> o.probe.sized, usable |-> o.usable, replaces |-> replaces, unseen |-> 0]
Gone(r) == [r EXCEPT !.activity = "missing", !.unseen = Grow(@, Forgets)]
MergeObserved ==
    /\ pass.pc = "merge"
    /\ \E replaces \in [Ids -> Ids \union {None}] :
          /\ \A i \in Ids :
                IF Group(i) # {} /\ inv[i] = None
                THEN LET old == Replaced(Locate(First(Group(i))))
                     IN  \/ replaces[i] \in old /\ \A j \in Ids \ {i} : replaces[i] # None => replaces[j] # replaces[i]
                         \/ replaces[i] = None /\ \E j \in Ids \ {i} : replaces[j] \in old
                ELSE replaces[i] = None
          /\ inv' = [i \in Ids |-> IF Group(i) # {}
                                   THEN IF inv[i] = None THEN NewDrive(i, replaces[i]) ELSE Again(inv[i], i)
                                   ELSE IF inv[i] = None THEN None ELSE Gone(inv[i])]
    /\ pass' = [pc |-> "rest", seen |-> <<>>, usb |-> {}]
    /\ UNCHANGED <<sys, cache, shelfTable, media, quiet, aged, more>>

(***************************************************************************)
(* The jobs and the operator.                                              *)
(***************************************************************************)
Of(i) == {n \in There : sys[n].id = i}
World(i, f(_)) == sys' = [n \in Nodes |-> IF n \in Of(i) THEN f(sys[n]) ELSE sys[n]]
Happens(what) == more[what] > 0 /\ more' = [more EXCEPT ![what] = @ - 1]

\* While it formats, the drive answers NOT READY and has no size.
BeginFormat(i) ==
    /\ inv[i] # None /\ Of(i) # {}
    /\ inv[i].activity = "idle" /\ Happens("formats")
    /\ inv' = [inv EXCEPT ![i].activity = "formatting"]
    /\ World(i, LAMBDA v : [v EXCEPT !.asleep = TRUE, !.sized = FALSE])
    /\ quiet' = FALSE
    /\ UNCHANGED <<cache, shelfTable, media, pass, aged>>

\* format.rs, finish: what the drive held is not written anew.
FormatEnds(i) ==
    /\ \E n \in Of(i) : sys[n].asleep /\ ~sys[n].sized
    /\ inv' = [inv EXCEPT ![i] = IF @ = None THEN None
                                 ELSE IF @.activity = "formatting" THEN [@ EXCEPT !.activity = "idle", !.usable = TRUE, !.sized = "asked"]
                                 ELSE @]
    /\ World(i, LAMBDA v : [v EXCEPT !.asleep = FALSE, !.sized = TRUE, !.holds = "blank"])
    /\ aged' = [aged EXCEPT ![i] = 0] /\ quiet' = FALSE
    /\ UNCHANGED <<cache, shelfTable, media, pass, more>>

Forget(i) ==
    /\ inv[i] # None
    /\ IsMissing(inv[i]) /\ Happens("forgets")
    /\ inv' = [inv EXCEPT ![i] = None]
    /\ UNCHANGED <<sys, cache, shelfTable, media, pass, quiet, aged>>

(***************************************************************************)
(* The world: a path goes, a drive is pushed in (a second path of it is    *)
(* the same drive), and what it holds is changed from outside.             *)
(***************************************************************************)
Pull(n) ==
    /\ n \in There /\ Happens("moves")
    /\ sys' = [sys EXCEPT ![n] = Empty] /\ quiet' = FALSE
    /\ UNCHANGED <<inv, cache, shelfTable, media, pass, aged>>

Push(n, i) ==
    /\ n \notin There /\ Happens("moves")
    /\ IF Of(i) # {} THEN sys' = [sys EXCEPT ![n] = sys[CHOOSE o \in Of(i) : TRUE]] /\ UNCHANGED aged
       ELSE /\ \E b \in more.bays \ {sys[o].bay : o \in There}, h \in Holds, usb \in more.usb, slot \in more.slot :
                  sys' = [sys EXCEPT ![n] = Device(i, b, h, usb, slot)]
            /\ aged' = [aged EXCEPT ![i] = 0]
    /\ quiet' = FALSE
    /\ UNCHANGED <<inv, cache, shelfTable, media, pass>>

WriteOutside(i) ==
    /\ Of(i) # {} /\ Happens("writes")
    /\ \E h \in Holds : World(i, LAMBDA v : [v EXCEPT !.holds = h])
    /\ aged' = [aged EXCEPT ![i] = 0] /\ quiet' = FALSE
    /\ UNCHANGED <<inv, cache, shelfTable, media, pass>>

\* A drive that is not ready for a while, or is again.
Nap(i) ==
    /\ \E n \in Of(i) : sys[n].sized
    /\ Happens("naps")
    /\ World(i, LAMBDA v : [v EXCEPT !.asleep = ~@]) /\ quiet' = FALSE
    /\ UNCHANGED <<inv, cache, shelfTable, media, pass, aged>>

\* What was probed and scanned is not kept; the inventory is (Store has how).
RestartPass ==
    /\ Happens("restarts")
    /\ cache' = [n \in Nodes |-> None] /\ shelfTable' = [i \in Ids |-> None] /\ media' = {}
    /\ pass' = [pc |-> "rest", seen |-> <<>>, usb |-> {}]
    /\ quiet' = FALSE
    /\ UNCHANGED <<sys, inv, aged>>

DNext ==
    \/ ScanShelves \/ ScanBlocks \/ MergeMedia \/ MergeObserved \/ RestartPass
    \/ \E i \in Ids : BeginFormat(i) \/ FormatEnds(i) \/ Forget(i) \/ WriteOutside(i) \/ Nap(i) \/ \E n \in Nodes : Push(n, i)
    \/ \E n \in Nodes : Pull(n)

DSpec == DInit /\ [][DNext]_dvars

-----------------------------------------------------------------------------
(* After a pass during which nothing changed, the inventory is what is there:  *)
(* each drive once, with all its paths, the bay it is in and what it holds     *)
(* (unless that was changed from outside within PROBE_REFRESH), whatever name  *)
(* it has now and whoever had that name before; what is gone is missing, and a *)
(* disk on a USB host is no drive (monitor.rs, merge_observed, merge_media;    *)
(* discovery/mod.rs, ProbeCache).                                              *)
SeenAsItIs ==
    pass.pc = "rest" /\ quiet =>
        \A i \in Ids :
            LET at == {n \in Of(i) : IsSeen(sys[n])}
                r == inv[i]
            IN  /\ at = {} => r = None \/ (r # None => IsMissing(r))
                /\ at # {} => r # None
                /\ at # {} /\ r # None =>
                     /\ ~IsMissing(r) /\ r.paths = at /\ (BayOf(i) # None => r.bay = BayOf(i))
                     /\ r.activity # "formatting" /\ (\A n \in at : ~sys[n].asleep) =>
                          /\ r.sized = "asked" /\ r.usable
                          /\ aged[i] = ProbeRefresh => r.holds = sys[First(at)].holds
                /\ (\E n \in Of(i) : IsMedia(sys[n])) => r = None

(* A drive is replaced by one drive at most (monitor.rs, replaced_in_bay),    *)
(* through drives that come back, bays read late and records forgotten.        *)
ReplacedOnce ==
    \A i, j \in Ids : i # j /\ inv[i] # None /\ inv[j] # None =>
        inv[i].replaces = None \/ inv[i].replaces # inv[j].replaces

DiscoveryOK == SeenAsItIs /\ ReplacedOnce
=============================================================================
