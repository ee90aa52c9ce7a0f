-------------------------------- MODULE Raid --------------------------------
(***************************************************************************)
(* Shelves behind RAID controllers, and the cards of the node, through a   *)
(* discovery pass (megaraid.rs; hba.rs; monitor.rs, scan_shelves,          *)
(* merge_shelves, merge_hbas): a controller is asked for its list, which   *)
(* may fail or not come back; each enclosure becomes a shelf, each disk is *)
(* placed by what its controller says, and the log is told what changed.   *)
(* An SES shelf is there too, with only a status.                          *)
(***************************************************************************)
EXTENDS Absent, Naturals, FiniteSets

CONSTANTS Hosts,          \* SCSI hosts; those in Controllers run megaraid_sas
          Controllers,
          Disks,          \* device ids of the disks (and of volumes no list names)
          Enclosures,     \* device ids of enclosures
          Lists,          \* what a controller may answer, or None: it could not be read
          Cards,          \* what a host may be on: a card with its firmware, or None (not on PCIe)
          AtFirst,        \* what the hosts are on at first
          Shifts, Stalls  \* how often the hardware changes, and a scan does not come back

VARIABLES lists, cards, ses,  \* the hardware: per controller, per host; the SES shelf's status or None
          table, hbas,        \* state.shelves, state.hbas
          at,                 \* per controller and disk: the drive record's location
          round,              \* the pass: its step, the scan still out, what it has seen unchanged
          told,               \* what the log has said: of shelves, of cards
          gave,               \* history: the places controllers gave, per controller and disk
          shifts, stalls

ASSUME RaidAssumption ==
    None \notin Controllers \union Enclosures /\ \A l \in Lists : l # None => l.entries \subseteq Enclosures

rvars == <<lists, cards, ses, table, hbas, at, round, told, gave, shifts, stalls>>

\* A list: the enclosures it has entries for, those of them with an address, and the disks.
Listed(l) == {d \in Disks : l.disk[d] # None}

Unplaced == [shelf |-> None, bay |-> None]
Key(h, e, sas) == <<h, e, sas>>   \* an address where it is known, else the controller's name for it
SesKey == <<None, None, TRUE>>
NoLog == [shelves |-> <<>>, cards |-> <<>>]

RInit ==
    /\ lists \in [Controllers -> Lists] /\ cards \in AtFirst /\ ses = "ok"
    /\ table = <<>> /\ hbas = <<>> /\ told = NoLog
    /\ at = [c \in Controllers |-> [d \in Disks |-> Unplaced]] /\ gave = {}
    /\ round = [pc |-> "rest", busy |-> FALSE, still |-> FALSE]
    /\ shifts = Shifts /\ stalls = Stalls

(***************************************************************************)
(* Controller::read.  A disk in no enclosure is in the controller's only   *)
(* one; with none or several, on a shelf of the controller's own.          *)
(***************************************************************************)
OwnShelf(l) == None \* mutant: a disk in no enclosure is on a shelf of its own
Only(l) == IF Cardinality(l.entries) = 1 THEN CHOOSE e \in l.entries : TRUE ELSE None
ShelfOf(l, d) == IF l.disk[d].enclosure # None THEN l.disk[d].enclosure ELSE Only(l)
Report(h, l, e) ==
    LET here == {d \in Listed(l) : ShelfOf(l, d) = e}
    IN  [host |-> h, error |-> None, status |-> "ok",
         bays |-> [d \in {x \in here : l.disk[x].slot # None} |-> l.disk[d].slot],
         unmatched |-> {d \in here : l.disk[d].slot = None}]
Unread(h) == [host |-> h, error |-> "unread", status |-> "ok", bays |-> <<>>, unmatched |-> {}]
EnclosuresOf(l) ==
    LET named == l.entries \union {ShelfOf(l, d) : d \in Listed(l)}
    IN  IF named = {} THEN {None} ELSE named
Read(h) ==
    IF lists[h] = None THEN {[key |-> Key(h, None, FALSE), rep |-> Unread(h)]}
    ELSE {[key |-> Key(h, e, e \in lists[h].addressed), rep |-> Report(h, lists[h], e)] : e \in EnclosuresOf(lists[h])}
SesReport == [host |-> None, error |-> None, status |-> ses, bays |-> <<>>, unmatched |-> {}]
Scanned ==
    LET all == (UNION {Read(h) : h \in Controllers}) \union (IF ses = None THEN {} ELSE {[key |-> SesKey, rep |-> SesReport]})
    IN  [k \in {r.key : r \in all} |-> (CHOOSE r \in all : r.key = k).rep]

\* place: a device no list names is on the controller's shelf when it has just one.
Place(h, d) ==
    LET mine == {k \in DOMAIN table : table[k].host = h}
        with == {k \in mine : d \in DOMAIN table[k].bays}
        slotless == {k \in mine : d \in table[k].unmatched}
    IN  CASE with # {} -> LET k == CHOOSE x \in with : TRUE IN [shelf |-> k, bay |-> table[k].bays[d]]
          [] with = {} /\ slotless # {} -> [shelf |-> CHOOSE x \in slotless : TRUE, bay |-> None]
          [] with = {} /\ slotless = {} /\ Cardinality(mine) = 1 -> [shelf |-> CHOOSE x \in mine : TRUE, bay |-> None]
          [] OTHER -> Unplaced
KeepsBay(old, fresh) == [fresh EXCEPT !.bay = IF @ = None THEN old.bay ELSE @] \* mutant: a bay outlives its shelf
Refreshed(old, fresh) == IF old.shelf # fresh.shelf THEN fresh
                         ELSE [fresh EXCEPT !.bay = IF @ = None THEN old.bay ELSE @]

(***************************************************************************)
(* The pass.  One scan at a time; one that does not come back within its   *)
(* limit leaves the table, and is waited for before another begins.        *)
(***************************************************************************)
BeginScan ==
    /\ round.pc = "rest"
    /\ round' = IF round.busy THEN [round EXCEPT !.pc = "hbas", !.still = FALSE]
                ELSE [pc |-> "shelves", busy |-> TRUE, still |-> TRUE]
    /\ UNCHANGED <<lists, cards, ses, table, hbas, at, told, gave, shifts, stalls>>

\* merge_shelves: an error is said once, and again when it changes; a recovery is not.
Error(k, fresh) == IF fresh[k].error # None THEN fresh[k].error
                   ELSE IF k \in DOMAIN table THEN told.shelves[k].error ELSE None
Said(k, fresh) ==
    [status |-> IF k \notin DOMAIN table THEN None
                ELSE IF table[k].status # fresh[k].status THEN fresh[k].status ELSE told.shelves[k].status,
     error |-> Error(k, fresh)]
MergeShelves ==
    /\ round.pc = "shelves"
    /\ table' = Scanned
    /\ told' = [told EXCEPT !.shelves = [k \in DOMAIN Scanned |-> Said(k, Scanned)]]
    /\ round' = [round EXCEPT !.pc = "hbas", !.busy = FALSE]
    /\ gave' = gave \union UNION {{<<k, d, table'[k].bays[d]>> : d \in DOMAIN table'[k].bays} : k \in DOMAIN table'}
    /\ UNCHANGED <<lists, cards, ses, hbas, at, shifts, stalls>>

ScanLimit ==
    /\ round.pc = "shelves"
    /\ stalls > 0 /\ stalls' = stalls - 1
    /\ round' = [round EXCEPT !.pc = "hbas", !.still = FALSE]
    /\ UNCHANGED <<lists, cards, ses, table, hbas, at, told, gave, shifts>>
\* What it read is dropped.
ScanBack ==
    /\ round.busy /\ round.pc # "shelves"
    /\ round' = [round EXCEPT !.busy = FALSE]
    /\ UNCHANGED <<lists, cards, ses, table, hbas, at, told, gave, shifts, stalls>>

\* assemble: the hosts of one card are one entry; the first of them with a value gives it.
OnCard(c) == {h \in Hosts : cards[h] # None /\ (cards[h] # None => cards[h].card = c)}
FirstValue(c) ==
    LET with == {h \in OnCard(c) : cards[h].firmware # None}
    IN  IF with = {} THEN None ELSE cards[CHOOSE h \in with : \A o \in with : h <= o].firmware
Assembled == [c \in {cards[h].card : h \in {x \in Hosts : cards[x] # None}} |-> [hosts |-> OnCard(c), firmware |-> FirstValue(c)]]
\* diff: a card that is new or gone, and firmware that is known and another.
OnlyKnown(old, new) == old # None /\ new # None /\ old # new \* mutant: only from one known to another
Flashed(old, new) == old # new /\ new # None
MergeHbas ==
    /\ round.pc = "hbas"
    /\ hbas' = Assembled
    /\ told' = [told EXCEPT !.cards = [c \in DOMAIN Assembled |->
                  IF c \notin DOMAIN hbas \/ Flashed(hbas[c].firmware, Assembled[c].firmware)
                  THEN Assembled[c].firmware ELSE told.cards[c]]]
    /\ round' = [round EXCEPT !.pc = "drives"]
    /\ UNCHANGED <<lists, cards, ses, table, at, gave, shifts, stalls>>

MergeDrives ==
    /\ round.pc = "drives"
    /\ at' = [h \in Controllers |-> [d \in Disks |-> Refreshed(at[h][d], Place(h, d))]]
    /\ round' = [round EXCEPT !.pc = "rest"]
    /\ UNCHANGED <<lists, cards, ses, table, hbas, told, gave, shifts, stalls>>

(***************************************************************************)
(* The hardware.                                                           *)
(***************************************************************************)
Shift == shifts > 0 /\ shifts' = shifts - 1 /\ round' = [round EXCEPT !.still = FALSE]
Relist(h) ==
    /\ Shift
    /\ \E l \in Lists \ {lists[h]} : lists' = [lists EXCEPT ![h] = l]
    /\ UNCHANGED <<cards, ses, table, hbas, at, told, gave, stalls>>
Recard(h) ==
    /\ Shift
    /\ \E c \in Cards \ {cards[h]} : cards' = [cards EXCEPT ![h] = c]
    /\ UNCHANGED <<lists, ses, table, hbas, at, told, gave, stalls>>
SesChanges ==
    /\ Shift
    /\ ses' \in {None, "ok", "bad"} \ {ses}
    /\ UNCHANGED <<lists, cards, table, hbas, at, told, gave, stalls>>

RNext ==
    \/ BeginScan \/ MergeShelves \/ ScanLimit \/ ScanBack \/ MergeHbas \/ MergeDrives \/ SesChanges
    \/ \E h \in Controllers : Relist(h)
    \/ \E h \in Hosts : Recard(h)

RSpec == RInit /\ [][RNext]_rvars

-----------------------------------------------------------------------------
(* After a pass during which nothing changed and the scan came back: a disk    *)
(* its controller lists is on the shelf of the enclosure it is said to be in,  *)
(* or of the only one the controller has, in the slot it is said to be in; and *)
(* every controller has a shelf, readable or not (megaraid.rs, read, place).   *)
Located ==
    round.pc = "rest" /\ round.still =>
        \A h \in Controllers :
            /\ \E k \in DOMAIN table : table[k].host = h
            /\ \A d \in Disks :
                 /\ at[h][d].shelf # None => at[h][d].shelf \in DOMAIN table /\ at[h][d].shelf[1] = h
                 /\ lists[h] = None => at[h][d].shelf = Key(h, None, FALSE)
                 /\ lists[h] # None => LET l == lists[h] IN d \in Listed(l) =>
                       /\ at[h][d].shelf[2] \in l.entries \union {None, l.disk[d].enclosure}
                       /\ l.disk[d].enclosure = None =>
                             (at[h][d].shelf[2] # None <=> Cardinality(l.entries) = 1)
                       /\ l.disk[d].enclosure # None => at[h][d].shelf[2] = l.disk[d].enclosure
                       /\ l.disk[d].slot # None => at[h][d].bay = l.disk[d].slot

(* A reader of the log knows which shelves are reachable, the error of one that *)
(* could not be read, the status of one whose status moved, and the firmware a  *)
(* card was last known to run, also when it was unknown in between (monitor.rs, *)
(* merge_shelves; hba.rs, diff).                                                *)
LogTells ==
    /\ DOMAIN told.shelves = DOMAIN table /\ DOMAIN told.cards = DOMAIN hbas
    /\ \A k \in DOMAIN table :
          /\ table[k].error # None => told.shelves[k].error = table[k].error
          /\ told.shelves[k].status \in {None, table[k].status}
    /\ \A c \in DOMAIN hbas : hbas[c].firmware # None => told.cards[c] = hbas[c].firmware

(* A bay is one that very shelf gave the disk: it may outlive a pass that could   *)
(* not read it, and never goes along to another shelf (drive.rs, refreshed).       *)
BayIsItsShelfs ==
    \A h \in Controllers, d \in Disks : at[h][d].bay # None => <<at[h][d].shelf, d, at[h][d].bay>> \in gave

RaidOK == Located /\ BayIsItsShelfs /\ LogTells
=============================================================================
