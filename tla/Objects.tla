------------------------------ MODULE Objects ------------------------------
(***************************************************************************)
(* The Shelf and Drive objects of the controller (controller.rs shelves,   *)
(* drives, put_drive; shelfobj.rs): two nodes that may see the same shelf  *)
(* and hold a record of the same drive, each a loop of passes against one  *)
(* apiserver.  Every call is a step of its own: what a pass listed may be  *)
(* old when it writes, and any call may fail.                              *)
(***************************************************************************)
EXTENDS Ses, TLC

CONSTANTS Nodes,
          Reports,      \* the reports a scan of the shelf may give, by name; one is "ok"
          Moves,        \* per behaviour: how often each thing outside may happen
          Here          \* the node the shelf is cabled to first

VARIABLES shelf, drive, \* the objects on the apiserver, or None
          sees,         \* per node: the report of its last scan, or None
          inv,          \* per node: its record of the drive: None, present or missing
          ctl,          \* per node: the controller
          limit,        \* what is left of the budget
          lost,       \* history: a defaultFormat was taken away, a Shelf deleted or a controller restarted
          told        \* history: the conditions an event was pushed about

ovars == <<shelf, drive, sees, inv, ctl, limit, lost, told>>

NoStatus == [node |-> None, present |-> None, cond |-> <<>>]
CondOf == [r \in DOMAIN Reports |-> Conditions(Reports[r])]
Fresh(fp) == [fp |-> fp, fresh |-> TRUE]
Started == [pc |-> "idle", list |-> None, rep |-> None, default |-> None, mine |-> None,
            wrote |-> None, swrote |-> None]

OInit ==
    /\ shelf = None /\ drive = None
    /\ sees = [n \in Nodes |-> IF n = Here THEN "ok" ELSE None]
    /\ inv = [n \in Nodes |-> IF n = Here THEN "present" ELSE None]
    /\ ctl = [n \in Nodes |-> Started]
    /\ limit \in Moves
    /\ lost = {} /\ told = {}

Step(n, from, to, with) ==
    /\ ctl[n].pc = from
    /\ ctl' = [ctl EXCEPT ![n] = [pc |-> to] @@ with @@ @]
Spend(what) == limit[what] > 0 /\ limit' = [limit EXCEPT ![what] = @ - 1]

(***************************************************************************)
(* Shelves.                                                                *)
(***************************************************************************)

\* The list: every Shelf's defaultFormat; then what this node does with its shelf.
AfterShelfList(n) ==
    CASE sees[n] # None /\ shelf = None -> "create"
      [] sees[n] # None /\ shelf # None -> IF shelf.node \in {None, n} THEN "tell" ELSE "drives"
      [] sees[n] = None /\ shelf # None ->
            IF shelf.node = n /\ shelf.status.present # FALSE THEN "unseen" ELSE "drives"
      [] OTHER -> "drives"
ListShelves(n) ==
    /\ Step(n, "idle", AfterShelfList(n),
            [list |-> shelf, rep |-> sees[n], default |-> IF shelf = None THEN None ELSE shelf.format])
    /\ UNCHANGED <<shelf, drive, sees, inv, limit, lost, told>>

\* A failed pass over the shelves keeps the last defaults it read.
NoDefault(n) == None \* mutant
KeptDefault(n) == ctl[n].default
ShelfCallFails(n) ==
    /\ ctl[n].pc \in {"idle", "create", "put", "unseen"} /\ Spend("fails")
    /\ Step(n, ctl[n].pc, "drives", [default |-> KeptDefault(n)])
    /\ UNCHANGED <<shelf, drive, sees, inv, lost, told>>

\* Made by this node, or by another one meanwhile (409): goes on either way.
CreateShelf(n) ==
    /\ Step(n, "create", "tell", <<>>)
    /\ shelf' = IF shelf = None THEN [node |-> n, status |-> NoStatus, format |-> None] ELSE shelf
    /\ UNCHANGED <<drive, sees, inv, limit, lost, told>>

\* An event per condition that changed since the listed status; then the
\* status, when it differs from the last one written or that is old.
Listed(n) == IF ctl[n].list = None THEN <<>> ELSE ctl[n].list.status.cond
ShelfStatus(n) == [node |-> n, present |-> TRUE, cond |-> CondOf[ctl[n].rep]]
DueChanged(wrote, fp) == wrote = None \/ wrote.fp # fp \* mutant: never merely old
Due(wrote, fp) == wrote = None \/ wrote.fp # fp \/ ~wrote.fresh
Tell(n) ==
    /\ Step(n, "tell", IF Due(ctl[n].swrote, ShelfStatus(n)) THEN "put" ELSE "drives", <<>>)
    /\ told' = told \union Transitions(CondOf[ctl[n].rep], Listed(n))
    /\ UNCHANGED <<shelf, drive, sees, inv, limit, lost>>

\* The writer's label on an object that was there, then the status; an object
\* deleted meanwhile is an error of this pass.
PutShelf(n) ==
    /\ IF shelf = None THEN Step(n, "put", "drives", <<>>) /\ UNCHANGED shelf
       ELSE /\ Step(n, "put", "drives", [swrote |-> Fresh(ShelfStatus(n))])
            /\ shelf' = [shelf EXCEPT !.status = ShelfStatus(n),
                                      !.node = IF ctl[n].list = None THEN @ ELSE n]
    /\ UNCHANGED <<drive, sees, inv, limit, lost, told>>

\* A shelf this node wrote and no longer sees.
Unseen(n) ==
    /\ IF shelf = None THEN Step(n, "unseen", "drives", <<>>) /\ UNCHANGED shelf
       ELSE /\ Step(n, "unseen", "drives", [swrote |-> None])
            /\ shelf' = [shelf EXCEPT !.status.present = FALSE]
    /\ UNCHANGED <<drive, sees, inv, limit, lost, told>>

(***************************************************************************)
(* Drives.                                                                 *)
(***************************************************************************)

\* The objects of this node and what their spec wants; the format is planned
\* by the drive's own wish, else the shelf's default, else the preference.
Plan(n, item) ==
    CASE item # None /\ item.format # None -> "drive"
      [] (item = None \/ item.format = None) /\ ctl[n].default # None -> "shelf"
      [] OTHER -> "preference"
DriveStatus(n, item) == [node |-> n, activity |-> inv[n], from |-> Plan(n, item)]
ListDrives(n) ==
    LET item == IF drive # None /\ drive.node = n THEN drive ELSE None
        st == IF inv[n] = None THEN None ELSE DriveStatus(n, item)
    IN  /\ Step(n, "drives", CASE st # None /\ Due(ctl[n].wrote, st) -> "main"
                               [] st = None /\ item # None -> "forget"
                               [] OTHER -> "idle",
                [list |-> item, mine |-> st])
        /\ UNCHANGED <<shelf, drive, sees, inv, limit, lost, told>>

\* put_drive: labels into the object, made when it is not there; the status.
PutMain(n) ==
    /\ Step(n, "main", "status", <<>>)
    /\ drive' = IF drive = None THEN [node |-> n, status |-> None, format |-> None] ELSE [drive EXCEPT !.node = n]
    /\ UNCHANGED <<shelf, sees, inv, limit, lost, told>>
PutStatus(n) ==
    /\ IF drive = None THEN Step(n, "status", "idle", <<>>) /\ UNCHANGED drive
       ELSE /\ Step(n, "status", "idle", [wrote |-> Fresh(ctl[n].mine)])
            /\ drive' = [drive EXCEPT !.status = ctl[n].mine]
    /\ UNCHANGED <<shelf, sees, inv, limit, lost, told>>

ForgetLost(n) == \* mutant: its label is taken off, the object stays
    /\ Step(n, "forget", "idle", [wrote |-> None])
    /\ drive' = IF drive = None THEN None ELSE [drive EXCEPT !.node = None]
    /\ UNCHANGED <<shelf, sees, inv, limit, lost, told>>
\* An object of this node whose drive has no record here any more.
ForgetObject(n) ==
    /\ Step(n, "forget", "idle", [wrote |-> None])
    /\ drive' = None
    /\ UNCHANGED <<shelf, sees, inv, limit, lost, told>>

DriveCallFails(n) ==
    /\ ctl[n].pc \in {"drives", "main", "status", "forget"} /\ Spend("fails")
    /\ Step(n, ctl[n].pc, "idle", <<>>)
    /\ UNCHANGED <<shelf, drive, sees, inv, lost, told>>

(***************************************************************************)
(* Time, and what happens outside.                                         *)
(***************************************************************************)
Old(w) == IF w = None THEN None ELSE [w EXCEPT !.fresh = FALSE]
RefreshDue(n) ==
    /\ ctl[n].pc = "idle"
    /\ ctl' = [ctl EXCEPT ![n].wrote = Old(@), ![n].swrote = Old(@)]
    /\ UNCHANGED <<shelf, drive, sees, inv, limit, lost, told>>

Restart(n) ==
    /\ Spend("restarts")
    /\ ctl' = [ctl EXCEPT ![n] = Started]
    /\ lost' = lost \union {"memory"}
    /\ UNCHANGED <<shelf, drive, sees, inv, told>>

\* The shelf's condition changes; it is cabled to another node, with its drive,
\* or to a second one.
Scanned(n) ==
    /\ sees[n] # None /\ Spend("changes")
    /\ \E r \in DOMAIN Reports \ {sees[n]} : sees' = [m \in Nodes |-> IF sees[m] = None THEN None ELSE r]
    /\ UNCHANGED <<shelf, drive, inv, ctl, lost, told>>
Cable(n, m) ==
    /\ sees[n] # None /\ sees[m] = None /\ Spend("moves")
    /\ sees' = [sees EXCEPT ![n] = None, ![m] = sees[n]]
    /\ inv' = [inv EXCEPT ![n] = IF @ = None THEN None ELSE "missing", ![m] = "present"]
    /\ UNCHANGED <<shelf, drive, ctl, lost, told>>
Share(n, m) ==
    /\ sees[n] # None /\ sees[m] = None /\ Spend("shares")
    /\ sees' = [sees EXCEPT ![m] = sees[n]]
    /\ UNCHANGED <<shelf, drive, inv, ctl, lost, told>>
\* DELETE /api/v1/drives/{id} of a record that is missing.
ForgetRecord(n) ==
    /\ inv[n] = "missing"
    /\ inv' = [inv EXCEPT ![n] = None]
    /\ UNCHANGED <<shelf, drive, sees, ctl, limit, lost, told>>

\* Somebody edits or deletes the objects.
EditShelf ==
    /\ shelf # None /\ Spend("edits")
    /\ shelf' = [shelf EXCEPT !.format = IF @ = None THEN "wanted" ELSE None]
    /\ lost' = IF shelf.format = None THEN lost ELSE lost \union {"default"}
    /\ UNCHANGED <<drive, sees, inv, ctl, told>>
EditDrive ==
    /\ drive # None /\ Spend("edits")
    /\ drive' = [drive EXCEPT !.format = IF @ = None THEN "wanted" ELSE None]
    /\ UNCHANGED <<shelf, sees, inv, ctl, lost, told>>
DeleteDrive == drive # None /\ Spend("deletes") /\ drive' = None /\ UNCHANGED <<shelf, sees, inv, ctl, lost, told>>
DeleteShelf ==
    shelf # None /\ Spend("deletes") /\ shelf' = None /\ lost' = lost \union {"shelf"} /\ UNCHANGED <<drive, sees, inv, ctl, told>>

Pass(n) ==
    \/ ListShelves(n) \/ CreateShelf(n) \/ Tell(n) \/ PutShelf(n) \/ Unseen(n)
    \/ ListDrives(n) \/ PutMain(n) \/ PutStatus(n) \/ ForgetObject(n)
ONext ==
    \/ \E n \in Nodes : \/ Pass(n) \/ ShelfCallFails(n) \/ DriveCallFails(n) \/ RefreshDue(n)
                        \/ Restart(n) \/ Scanned(n) \/ ForgetRecord(n)
                        \/ \E m \in Nodes : Cable(n, m) \/ Share(n, m)
    \/ EditShelf \/ EditDrive \/ DeleteDrive \/ DeleteShelf

\* The controller's loop, and time.
OFairness == \A n \in Nodes : WF_ovars(Pass(n)) /\ SF_ovars(RefreshDue(n))
OSpec == OInit /\ [][ONext]_ovars /\ OFairness

(***************************************************************************)
(* What holds.                                                             *)
(***************************************************************************)
\* The types of the objects and of the passes.
ObjectsOK ==
    /\ inv \in [Nodes -> {None, "present", "missing"}]
    /\ \A n \in Nodes : ctl[n].pc \in {"idle", "create", "tell", "put", "unseen", "drives", "main", "status", "forget"}
    /\ shelf # None => shelf.node \in Nodes /\ shelf.status.present \in {None, TRUE, FALSE}
    /\ drive # None => drive.node \in Nodes

\* A node that alone holds a record of the drive has its object tell it, again
\* and again: deleted by hand, taken down by a node it moved from, failed
\* calls, all are made good.
Alone(n) == inv[n] # None /\ \A m \in Nodes \ {n} : inv[m] = None
DriveIsTold ==
    \A n \in Nodes : []<>(Alone(n) => /\ drive # None /\ drive.status # None
                                      /\ drive.node = n /\ drive.status.activity = inv[n])

\* The object of a shelf tells what its writer sees, also after another node
\* made it at the same time.
ShelfIsTold ==
    \A n \in Nodes : []<>(shelf # None /\ shelf.node = n /\ sees[n] # None =>
                              shelf.status = [node |-> n, present |-> TRUE, cond |-> CondOf[sees[n]]])

\* Both objects come to tell what is there, whatever calls failed before.
ObjectsAreTold == DriveIsTold /\ ShelfIsTold /\ []ObjectsOK

\* A condition that turns bad on the object was said in an event by the node
\* that sees it.  (A Shelf deleted and made again between the two is new.)
BadOn(s, k) == s # None /\ k \in DOMAIN s.status.cond /\ IsBad(k, s.status.cond[k])
TroubleIsSaid ==
    [][shelf' # None =>
         \A k \in DOMAIN shelf'.status.cond :
            BadOn(shelf', k) /\ ~BadOn(shelf, k) => k \in told \/ "shelf" \in lost]_ovars

\* A drive planned by its shelf's default stays so until the default is taken
\* away or another node takes it over: a pass that could not read the Shelves
\* changes no plan.  (The defaults are only in memory: a restart forgets them.)
Planned == drive # None /\ drive.status # None
DefaultKept ==
    [][Planned /\ Planned' /\ drive.status.from = "shelf" /\ drive'.status.from = "preference"
         => lost # {} \/ drive.status.node # drive'.status.node]_ovars

\* "The node that sees the shelf writes `status`" (src/shelfobj.rs:4).
SeenShelfIsWritten ==
    \A n \in Nodes : []<>(sees[n] # None /\ (\A m \in Nodes \ {n} : sees[m] = None) =>
                              shelf # None /\ shelf.status.node = n /\ shelf.status.present = TRUE)
=============================================================================
