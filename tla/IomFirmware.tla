---------------------------- MODULE IomFirmware ----------------------------
(***************************************************************************)
(* Shelf firmware (iomfw.rs): a run takes the IOMs of a shelf in order.    *)
(* Each is asked its microcode state, sent the image, watched until it     *)
(* runs it, and the next is touched when the drives have as many paths in  *)
(* the inventory as before.  Around it: the IOM that restarts, the drives' *)
(* paths that come back one by one, and the scan that makes the inventory. *)
(***************************************************************************)
EXTENDS Absent, Naturals, FiniteSets

CONSTANTS Disks, Starts, \* Starts: requests to update the shelf
          IomCount,            \* bound: IOMs of the shelf
          Shelves              \* what the shelf is like: wired (each drive's IOMs), serving drives, allow
                               \* (the starts with allow_path_loss); bounds: starts, pulls (paths lost), fails

VARIABLES shelf,        \* one of Shelves
          code,         \* per IOM: its microcode: "idle", "awaiting", "updating", "done" or "failed"
          gone,         \* the IOMs that are restarting
          path,         \* per drive: the IOMs through which it is reached
          listed,       \* per drive: the same, as of the last scan
          run,          \* per start: its step, IOM, the drives' paths before it, and whether it failed
          current,      \* the start whose run the shelf's entry holds, or None
          scanned,      \* history: a scan has run since an IOM last went down
          excused       \* history: a path was pulled, two starts ran at a time, a run began or went
                        \* on before a scan had looked, or gave up on an IOM still at it

Ioms == 1..IomCount
\* A shelf is what is listed of it, its drives are wired to IOMs of it.
ShelfIs(s) ==
    /\ s = [wired |-> s.wired, serving |-> s.serving, allow |-> s.allow, starts |-> s.starts, pulls |-> s.pulls,
            fails |-> s.fails]
    /\ s.wired \in [Disks -> SUBSET Ioms] /\ s.serving \subseteq Disks
ASSUME ShelvesAssumption == IomCount \in Nat \ {0} /\ None \notin Starts /\ \A s \in Shelves : ShelfIs(s)

ivars == <<shelf, code, gone, path, listed, run, current, scanned, excused>>

Fresh == [pc |-> "none", iom |-> 1, before |-> [d \in Disks |-> 0], failed |-> FALSE]

IomInit ==
    /\ shelf \in Shelves
    /\ code = [i \in Ioms |-> "idle"] /\ gone = {}
    /\ path = shelf.wired /\ listed = shelf.wired
    /\ run = [s \in Starts |-> Fresh] /\ current = None
    /\ scanned = TRUE /\ excused = FALSE

Goes(s, step) == run' = [run EXCEPT ![s].pc = step]
RunFails(s) == run' = [run EXCEPT ![s].pc = "end", ![s].failed = TRUE]
IsRunning(s) == run[s].pc \notin {"none", "check", "over"}

(***************************************************************************)
(* start: refused while the shelf's run is running; then, after awaits,    *)
(* the paths are looked at and the entry is made.                          *)
(***************************************************************************)
AskShelf(s) ==
    /\ run[s].pc = "none" /\ s \in shelf.starts
    /\ current # None => ~IsRunning(current)
    /\ Goes(s, "check")
    /\ UNCHANGED <<shelf, code, gone, path, listed, current, scanned, excused>>

\* path_loss_blocker; a drive that is Missing is reached by nothing.
SingleIomOnly(d) == IomCount < 2 \* mutant: the drives' own paths are not counted
LosesIts(d) == IomCount < 2 \/ Cardinality(listed[d]) < 2
PathLoss == \E d \in shelf.serving : listed[d] # {} /\ LosesIts(d)

StartRun(s) ==
    /\ run[s].pc = "check"
    /\ IF PathLoss /\ s \notin shelf.allow
       THEN Goes(s, "over") /\ UNCHANGED <<current, excused>>
       ELSE /\ Goes(s, "before") /\ current' = s
            /\ excused' = (excused \/ ~scanned \/ \E t \in Starts : IsRunning(t))
    /\ UNCHANGED <<shelf, code, gone, path, listed, scanned>>

(***************************************************************************)
(* One IOM.                                                                *)
(***************************************************************************)
\* shelf_paths before it.
Before(s) ==
    /\ run[s].pc = "before"
    /\ run' = [run EXCEPT ![s].pc = "send", ![s].before = [d \in Disks |-> Cardinality(listed[d])]]
    /\ UNCHANGED <<shelf, code, gone, path, listed, current, scanned, excused>>

\* update_esp: it answers, is not in a download, and takes the image.
Busy(i) == code[i] \in {"awaiting", "updating"}
Send(s) ==
    /\ run[s].pc = "send"
    /\ LET i == run[s].iom
       IN  IF i \in gone \/ Busy(i) THEN RunFails(s) /\ UNCHANGED code
           ELSE Goes(s, "chunks") /\ code' = [code EXCEPT ![i] = "awaiting"]
    /\ UNCHANGED <<shelf, gone, path, listed, current, scanned, excused>>

\* The last chunk starts the update; one that is refused ends the run.
Chunks(s) ==
    /\ run[s].pc = "chunks"
    /\ LET i == run[s].iom
       IN  \/ i \notin gone /\ Goes(s, "watch") /\ code' = [code EXCEPT ![i] = "updating"] /\ UNCHANGED shelf
           \/ /\ i \in gone \/ shelf.fails > 0
              /\ shelf' = IF i \in gone THEN shelf ELSE [shelf EXCEPT !.fails = @ - 1]
              /\ RunFails(s)
              /\ \E c \in {code[i], "failed"} : code' = [code EXCEPT ![i] = c]
    /\ UNCHANGED <<gone, path, listed, current, scanned, excused>>

WatchForever(s) == \* mutant: no RESTART_WAIT
    /\ run[s].pc = "watch" /\ run[s].iom \notin gone /\ code[run[s].iom] # "updating"
    /\ IF code[run[s].iom] \in {"idle", "done"} THEN Goes(s, "paths") ELSE RunFails(s)
    /\ UNCHANGED <<shelf, code, gone, path, listed, current, scanned, excused>>
\* The status page: finished, or discarded, or no word of it within RESTART_WAIT.
Watch(s) ==
    /\ run[s].pc = "watch"
    /\ LET i == run[s].iom
       IN  IF i \notin gone /\ code[i] \in {"idle", "done"} THEN Goes(s, "paths") ELSE RunFails(s)
    /\ excused' = (excused \/ code[run[s].iom] = "updating")
    /\ UNCHANGED <<shelf, code, gone, path, listed, current, scanned>>

\* The paths are back in the inventory, or are not within PATHS_WAIT.
SomeBack(s) == \E d \in Disks : Cardinality(listed[d]) >= run[s].before[d] \* mutant
Back(s) == \A d \in Disks : Cardinality(listed[d]) >= run[s].before[d]
PathsBack(s) ==
    /\ run[s].pc = "paths"
    /\ IF ~Back(s) THEN RunFails(s) /\ UNCHANGED excused
       ELSE /\ run' = [run EXCEPT ![s].pc = IF @ = "paths" /\ run[s].iom < IomCount THEN "before" ELSE "end",
                                  ![s].iom = IF run[s].iom < IomCount THEN run[s].iom + 1 ELSE run[s].iom]
            /\ excused' = (excused \/ ~scanned)
    /\ UNCHANGED <<shelf, code, gone, path, listed, current, scanned>>

\* The IOMs not reached are skipped, the run is done or failed.
EndRun(s) ==
    /\ run[s].pc = "end"
    /\ run' = [run EXCEPT ![s] = [Fresh EXCEPT !.pc = "over", !.failed = run[s].failed]]
    /\ UNCHANGED <<shelf, code, gone, path, listed, current, scanned, excused>>

RunStep(s) == StartRun(s) \/ Before(s) \/ Send(s) \/ Chunks(s) \/ Watch(s) \/ PathsBack(s) \/ EndRun(s)

(***************************************************************************)
(* The shelf.                                                              *)
(***************************************************************************)
\* The image is in flash: the IOM restarts on it, waits for a reset, or refuses it.
Flashed(i) ==
    /\ code[i] = "updating"
    /\ \/ /\ code' = [code EXCEPT ![i] = "idle"] /\ gone' = gone \union {i}
          /\ path' = [d \in Disks |-> path[d] \ {i}]
          /\ scanned' = FALSE
       \/ code' = [code EXCEPT ![i] = "done"] /\ UNCHANGED <<gone, path, scanned>>
       \/ code' = [code EXCEPT ![i] = "failed"] /\ UNCHANGED <<gone, path, scanned>>
    /\ UNCHANGED <<shelf, listed, run, current, excused>>

IomBack(i) ==
    /\ i \in gone /\ gone' = gone \ {i}
    /\ UNCHANGED <<shelf, code, path, listed, run, current, scanned, excused>>

PathBack(d) ==
    /\ \E i \in shelf.wired[d] \ (gone \union path[d]) : path' = [path EXCEPT ![d] = @ \union {i}]
    /\ UNCHANGED <<shelf, code, gone, listed, run, current, scanned, excused>>

\* A cable or a port fails.
Pull(d) ==
    /\ shelf.pulls > 0
    /\ \E i \in shelf.wired[d] :
          /\ shelf' = [shelf EXCEPT !.pulls = @ - 1, !.wired[d] = @ \ {i}]
          /\ path' = [path EXCEPT ![d] = @ \ {i}]
    /\ excused' = TRUE
    /\ UNCHANGED <<code, gone, listed, run, current, scanned>>

\* Discovery, and the merge into the inventory.
Discover ==
    /\ listed' = path /\ scanned' = TRUE
    /\ <<listed', scanned'>> # <<listed, scanned>>
    /\ UNCHANGED <<shelf, code, gone, path, run, current, excused>>

IomNext ==
    \/ \E s \in Starts : AskShelf(s) \/ RunStep(s)
    \/ \E i \in Ioms : Flashed(i) \/ IomBack(i)
    \/ \E d \in Disks : PathBack(d) \/ Pull(d)
    \/ Discover

\* The runtime goes on with a run as long as one can go on.
IomFairness == WF_ivars(\E s \in Starts : RunStep(s))

IomSpec == IomInit /\ [][IomNext]_ivars /\ IomFairness

-----------------------------------------------------------------------------
Offline(d) == path[d] = {} /\ shelf.wired[d] # {}

(* An update of the shelf never takes a serving drive's last path, unless the    *)
(* request allowed it, a path failed, two starts ran at a time, a run began or   *)
(* went on before a scan had seen an IOM's restart, or one was given up that     *)
(* restarts later (iomfw.rs, start).                                             *)
DrivesKeepAPath ==
    ~excused /\ shelf.allow = {} => \A d \in shelf.serving : ~Offline(d)

(* Every run that is asked for ends: an IOM that never answers again, one that   *)
(* stays in the update, and paths that do not come back are given up             *)
(* (iomfw.rs, RESTART_WAIT and PATHS_WAIT).  The starts are as many as Starts    *)
(* has.                                                                          *)
ShelfRunsEnd == <>[](\A s \in Starts : ~IsRunning(s))
=============================================================================
