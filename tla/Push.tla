-------------------------------- MODULE Push --------------------------------
(***************************************************************************)
(* What the node and the engine tell each other of a drive besides its     *)
(* health and heat: the usage and the membership the monitor reads, the    *)
(* location labels and the overcommit setting the fleet loop pushes        *)
(* (monitor.rs, fleet.rs, api/mod.rs), while drives join and leave, the    *)
(* operator changes the setting, and answers are lost.  Health words and   *)
(* drains are Fleet's.                                                     *)
(***************************************************************************)
EXTENDS Usage

CONSTANTS Drives, Names,      \* drives, and what names each (Usage)
          Places, Settings,   \* locations (None: no labels), overcommit settings (0: off)
          Listings,           \* the engine's slab and volume listings over time
          Courses             \* how often things happen, and how drives are at first

VARIABLES rec,     \* per drive: fleet member, here, place, oc, what was pushed, usage
          eng,     \* the engine: what it holds of each drive, its routes and listing
          loop,    \* the monitor's and fleet's loop
          req,     \* per drive: a join or leave under way at the API
          stale,   \* history, per drive: of what the engine may hold another value than was pushed
          left     \* how much more may happen

\* A slab is one, and names the WWN of its drive or none, in every listing; what is pushed
\* is no None.
Jobs == [drive : Drives, value : Places \union Settings \union {None, 0}]
AllSlabs == UNION {Listings[i].slabs : i \in DOMAIN Listings}
ASSUME ListingsAssumption ==
    /\ None \notin Jobs /\ \A c \in Courses : c.fleet \subseteq Drives
    /\ Len(Listings) \in Nat \ {0} /\ DOMAIN Listings = 1 .. Len(Listings)
    /\ \A i \in DOMAIN Listings : \A s, t \in Listings[i].slabs : s.id = t.id => s = t
    /\ \A s, t \in AllSlabs : s.id = t.id /\ s.ref.wwn # None => t.ref.wwn # None

pvars == <<rec, eng, loop, req, stale, left>>

NoReq == [pc |-> "none", place |-> None, overtaken |-> FALSE]
AtRest == [pc |-> "rest", slabs |-> {}, listed |-> {}, todo |-> {}, job |-> None, found |-> TRUE,
           crossed |-> FALSE, paused |-> FALSE]
At(pc) == loop' = [loop EXCEPT !.pc = pc]

PInit ==
    /\ \E c \in Courses :
          /\ left = c.left
          /\ rec = [dr \in Drives |-> [member |-> dr \in c.fleet, here |-> TRUE, place |-> None, oc |-> 0,
                                       labels |-> None, pushedOc |-> None, usage |-> None]]
          /\ eng = [open |-> c.fleet, labels |-> [dr \in Drives |-> None], oc |-> [dr \in Drives |-> None],
                    routes |-> c.routes, listing |-> 1]
    /\ loop = AtRest
    /\ req = [dr \in Drives |-> NoReq]
    /\ stale = [dr \in Drives |-> {}]

Spend(what) == left[what] > 0 /\ left' = [left EXCEPT ![what] = @ - 1]
Slabs == Listings[eng.listing].slabs
HasSlab(dr) == \E s \in Slabs : SlabOn(s.ref, Names[dr])

(***************************************************************************)
(* The monitor.  A scan sees where drives are; then the engine is read.    *)
(***************************************************************************)
Scan ==
    /\ loop.pc = "rest"
    /\ \/ UNCHANGED <<rec, left>>
       \/ /\ Spend("moves")
          /\ \E dr \in Drives, h \in BOOLEAN, p \in Places :
                rec' = [rec EXCEPT ![dr].here = h, ![dr].place = IF h THEN p ELSE rec[dr].place]
    /\ At("slabs")
    /\ UNCHANGED <<eng, req, stale>>

ListSlabs ==
    /\ loop.pc = "slabs"
    /\ \/ loop' = [loop EXCEPT !.pc = "volumes", !.slabs = Slabs] /\ UNCHANGED left
       \/ Spend("fails") /\ At("list")
    /\ UNCHANGED <<rec, eng, req, stale>>

\* The time of an answer is the listing it is of.
ListVolumes ==
    /\ loop.pc = "volumes"
    /\ \E volumes \in {Listings[eng.listing].volumes, None} :
          /\ IF volumes = None THEN Spend("fails") ELSE UNCHANGED left
          /\ rec' = [dr \in Drives |-> [rec[dr] EXCEPT !.usage =
                        Refresh(Names[dr], rec[dr].oc, loop.slabs, volumes, @, eng.listing)]]
    /\ loop' = [loop EXCEPT !.pc = "list", !.slabs = {}]
    /\ UNCHANGED <<eng, req, stale>>

ListDrives ==
    /\ loop.pc = "list"
    /\ \/ loop' = [loop EXCEPT !.pc = "adopt", !.listed = eng.open] /\ UNCHANGED left
       \/ Spend("fails") /\ At("labels")
    /\ UNCHANGED <<rec, eng, req, stale>>

\* Nothing that was pushed is cleared.
Reconcile ==
    /\ loop.pc = "adopt"
    /\ rec' = [dr \in Drives |-> [rec[dr] EXCEPT !.member = dr \in loop.listed]]
    /\ loop' = [loop EXCEPT !.pc = "labels", !.listed = {}]
    /\ UNCHANGED <<eng, req, stale, left>>

(***************************************************************************)
(* The pushes: what is due is taken under one lock, sent without it, and   *)
(* noted under another.                                                    *)
(***************************************************************************)
HoldsSlabs(r) == r.usage # None /\ (r.usage # None => r.usage.slabs # {})
Job(dr, v) == [drive |-> dr, value |-> v]
OnlyAtFirst == \* mutant: a drive that has labels is not told new ones
    /\ loop.pc = "labels"
    /\ loop' = [loop EXCEPT !.pc = "label", !.todo =
            {Job(dr, rec[dr].place) : dr \in {e \in Drives :
                rec[e].member /\ rec[e].here /\ rec[e].labels = None /\ rec[e].place # None}}]
    /\ UNCHANGED <<rec, eng, req, stale, left>>
SyncLabels ==
    /\ loop.pc = "labels"
    /\ loop' = [loop EXCEPT !.pc = "label", !.todo =
            {Job(dr, rec[dr].place) : dr \in {e \in Drives :
                rec[e].member /\ rec[e].here /\ rec[e].labels # rec[e].place}}]
    /\ UNCHANGED <<rec, eng, req, stale, left>>

SyncOvercommit ==
    /\ loop.pc = "overcommit"
    /\ loop' = [loop EXCEPT !.pc = "price", !.todo = IF loop.paused THEN {} ELSE
            {Job(dr, rec[dr].oc) : dr \in {e \in Drives :
                /\ rec[e].here
                /\ rec[e].member \/ HoldsSlabs(rec[e])
                /\ rec[e].pushedOc # rec[e].oc}}]
    /\ UNCHANGED <<rec, eng, req, stale, left>>

\* The engine takes it if it knows the drive, and the answer may be lost.
PushJob(what, known, heard) ==
    \E job \in loop.todo :
        LET taken == IF job.drive \in known THEN [eng EXCEPT ![what][job.drive] = job.value] ELSE eng
        IN  /\ eng' = taken
            /\ req' = [req EXCEPT ![job.drive].overtaken = @ \/ (what = "labels" /\ req[job.drive].pc = "joins")]
            /\ \/ /\ loop' = [loop EXCEPT !.pc = heard, !.todo = @ \ {job}, !.job = job, !.crossed = FALSE,
                                          !.found = job.drive \in known]
                  /\ UNCHANGED <<stale, left>>
               \/ /\ Spend("fails")
                  /\ loop' = [loop EXCEPT !.todo = @ \ {job}]
                  /\ stale' = IF taken = eng THEN stale ELSE [stale EXCEPT ![job.drive] = @ \union {what}]

SendLabels ==
    /\ loop.pc = "label"
    /\ PushJob("labels", eng.open, "labels heard")
    /\ UNCHANGED rec

\* Found opened, or by its slabs.
SendOvercommit ==
    /\ loop.pc = "price"
    /\ PushJob("oc", {dr \in Drives : eng.routes /\ (dr \in eng.open \/ HasSlab(dr))}, "price heard")
    /\ UNCHANGED rec

\* What the engine was sent is what it was told, unless it let the drive go meanwhile.
Told(what) ==
    stale' = [stale EXCEPT ![loop.job.drive] = IF loop.crossed THEN @ \union {what} ELSE @ \ {what}]

HearLabels ==
    /\ loop.pc = "labels heard"
    /\ IF loop.found THEN rec' = [rec EXCEPT ![loop.job.drive].labels = loop.job.value] /\ Told("labels")
                     ELSE UNCHANGED <<rec, stale>>
    /\ loop' = [loop EXCEPT !.pc = "label", !.job = None]
    /\ UNCHANGED <<eng, req, left>>

\* Not found: taken for an engine without the route, nothing more is pushed for a while.
OnlyThisOne == \* mutant: the drive is passed over as if it had been told
    /\ loop.pc = "price heard"
    /\ rec' = [rec EXCEPT ![loop.job.drive].pushedOc = loop.job.value]
    /\ Told("oc")
    /\ loop' = [loop EXCEPT !.pc = "price", !.job = None]
    /\ UNCHANGED <<eng, req, left>>
HearOvercommit ==
    /\ loop.pc = "price heard"
    /\ IF loop.found THEN rec' = [rec EXCEPT ![loop.job.drive].pushedOc = loop.job.value] /\ Told("oc")
                     ELSE UNCHANGED <<rec, stale>>
    /\ loop' = IF loop.found THEN [loop EXCEPT !.pc = "price", !.job = None]
                             ELSE [loop EXCEPT !.pc = "drains", !.job = None, !.todo = {}, !.paused = TRUE]
    /\ UNCHANGED <<eng, req, left>>

AllSent ==
    /\ loop.pc \in {"label", "price"} /\ loop.todo = {}
    /\ At(IF loop.pc = "label" THEN "overcommit" ELSE "drains")
    /\ UNCHANGED <<rec, eng, req, stale, left>>

RetryAgain ==
    /\ loop.paused /\ loop' = [loop EXCEPT !.paused = FALSE]
    /\ UNCHANGED <<rec, eng, req, stale, left>>

\* The engine closes a drive: what it was told goes with it.
Closed(dr) == [eng EXCEPT !.open = @ \ {dr}, !.labels[dr] = None, !.oc[dr] = None]
Overtakes(dr) == req' = [req EXCEPT ![dr].overtaken = @ \/ req[dr].pc = "joins"]
Crossed(dr) == [loop EXCEPT !.crossed = @ \/ (loop.job # None /\ (loop.job # None => loop.job.drive = dr))]

\* A drive whose drain has come to its end (Fleet) leaves.
Retire ==
    /\ loop.pc = "drains"
    /\ \/ At("rest") /\ UNCHANGED <<eng, req, left>>
       \/ /\ Spend("retires")
          /\ \E dr \in eng.open :
                /\ rec[dr].member
                /\ eng' = Closed(dr) /\ Overtakes(dr)
                /\ loop' = [loop EXCEPT !.pc = "retired", !.job = Job(dr, None)]
    /\ UNCHANGED <<rec, stale>>

KeepsPushed == \* mutant: out of the fleet, as a forced leave does
    /\ loop.pc = "retired"
    /\ rec' = [rec EXCEPT ![loop.job.drive].member = FALSE]
    /\ loop' = [loop EXCEPT !.pc = "rest", !.job = None]
    /\ UNCHANGED <<eng, req, stale, left>>
Retired ==
    /\ loop.pc = "retired"
    /\ rec' = [rec EXCEPT ![loop.job.drive].member = FALSE, ![loop.job.drive].labels = None,
                          ![loop.job.drive].pushedOc = None]
    /\ stale' = [stale EXCEPT ![loop.job.drive] = {}]
    /\ loop' = [loop EXCEPT !.pc = "rest", !.job = None]
    /\ UNCHANGED <<eng, req, left>>

(***************************************************************************)
(* The API, one join or leave of a drive at a time.                        *)
(***************************************************************************)
\* Priced again at once, by what the engine last said.
NotPriced(dr, v) == \* mutant: until the next listing
    /\ Spend("settings")
    /\ rec' = [rec EXCEPT ![dr].oc = v]
    /\ UNCHANGED <<eng, loop, req, stale>>
SetOvercommit(dr, v) ==
    /\ Spend("settings")
    /\ rec' = [rec EXCEPT ![dr].oc = v, ![dr].usage = IF @ = None THEN None ELSE Priced(@, v)]
    /\ UNCHANGED <<eng, loop, req, stale>>

Join(dr) ==
    /\ req[dr].pc = "none" /\ ~rec[dr].member /\ rec[dr].here
    /\ Spend("joins")
    /\ eng' = [eng EXCEPT !.open = @ \union {dr}, !.labels[dr] = rec[dr].place]
    /\ req' = [req EXCEPT ![dr] = [NoReq EXCEPT !.pc = "joins", !.place = rec[dr].place]]
    /\ UNCHANGED <<rec, loop, stale>>

Joined(dr) ==
    /\ req[dr].pc = "joins"
    /\ rec' = [rec EXCEPT ![dr].member = TRUE, ![dr].labels = req[dr].place, ![dr].pushedOc = None]
    /\ stale' = [stale EXCEPT ![dr] = IF req[dr].overtaken THEN {"labels"} ELSE {}]
    /\ req' = [req EXCEPT ![dr] = NoReq]
    /\ UNCHANGED <<eng, loop, left>>

\* Forced, or of an empty drive: nothing that was pushed is cleared.  One the engine does
\* not have is not let go (404).
Leave(dr) ==
    /\ req[dr].pc = "none" /\ rec[dr].member /\ dr \in eng.open
    /\ Spend("leaves")
    /\ eng' = Closed(dr)
    /\ loop' = Crossed(dr)
    /\ stale' = [stale EXCEPT ![dr] = {"labels", "oc"}]
    /\ req' = [req EXCEPT ![dr].pc = "leaves"]
    /\ UNCHANGED rec

Left(dr) ==
    /\ req[dr].pc = "leaves"
    /\ rec' = [rec EXCEPT ![dr].member = FALSE]
    /\ req' = [req EXCEPT ![dr] = NoReq]
    /\ UNCHANGED <<eng, loop, stale, left>>

(***************************************************************************)
(* The engine by itself: its slabs and volumes change, it is upgraded, and *)
(* somebody else opens or closes a drive there.                            *)
(***************************************************************************)
EngineMovesOn ==
    /\ Spend("engine")
    /\ \/ /\ \/ eng.listing < Len(Listings) /\ eng' = [eng EXCEPT !.listing = @ + 1]
             \/ ~eng.routes /\ eng' = [eng EXCEPT !.routes = TRUE]
             \/ \E dr \in Drives \ eng.open : eng' = [eng EXCEPT !.open = @ \union {dr}]
          /\ UNCHANGED <<loop, req, stale>>
       \/ \E dr \in eng.open :
             /\ eng' = Closed(dr) /\ Overtakes(dr) /\ loop' = Crossed(dr)
             /\ stale' = [stale EXCEPT ![dr] = {"labels", "oc"}]
    /\ UNCHANGED rec

LoopStep ==
    \/ Scan \/ ListSlabs \/ ListVolumes \/ ListDrives \/ Reconcile
    \/ SyncLabels \/ SendLabels \/ HearLabels \/ SyncOvercommit \/ SendOvercommit \/ HearOvercommit
    \/ AllSent \/ Retire \/ Retired
Answer(dr) == Joined(dr) \/ Left(dr)

PNext ==
    \/ LoopStep \/ RetryAgain \/ EngineMovesOn
    \/ \E dr \in Drives : Join(dr) \/ Leave(dr) \/ Answer(dr) \/ \E v \in Settings : SetOvercommit(dr, v)

PFairness == WF_pvars(LoopStep) /\ WF_pvars(RetryAgain) /\ \A dr \in Drives : WF_pvars(Answer(dr))
PSpec == PInit /\ [][PNext]_pvars /\ PFairness

-----------------------------------------------------------------------------
(* The engine holds the labels and the setting the record says were pushed   *)
(* (fleet.rs, sync_labels and sync_overcommit), through moves, joins, retired *)
(* drives and changes of the setting while a push is on its way.  Not when an *)
(* answer was lost, or the drive was closed by a leave that clears nothing;   *)
(* of a record without any they are pushed yet.                               *)
Underway(dr, heard) == loop.pc \in {heard, "retired"} /\ loop.job.drive = dr
HeldAsPushed ==
    \A dr \in Drives :
        /\ "labels" \notin stale[dr] /\ rec[dr].labels # None /\ req[dr].pc = "none" /\ ~Underway(dr, "labels heard") =>
             eng.labels[dr] = rec[dr].labels
        /\ "oc" \notin stale[dr] /\ rec[dr].pushedOc # None /\ ~Underway(dr, "price heard") =>
             eng.oc[dr] = rec[dr].pushedOc

(* The headroom shown is by the setting of record (api/mod.rs, set_overcommit; *)
(* usage.rs, priced), whether the engine or the operator was last; volumes are  *)
(* shown with the time of the answer they are from (refresh); and two drives    *)
(* with one serial do not both count a slab that names its WWN (slab_on).       *)
UsageIsTold ==
    \A dr \in Drives : rec[dr].usage # None =>
        LET u == rec[dr].usage
        IN  /\ u.promisable = u.inSlabs * Factor(rec[dr].oc)
            /\ u.volumes # None => u.volumes = VolumesOn(Names[dr], Listings[u.volumesAt].volumes)
            /\ \A e \in Drives \ {dr} : rec[e].usage # None /\ Names[e].wwn # Names[dr].wwn =>
                 \A s \in AllSlabs :
                    s.ref.wwn # None => ~(s.id \in u.slabs /\ s.id \in rec[e].usage.slabs)

PushOK == HeldAsPushed /\ UsageIsTold

(* The engine comes to hold the place and the setting of record of every drive *)
(* of the fleet that is here (fleet.rs, sync_labels, sync_overcommit).         *)
EngineComesToKnow ==
    <>[](\A dr \in Drives : rec[dr].member /\ rec[dr].here /\ dr \in eng.open =>
            /\ "labels" \notin stale[dr] => eng.labels[dr] = rec[dr].place
            /\ "oc" \notin stale[dr] /\ eng.routes => eng.oc[dr] = rec[dr].oc)
=============================================================================
