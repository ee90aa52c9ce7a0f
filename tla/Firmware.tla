------------------------------ MODULE Firmware ------------------------------
(***************************************************************************)
(* Drive firmware (firmware.rs; api/mod.rs, start_firmware): requests      *)
(* check their drives, then start an update of each; a drive that serves   *)
(* data waits for the node's lock and for every volume on it to be         *)
(* redundant, downloads, resets, and its volumes are looked at again       *)
(* before the next one goes.  Around it: the scan, the engine's resync,    *)
(* other legs that fail, and a restart of the daemon.                      *)
(*                                                                         *)
(* The drives carry the legs of one volume.  The engine's answer counts a  *)
(* leg whose drive is away as not ok; a drive back before anything was     *)
(* written to the volume has its leg ok at once.                           *)
(***************************************************************************)
EXTENDS Absent, Naturals, FiniteSets

CONSTANTS Drives, Requests,
          Nodes         \* what the node is like: serves, nvme and failing drives, engine (there is one),
                        \* placed (it lists placements), ask (what each request asks), harms and
                        \* restarts (bounds)

VARIABLES node,         \* one of Nodes
          activity,     \* per drive: "idle", "updating" or "missing"
          request,      \* per request: its drives not started yet
          asked,        \* the requests made
          update,       \* per request and drive: its step, "none" when there is no such update
          outcome,      \* per request and drive: "ok", "failed" or "reset" (needs one)
          holder,       \* fleet_firmware_lock: the update that has it, or None
          down,         \* the drives that are resetting
          leg,          \* per drive: its slab, "ok" or "stale"
          hurt,         \* a leg elsewhere is not ok
          away          \* history: the drives taken away by an update that checked the volumes

\* A node is what is listed of it, and asks for drives of its own.
NodeIs(n) ==
    /\ n = [serves |-> n.serves, nvme |-> n.nvme, failing |-> n.failing, engine |-> n.engine, placed |-> n.placed,
            ask |-> n.ask, harms |-> n.harms, restarts |-> n.restarts]
    /\ n.serves \subseteq Drives /\ \A r \in Requests : n.ask[r].drives \subseteq Drives
ASSUME NodesAssumption == None \notin Requests \X Drives /\ \A n \in Nodes : NodeIs(n)

fvars == <<node, activity, request, asked, update, outcome, holder, down, leg, hurt, away>>

Updates == Requests \X Drives

FwInit ==
    /\ node \in Nodes
    /\ activity = [d \in Drives |-> "idle"]
    /\ request = [r \in Requests |-> {}] /\ asked = {}
    /\ update = [u \in Updates |-> "none"] /\ outcome = [u \in Updates |-> "ok"]
    /\ holder = None /\ down = {} /\ leg = [d \in Drives |-> "ok"] /\ hurt = FALSE /\ away = {}

Serves(d) == d \in node.serves
Forced(r) == node.ask[r].force
Gated(u) == Serves(u[2]) /\ node.engine /\ ~Forced(u[1])

To(u, step) == update' = [update EXCEPT ![u] = step]
Ends(u, how) == outcome' = [outcome EXCEPT ![u] = how] /\ To(u, "finish")

(***************************************************************************)
(* The request.                                                            *)
(***************************************************************************)
Blocked(d, force) == activity[d] # "idle" \/ (~force /\ d \in node.failing)

\* All of its drives are checked under one lock, before any is started.
AskUpdate(r) ==
    /\ r \notin asked
    /\ \A d \in node.ask[r].drives : ~Blocked(d, Forced(r))
    /\ asked' = asked \union {r}
    /\ request' = [request EXCEPT ![r] = node.ask[r].drives]
    /\ UNCHANGED <<node, activity, update, outcome, holder, down, leg, hurt, away>>

\* start: the drive is marked, whatever it has become since the check.
StartUpdate(r, d) ==
    /\ d \in request[r]
    /\ request' = [request EXCEPT ![r] = @ \ {d}]
    /\ activity' = [activity EXCEPT ![d] = "updating"]
    /\ update' = [update EXCEPT ![<<r, d>>] = IF Serves(d) THEN "lock" ELSE "gate"]
    /\ UNCHANGED <<node, asked, outcome, holder, down, leg, hurt, away>>

(***************************************************************************)
(* The update's task.                                                      *)
(***************************************************************************)
TakeLock(u) ==
    /\ update[u] = "lock" /\ holder = None
    /\ holder' = u /\ To(u, "gate")
    /\ UNCHANGED <<node, activity, request, asked, outcome, down, leg, hurt, away>>

\* redundancy_blocker of what the engine lists now.
OtherLegsOnly == node.placed /\ ~hurt \* mutant: the slabs here are not looked at
Redundant == /\ node.placed /\ ~hurt
             /\ \A d \in node.serves : leg[d] = "ok" /\ d \notin down

\* wait_redundant before the download: passed, or not within redundancy_wait_mins.
Gate(u) ==
    /\ update[u] = "gate"
    /\ IF Gated(u) => Redundant THEN To(u, "download") /\ UNCHANGED outcome ELSE Ends(u, "failed")
    /\ UNCHANGED <<node, activity, request, asked, holder, down, leg, hurt, away>>

\* New code is started: the drive goes away, and may miss writes.
ResetDrive(u) ==
    LET d == u[2]
    IN  /\ down' = down \union {d}
        /\ \E l \in IF Serves(d) THEN {leg[d], "stale"} ELSE {leg[d]} : leg' = [leg EXCEPT ![d] = l]
        /\ away' = IF Gated(u) THEN away \union {d} ELSE away

\* The image in chunks; a drive that refuses the deferred mode takes it in mode 0x07,
\* which activates with the last chunk.
Download(u) ==
    /\ update[u] = "download"
    /\ \/ u[2] \notin down /\ To(u, "activate") /\ UNCHANGED <<outcome, down, leg, away>>
       \/ u[2] \notin down /\ u[2] \notin node.nvme /\ ResetDrive(u) /\ To(u, "ready") /\ UNCHANGED outcome
       \/ Ends(u, "failed") /\ UNCHANGED <<down, leg, away>>
    /\ UNCHANGED <<node, activity, request, asked, holder, hurt>>

\* Activate deferred microcode, or an NVMe commit: activated without a reset, committed
\* for the next one, or refused.
Activate(u) ==
    /\ update[u] = "activate"
    /\ \/ u[2] \notin down /\ u[2] \notin node.nvme /\ ResetDrive(u) /\ To(u, "ready") /\ UNCHANGED outcome
       \/ u[2] \notin down /\ u[2] \in node.nvme /\ To(u, "verify") /\ UNCHANGED <<down, leg, away>>
          /\ \E how \in {"ok", "reset"} : outcome' = [outcome EXCEPT ![u] = how]
       \/ Ends(u, "failed") /\ UNCHANGED <<down, leg, away>>
    /\ UNCHANGED <<node, activity, request, asked, holder, hurt>>

\* wait_ready: the drive is back, or is not within five minutes.
Ready(u) ==
    /\ update[u] = "ready"
    /\ IF u[2] \in down THEN Ends(u, "failed") ELSE To(u, "verify") /\ UNCHANGED outcome
    /\ UNCHANGED <<node, activity, request, asked, holder, down, leg, hurt, away>>

\* The revision is read; an NVMe drive's from sysfs, or its old one.
Verify(u) ==
    /\ update[u] = "verify"
    /\ IF u[2] \in down /\ u[2] \notin node.nvme THEN Ends(u, "failed")
       ELSE UNCHANGED outcome /\ To(u, IF Gated(u) THEN "recheck" ELSE "finish")
    /\ UNCHANGED <<node, activity, request, asked, holder, down, leg, hurt, away>>

\* wait_redundant again: an event when it does not come, no failure.
RedundantAgain(u) ==
    /\ update[u] = "recheck"
    /\ To(u, "finish")
    /\ UNCHANGED <<node, activity, request, asked, outcome, holder, down, leg, hurt, away>>

KeepsLock(u) == \* mutant: a failed update keeps the lock
    /\ update[u] = "finish"
    /\ To(u, "none")
    /\ activity' = [activity EXCEPT ![u[2]] = IF @ = "updating" THEN "idle" ELSE @]
    /\ holder' = IF holder = u /\ outcome[u] # "failed" THEN None ELSE holder
    /\ UNCHANGED <<node, request, asked, outcome, down, leg, hurt, away>>
LeavesActivity(u) == \* mutant: a failed update leaves the drive marked
    /\ update[u] = "finish"
    /\ To(u, "none")
    /\ activity' = [activity EXCEPT ![u[2]] = IF @ = "updating" /\ outcome[u] # "failed" THEN "idle" ELSE @]
    /\ holder' = IF holder = u THEN None ELSE holder
    /\ UNCHANGED <<node, request, asked, outcome, down, leg, hurt, away>>
Finish(u) ==
    /\ update[u] = "finish"
    /\ To(u, "none")
    /\ activity' = [activity EXCEPT ![u[2]] = IF @ = "updating" THEN "idle" ELSE @]
    /\ holder' = IF holder = u THEN None ELSE holder
    /\ UNCHANGED <<node, request, asked, outcome, down, leg, hurt, away>>

Task(u) == \/ TakeLock(u) \/ Gate(u) \/ Download(u) \/ Activate(u)
           \/ Ready(u) \/ Verify(u) \/ RedundantAgain(u) \/ Finish(u)

(***************************************************************************)
(* Around it.                                                              *)
(***************************************************************************)
\* The new code runs.
DriveBack(d) ==
    /\ d \in down /\ down' = down \ {d}
    /\ away' = IF leg[d] = "ok" THEN away \ {d} ELSE away
    /\ UNCHANGED <<node, activity, request, asked, update, outcome, holder, leg, hurt>>

Resync(d) ==
    /\ leg[d] = "stale" /\ d \notin down /\ ~hurt
    /\ leg' = [leg EXCEPT ![d] = "ok"] /\ away' = away \ {d}
    /\ UNCHANGED <<node, activity, request, asked, update, outcome, holder, down, hurt>>

\* merge_observed: a drive out of sight is Missing, one that is back is Idle.
SeeDrives ==
    /\ activity' = [d \in Drives |-> CASE d \in down -> "missing"
                                       [] d \notin down /\ activity[d] = "missing" -> "idle"
                                       [] OTHER -> activity[d]]
    /\ activity' # activity
    /\ UNCHANGED <<node, request, asked, update, outcome, holder, down, leg, hurt, away>>

\* A leg on another node is lost, or back.
Hurt ==
    /\ node.harms > 0 /\ ~hurt /\ hurt' = TRUE
    /\ node' = [node EXCEPT !.harms = @ - 1]
    /\ UNCHANGED <<activity, request, asked, update, outcome, holder, down, leg, away>>
Heal ==
    /\ hurt /\ hurt' = FALSE
    /\ UNCHANGED <<node, activity, request, asked, update, outcome, holder, down, leg, away>>

\* The process ends and starts again: no update is running any more (recover_orphans).
Restart ==
    /\ node.restarts > 0 /\ node' = [node EXCEPT !.restarts = @ - 1]
    /\ activity' = [d \in Drives |-> IF activity[d] = "updating" THEN "idle" ELSE activity[d]]
    /\ update' = [u \in Updates |-> "none"] /\ request' = [r \in Requests |-> {}]
    /\ outcome' = [u \in Updates |-> "ok"]
    /\ holder' = None
    /\ UNCHANGED <<asked, down, leg, hurt, away>>

FwNext ==
    \/ \E r \in Requests : AskUpdate(r) \/ \E d \in Drives : StartUpdate(r, d)
    \/ \E u \in Updates : Task(u)
    \/ \E d \in Drives : DriveBack(d) \/ Resync(d)
    \/ SeeDrives \/ Hurt \/ Heal \/ Restart

\* The runtime goes on with a request, and with a task, as long as one of them can go on.
FwFairness ==
    /\ WF_fvars(\E r \in Requests : \E d \in Drives : StartUpdate(r, d))
    /\ WF_fvars(\E u \in Updates : Task(u))

FwSpec == FwInit /\ [][FwNext]_fvars /\ FwFairness

-----------------------------------------------------------------------------
(* The types, and: a drive is marked as updating only while it has an update,  *)
(* and the lock is held by an update of a drive that serves data              *)
(* (firmware.rs, start; worker.rs, recover_orphans).                          *)
FirmwareTypes ==
    /\ activity \in [Drives -> {"idle", "updating", "missing"}]
    /\ down \subseteq Drives /\ away \subseteq node.serves
    /\ \A d \in Drives : activity[d] = "updating" => \E r \in Requests : update[<<r, d>>] # "none"
    /\ holder # None => update[holder] \notin {"none", "lock"} /\ Serves(holder[2])

(* However requests, forced ones too, failures, scans and restarts interleave,   *)
(* the updates that look at the volumes never have two legs of one volume away   *)
(* at a time: resetting, or back and not caught up (firmware.rs, wait_redundant).*)
OneLegAway == Cardinality(away) <= 1

(* The marks and the lock belong to updates, and the gated updates take one leg  *)
(* away at a time (firmware.rs, start).                                          *)
FirmwareOK == FirmwareTypes /\ OneLegAway

(* Every update that is asked for ends, whatever the drives, the engine and the  *)
(* other updates do (firmware.rs, start: every wait has a deadline and the lock  *)
(* is let go).  The requests are as many as Requests has.                        *)
UpdatesEnd == <>[](\A u \in Updates : update[u] = "none")
=============================================================================
