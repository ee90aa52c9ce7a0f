------------------------------- MODULE Hotplug -------------------------------
(***************************************************************************)
(* How a disk that comes or goes is noticed (hotplug.rs; monitor.rs, run): *)
(* the kernel queues an event on a socket whose buffer is bounded, one     *)
(* thread reads it into a channel, and the monitor loop, woken by the      *)
(* channel or by its timer, lets a burst settle and then scans.            *)
(***************************************************************************)
EXTENDS Naturals

CONSTANTS Buffer,         \* events the kernel queues for the listener
          Every,          \* the monitor's ticks to one discovery interval
          Swaps, Faults   \* how often disks change, and whether the listener may stop

ASSUME HotplugBounds == Buffer \in Nat /\ Every \in Nat /\ Swaps \in Nat /\ Faults \in Nat

VARIABLES disks,          \* how often the disks have changed
          socket, dropped,  \* events queued in the kernel; whether it had to drop some
          listener,       \* whether the thread runs
          channel,        \* whether events wait in the channel (unbounded: how many makes no difference)
          monitor,        \* the monitor loop: its step, whether it was woken by an event, its ticks since a scan
          scanned,        \* the disks as last scanned
          faults

hvars == <<disks, socket, dropped, listener, channel, monitor, scanned, faults>>

\* listen may find no socket at all; the loop's first tick scans.
HInit ==
    /\ disks = 0 /\ scanned = 0 /\ faults = Faults
    /\ socket = 0 /\ dropped = FALSE /\ channel = FALSE
    /\ listener \in BOOLEAN
    /\ monitor = [pc |-> "tick", woken |-> FALSE, ticks |-> Every]

(***************************************************************************)
(* The kernel and the listener thread.                                     *)
(***************************************************************************)
\* A socket whose buffer is full drops the event and remembers that it did.
Swap ==
    /\ disks < Swaps /\ disks' = disks + 1
    /\ IF ~listener THEN UNCHANGED <<socket, dropped>>
       ELSE IF socket < Buffer THEN socket' = socket + 1 /\ UNCHANGED dropped
       ELSE dropped' = TRUE /\ UNCHANGED socket
    /\ UNCHANGED <<listener, channel, monitor, scanned, faults>>

\* recv answers ENOBUFS before anything that is queued: a synthetic event stands for what was dropped.
Overflow ==
    /\ listener /\ dropped
    /\ dropped' = FALSE /\ channel' = TRUE
    /\ UNCHANGED <<disks, socket, listener, monitor, scanned, faults>>

Listen ==
    /\ listener /\ ~dropped /\ socket > 0
    /\ socket' = socket - 1 /\ channel' = TRUE
    /\ UNCHANGED <<disks, dropped, listener, monitor, scanned, faults>>

ListenerStops ==
    /\ listener /\ faults > 0
    /\ listener' = FALSE /\ faults' = faults - 1
    /\ socket' = 0 /\ dropped' = FALSE
    /\ UNCHANGED <<disks, channel, monitor, scanned>>

(***************************************************************************)
(* monitor::run.                                                           *)
(***************************************************************************)
EventsOnly == monitor.woken \* mutant: the periodic pass is left to the events
Due == monitor.woken \/ monitor.ticks >= Every
Tick ==
    /\ monitor.pc = "tick"
    /\ monitor' = [pc |-> IF Due THEN "scan" ELSE "wait", woken |-> FALSE, ticks |-> IF Due THEN 0 ELSE monitor.ticks]
    /\ UNCHANGED <<disks, socket, dropped, listener, channel, scanned, faults>>

\* What is read is merged while more may happen.
ReadDisks ==
    /\ monitor.pc = "scan"
    /\ scanned' = disks
    /\ monitor' = [monitor EXCEPT !.pc = "merge"]
    /\ UNCHANGED <<disks, socket, dropped, listener, channel, faults>>

DrainsAfterPass == \* mutant: what came during the pass is taken for the burst it answered
    /\ monitor.pc = "merge"
    /\ channel' = FALSE
    /\ monitor' = [monitor EXCEPT !.pc = "wait"]
    /\ UNCHANGED <<disks, socket, dropped, listener, scanned, faults>>
MergePass ==
    /\ monitor.pc = "merge"
    /\ monitor' = [monitor EXCEPT !.pc = "wait"]
    /\ UNCHANGED <<disks, socket, dropped, listener, channel, scanned, faults>>

Timer ==
    /\ monitor.pc = "wait"
    /\ monitor' = [monitor EXCEPT !.pc = "tick", !.ticks = IF @ < Every THEN @ + 1 ELSE @]
    /\ UNCHANGED <<disks, socket, dropped, listener, channel, scanned, faults>>

\* The first event is taken, the burst settles, and what came meanwhile is taken with it.
Woken ==
    /\ monitor.pc = "wait" /\ channel
    /\ channel' = FALSE
    /\ monitor' = [monitor EXCEPT !.pc = "settle"]
    /\ UNCHANGED <<disks, socket, dropped, listener, scanned, faults>>

DrainsOnly == \* mutant: the burst is taken, and no pass follows it
    /\ monitor.pc = "settle"
    /\ channel' = FALSE
    /\ monitor' = [monitor EXCEPT !.pc = "tick"]
    /\ UNCHANGED <<disks, socket, dropped, listener, scanned, faults>>
Settle ==
    /\ monitor.pc = "settle"
    /\ channel' = FALSE
    /\ monitor' = [monitor EXCEPT !.pc = "tick", !.woken = TRUE]
    /\ UNCHANGED <<disks, socket, dropped, listener, scanned, faults>>

Loop == Tick \/ ReadDisks \/ MergePass \/ Timer \/ Woken \/ Settle
Thread == Overflow \/ Listen
HNext == Loop \/ Thread \/ Swap \/ ListenerStops

HFairness == WF_hvars(Loop) /\ WF_hvars(Thread)
HSpec == HInit /\ [][HNext]_hvars /\ HFairness

-----------------------------------------------------------------------------
(* No wakeup is lost: while the listener runs, disks that differ from the last  *)
(* scan have an event on its way to the loop, or the loop is about to scan,     *)
(* whatever came while it settled, while it scanned, or to a full socket        *)
(* (hotplug.rs, listen; monitor.rs, run).                                       *)
HotplugOK ==
    listener /\ scanned # disks =>
        \/ socket > 0 \/ dropped \/ channel
        \/ monitor.pc \in {"settle", "scan"} \/ (monitor.pc = "tick" /\ Due)

(* Whatever becomes of the listener, the disks are scanned as they are in the end: *)
(* the periodic pass stays (monitor.rs, run).                                      *)
DisksAreSeen == <>[](scanned = disks)
=============================================================================
