------------------------------- MODULE Drives -------------------------------
(* How drives are found, what is asked of them, and what is told of them, one *)
(* part of it in each behaviour: discovery passes (Discovery), shelves behind *)
(* RAID controllers (Raid), kernel events (Hotplug), requests on a drive      *)
(* (Actions), what the engine is told (Push), a watch of the resources        *)
(* (KubeWatch).  The others stay as they are at first, and are not fair.      *)
EXTENDS Actions, Discovery, Hotplug, KubeWatch, Push, Raid

VARIABLE part    \* the part that is looked at

NoActions == d = (CHOOSE s \in Starts : TRUE).record /\ disk = (CHOOSE s \in Starts : TRUE).disk
NoDiscovery == more = CHOOSE r \in Rounds : TRUE
NoHotplug == ~listener
NoWatch == /\ drives = Nothing /\ shelves = Nothing
           /\ watch.kind = CHOOSE k \in Kinds : TRUE
NoPush == eng.open = {}
NoRaid == lists \in {[h \in Controllers |-> None]}

Parts == {"actions", "discovery", "hotplug", "watch", "push", "raid"}
DrivesInit ==
    /\ part \in Parts
    /\ AInit /\ (part # "actions" => NoActions)
    /\ DInit /\ (part # "discovery" => NoDiscovery)
    /\ HInit /\ (part # "hotplug" => NoHotplug)
    /\ WInit /\ (part # "watch" => NoWatch)
    /\ PInit /\ (part # "push" => NoPush)
    /\ RInit /\ (part # "raid" => NoRaid)

DrivesNext ==
    /\ part' = part
    /\ \/ part = "actions" /\ ANext /\ UNCHANGED <<dvars, hvars, wvars, pvars, rvars>>
       \/ part = "discovery" /\ DNext /\ UNCHANGED <<actvars, hvars, wvars, pvars, rvars>>
       \/ part = "hotplug" /\ HNext /\ UNCHANGED <<actvars, dvars, wvars, pvars, rvars>>
       \/ part = "watch" /\ WNext /\ UNCHANGED <<actvars, dvars, hvars, pvars, rvars>>
       \/ part = "push" /\ PNext /\ UNCHANGED <<actvars, dvars, hvars, wvars, rvars>>
       \/ part = "raid" /\ RNext /\ UNCHANGED <<actvars, dvars, hvars, wvars, pvars>>

dvs == <<part, actvars, dvars, hvars, wvars, pvars, rvars>>
\* The fairness of Hotplug, KubeWatch and Push, each in its own behaviours.
Fair(hotplug, viewing, push) ==
    \/ part = "hotplug" /\ hotplug /\ UNCHANGED <<part, actvars, dvars, wvars, pvars, rvars>>
    \/ part = "watch" /\ viewing /\ UNCHANGED <<part, actvars, dvars, hvars, pvars, rvars>>
    \/ part = "push" /\ push /\ UNCHANGED <<part, actvars, dvars, hvars, wvars, rvars>>
DrivesFairness ==
    /\ WF_dvs(Fair(Loop, Task, LoopStep))
    /\ WF_dvs(Fair(Thread, Receive, RetryAgain))
    /\ \A dr \in Drives : WF_dvs(Fair(FALSE, FALSE, Answer(dr)))
DrivesSpec == DrivesInit /\ [][DrivesNext]_dvs /\ DrivesFairness

-----------------------------------------------------------------------------
\* What is found is where it is said to be: the drive in a bay under its own
\* name (discovery), and a shelf behind a RAID controller under one key with
\* its own bays (megaraid.rs).
FoundWhereItIs == DiscoveryOK /\ RaidOK
\* What happens is passed on: no kernel event is left without a pass
\* (hotplug.rs), no change of an object without a watch event (api/kube.rs).
NothingMissed == HotplugOK /\ WatchOK
\* Everyone who listens comes to know: the engine the labels and settings, a
\* client of the watch the objects, the inventory the disks.
AllComeToKnow == EngineComesToKnow /\ WatcherIsTold /\ DisksAreSeen
=============================================================================
