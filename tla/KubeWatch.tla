------------------------------ MODULE KubeWatch ------------------------------
(***************************************************************************)
(* The resources stormdrive serves itself, and a watch of them             *)
(* (api/kube.rs): every two seconds the objects are rendered anew, and the *)
(* watcher is sent what differs from the last time, over a bounded channel *)
(* the client empties as it reads.  A Drive is rendered under one lock, an *)
(* Enclosure from the shelf table and then, under another, the drives.     *)
(***************************************************************************)
EXTENDS Absent, Naturals, Sequences, SequencesExt, FiniteSetsExt

CONSTANTS ObjectNames,    \* of drives, and of shelves: numbers, in the order they are rendered
          DriveRecords, Reports,  \* what a drive's record, and a shelf's report, may be
          Channel,        \* events the channel holds
          Kinds,          \* which resource is watched, and whether with a label selector
          Changes         \* how often what is rendered may change

VARIABLES drives, shelves,  \* per name: the record, the report, or None
          watch,          \* the task: its step, the shelves it took, what it last saw, what it is to send
          sent,           \* the channel
          held, gone,     \* the client: what it holds, per name, and whether it has left
          changes

wvars == <<drives, shelves, watch, sent, held, gone, changes>>

ASSUME WatchAssumption == ObjectNames \subseteq Nat /\ IsFiniteSet(ObjectNames)
ASSUME WordsAssumption == None \notin {"ADDED", "MODIFIED"}

Nothing == [n \in ObjectNames |-> None]

WInit ==
    /\ drives \in [ObjectNames -> DriveRecords] /\ shelves \in [ObjectNames -> Reports]
    /\ watch \in [pc : {"wake"}, kind : Kinds, shelves : {Nothing}, seen : {Nothing}, todo : {<<>>}]
    /\ sent = <<>> /\ held = Nothing /\ gone = FALSE /\ changes = Changes

(***************************************************************************)
(* The objects.  A drive's is a projection of its record; a shelf has one  *)
(* when it was read or a drive is in it, with what was read and its drives.*)
(***************************************************************************)
DriveObject(d) == [labels |-> {d.shelf}, status |-> d]
DrivesIn(k) == {n \in ObjectNames : drives[n] # None /\ (drives[n] # None => drives[n].shelf = k)}
OnlyReported(k, report) == IF report = None THEN None \* mutant: shelves are those that answered
                           ELSE [labels |-> {k}, status |-> <<report, {<<n, drives[n]>> : n \in DrivesIn(k)}>>]
EnclosureObject(k, report) ==
    IF report = None /\ DrivesIn(k) = {} THEN None
    ELSE [labels |-> {k}, status |-> <<report, {<<n, drives[n]>> : n \in DrivesIn(k)}>>]
Render(read) == [n \in ObjectNames |-> IF watch.kind.drives THEN (IF drives[n] = None THEN None ELSE DriveObject(drives[n]))
                                 ELSE EnclosureObject(n, read[n])]

\* labelSelector: what it leaves out is not there for this watcher.
Selected(o) == watch.kind.selector = None \/ watch.kind.selector \in o.labels
Collected(read) == [n \in ObjectNames |-> IF Render(read)[n] = None THEN None
                                    ELSE IF Selected(Render(read)[n]) THEN Render(read)[n] ELSE None]

(***************************************************************************)
(* The task.                                                               *)
(***************************************************************************)
\* all_enclosures takes the shelves first.
Wake ==
    /\ watch.pc = "wake"
    /\ watch' = IF gone THEN [watch EXCEPT !.pc = "ended"] ELSE [watch EXCEPT !.pc = "collect", !.shelves = shelves]
    /\ UNCHANGED <<drives, shelves, sent, held, gone, changes>>

Type(n, now) == IF watch.seen[n] = None THEN "ADDED" ELSE IF now[n] # watch.seen[n] THEN "MODIFIED" ELSE None
\* A BTreeMap's keys.
Order(S) == CHOOSE s \in [1 .. Cardinality(S) -> S] : \A i, j \in DOMAIN s : i < j => s[i] < s[j]
OnlyThere(now) == \* mutant: what is no longer rendered is not told
    LET there == Order({n \in ObjectNames : now[n] # None /\ Type(n, now) # None})
    IN  [j \in DOMAIN there |-> [type |-> Type(there[j], now), name |-> there[j], object |-> now[there[j]]]]
Events(now) ==
    LET there == Order({n \in ObjectNames : now[n] # None /\ Type(n, now) # None})
        left == Order({n \in ObjectNames : now[n] = None /\ watch.seen[n] # None})
    IN  [j \in DOMAIN there |-> [type |-> Type(there[j], now), name |-> there[j], object |-> now[there[j]]]]
        \o [j \in DOMAIN left |-> [type |-> "DELETED", name |-> left[j], object |-> None]]

Collect ==
    /\ watch.pc = "collect"
    /\ LET now == Collected(watch.shelves)
       IN  watch' = [watch EXCEPT !.pc = "send", !.todo = Events(now), !.seen = now, !.shelves = Nothing]
    /\ UNCHANGED <<drives, shelves, sent, held, gone, changes>>

\* A full channel holds the task until the client reads or leaves.
DropsWhenFull == \* mutant: what the channel has no room for is dropped
    /\ watch.pc = "send" /\ watch.todo # <<>>
    /\ IF gone THEN watch' = [watch EXCEPT !.pc = "ended", !.todo = <<>>] /\ UNCHANGED sent
       ELSE /\ watch' = [watch EXCEPT !.todo = Tail(@)]
            /\ sent' = IF Len(sent) < Channel THEN Append(sent, Head(watch.todo)) ELSE sent
    /\ UNCHANGED <<drives, shelves, held, gone, changes>>
WaitsForRoom == \* mutant: the task waits for room whether or not there is a client
    /\ watch.pc = "send" /\ watch.todo # <<>>
    /\ Len(sent) < Channel /\ ~gone
    /\ watch' = [watch EXCEPT !.todo = Tail(@)]
    /\ sent' = Append(sent, Head(watch.todo))
    /\ UNCHANGED <<drives, shelves, held, gone, changes>>
Send ==
    /\ watch.pc = "send" /\ watch.todo # <<>>
    /\ IF gone THEN watch' = [watch EXCEPT !.pc = "ended", !.todo = <<>>] /\ UNCHANGED sent
       ELSE /\ Len(sent) < Channel
            /\ watch' = [watch EXCEPT !.todo = Tail(@)]
            /\ sent' = Append(sent, Head(watch.todo))
    /\ UNCHANGED <<drives, shelves, held, gone, changes>>

\* Two seconds.
Sleep ==
    /\ watch.pc = "send" /\ watch.todo = <<>>
    /\ watch' = [watch EXCEPT !.pc = "wake"]
    /\ UNCHANGED <<drives, shelves, sent, held, gone, changes>>

(***************************************************************************)
(* The client, and what is rendered.                                       *)
(***************************************************************************)
Applied(has, e) == [has EXCEPT ![e.name] = e.object]
Receive ==
    /\ ~gone /\ sent # <<>>
    /\ held' = Applied(held, Head(sent)) /\ sent' = Tail(sent)
    /\ UNCHANGED <<drives, shelves, watch, gone, changes>>

\* The stream is dropped, and with it what was on its way.
Disconnect ==
    /\ ~gone
    /\ gone' = TRUE /\ sent' = <<>> /\ held' = Nothing
    /\ UNCHANGED <<drives, shelves, watch, changes>>

ChangeDrive(n) ==
    /\ changes > 0 /\ changes' = changes - 1
    /\ \E d \in DriveRecords \ {drives[n]} : drives' = [drives EXCEPT ![n] = d]
    /\ UNCHANGED <<shelves, watch, sent, held, gone>>

ChangeShelf(n) ==
    /\ changes > 0 /\ changes' = changes - 1
    /\ \E r \in Reports \ {shelves[n]} : shelves' = [shelves EXCEPT ![n] = r]
    /\ UNCHANGED <<drives, watch, sent, held, gone>>

Task == Wake \/ Collect \/ Send \/ Sleep
WNext == Task \/ Receive \/ Disconnect \/ \E n \in ObjectNames : ChangeDrive(n) \/ ChangeShelf(n)

\* The task runs on; a client reads what comes, or leaves.
WFairness == WF_wvars(Task) /\ WF_wvars(Receive)
WSpec == WInit /\ [][WNext]_wvars /\ WFairness

-----------------------------------------------------------------------------
(* What the client holds, with the events in the channel and those still to be *)
(* sent applied in order, is what the task saw last; and each event fits what  *)
(* it is applied to: an object is added once, and only one that was is changed *)
(* or deleted (api/kube.rs, list_or_watch).                                    *)
\* What is held after the first j of some events: of each object the last word.
After(has, events, j) ==
    [n \in ObjectNames |-> LET of == {i \in 1 .. j : events[i].name = n}
                           IN  IF of = {} THEN has[n] ELSE events[Max(of)].object]
WatchOK ==
    ~gone =>
        LET coming == sent \o watch.todo
        IN  /\ After(held, coming, Len(coming)) = watch.seen
            /\ \A j \in DOMAIN coming :
                  (coming[j].type = "ADDED") <=> (After(held, coming, j - 1)[coming[j].name] = None)

(* Once what is rendered comes to rest, a client that stays holds just that: the  *)
(* objects its selector picks, also those whose shelf no longer answers while     *)
(* drives sit in it; and the task of one that left ends, also one the full channel *)
(* held (api/kube.rs, list_or_watch, all_enclosures).                             *)
Answering(n) == \/ watch.kind.drives /\ drives[n] # None
                \/ ~watch.kind.drives /\ (shelves[n] # None \/ DrivesIn(n) # {})
WatcherIsTold ==
    /\ <>[](gone \/ /\ held = Collected(shelves)
                    /\ watch.kind.selector = None => \A n \in ObjectNames : Answering(n) => held[n] # None)
    /\ gone ~> watch.pc = "ended"
=============================================================================
