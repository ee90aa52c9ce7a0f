------------------------------- MODULE Store -------------------------------
(***************************************************************************)
(* The state files of the data directory and what they keep (inventory.rs  *)
(* write_atomic, load_state; events.rs; api/mod.rs persist; main.rs start  *)
(* and stop), over failed writes, kills and resets of the machine.         *)
(*                                                                         *)
(* What a file holds is told by a number: of the inventory's last change,  *)
(* or of the next event.  A poller reads the events above the last number  *)
(* it was given.                                                           *)
(***************************************************************************)
EXTENDS Naturals, FiniteSetsExt, SequencesExt

CONSTANTS Cap,          \* the ring's capacity
          PersistTail,  \* PERSIST_TAIL: the events kept over a restart
          Budgets       \* bounds: how many changes of the inventory, pushed events, ends of the
                        \* process (stops) and failing file operations (fails) a behaviour has

Outside == {"changes", "pushes", "stops", "fails"}
ASSUME StoreBounds == Cap \in Nat /\ PersistTail \in Nat
ASSUME BudgetsAssumption == Budgets \subseteq [Outside -> Nat]

Files == {"inventory", "events"}
Unusable == {"absent", "blank", "garbage"}

VARIABLES file,         \* per file: now, and what a reset may make of it (may)
          aside,        \* the files whose unreadable contents are kept beside them
          main,         \* "down", "up", or the part of the last persist: "events", "inventory", "exit"
          inv, log,     \* in memory: the inventory's last change; next and ring
          saved,        \* in memory: what was last written (persisted, events_persisted)
          write,        \* per file: the persist that holds its lock
          clock,        \* the number of the last change
          poller,       \* the last event number a client was given
          budget,       \* what is left of the bounds
          owed,         \* history: what the stop must leave in the files
          failed,       \* history: the files whose last write failed
          crashed,      \* history: killed, reset, or stopped with a failed write
          refused       \* history: the files that could not be moved aside

mem == <<inv, log, saved>>
disk == <<file, aside>>
past == <<owed, failed, crashed, refused>>
svars == <<disk, main, mem, write, clock, poller, budget, past>>

Holding(what, n, ring) == [what |-> what, n |-> n, ring |-> ring]
NewLog == [next |-> 1, ring |-> <<>>]
Idle == [pc |-> "idle"]
Newest(ring, k) == IF Len(ring) > k THEN SubSeq(ring, Len(ring) - k + 1, Len(ring)) ELSE ring

\* What is there before: nothing, a file cut by a reset, or a whole one.
SInit ==
    /\ \E u \in Unusable \union {"whole"} :
          file = [f \in Files |-> LET v == Holding(u, IF u = "whole" THEN 1 ELSE 0, <<>>) IN [now |-> v, may |-> {v}]]
    /\ aside = {}
    /\ main = "down" /\ inv = 0 /\ log = NewLog
    /\ saved = [f \in Files |-> 0] /\ write = [f \in Files |-> Idle]
    /\ clock = 1 /\ poller = 0 /\ budget \in Budgets
    /\ owed = [f \in Files |-> 0] /\ failed = {} /\ crashed = FALSE /\ refused = {}

Spend(what) == budget[what] > 0 /\ budget' = [budget EXCEPT ![what] = @ - 1]

(***************************************************************************)
(* The event log.                                                          *)
(***************************************************************************)
\* k events, one after the other; the ring keeps the newest.
Pushed(l, k) == [next |-> l.next + k,
                 ring |-> Newest(l.ring \o [i \in 1 .. k |-> l.next + i - 1], Cap)]

\* from_saved: the newest Cap of the saved events, numbered on after them.
Renumbered(v) == [next |-> Len(v.ring) + 1, ring |-> Newest(v.ring, Cap)] \* mutant
Restored(v) ==
    LET ring == Newest(v.ring, Cap)
        after == IF ring = <<>> THEN 1 ELSE Last(ring) + 1
    IN  [next |-> Max({v.n, after}), ring |-> ring]

Push ==
    /\ main # "down" /\ Spend("pushes")
    /\ log' = Pushed(log, 1)
    /\ UNCHANGED <<disk, main, inv, saved, write, clock, poller, past>>

\* GET /api/v1/events?since=N, answered with the newer events and the latest number.
Poll ==
    /\ main = "up" /\ poller < log.next - 1
    /\ poller' = log.next - 1
    /\ UNCHANGED <<disk, main, mem, write, clock, budget, past>>

\* A scan, a sample or a request changes the inventory.
Change ==
    /\ main # "down" /\ Spend("changes")
    /\ clock' = clock + 1 /\ inv' = clock + 1
    /\ UNCHANGED <<disk, main, log, saved, write, poller, past>>

(***************************************************************************)
(* persist: each file under its own lock, its contents taken there,        *)
(* written by write_atomic and noted as written only when that succeeded.  *)
(***************************************************************************)
Current(f) == IF f = "events" THEN log.next - 1 ELSE inv
Contents(f) == IF f = "events" THEN Holding("whole", log.next, Newest(log.ring, PersistTail)) ELSE Holding("whole", inv, <<>>)

Started(f) == [write EXCEPT ![f] = [pc |-> "write", value |-> Contents(f), seq |-> Current(f)]]
Begin(f) ==
    /\ main # "down" /\ write[f].pc = "idle" /\ Current(f) # saved[f]
    /\ write' = Started(f)
    /\ UNCHANGED <<disk, main, mem, clock, poller, budget, past>>

\* The temporary: its data reaches the disk before the rename does.
NoSync == FALSE \* mutant
SyncAll == TRUE
WriteSynced(f) ==
    /\ write[f].pc = "write"
    /\ write' = [write EXCEPT ![f] = [pc |-> "rename", synced |-> SyncAll, value |-> @.value, seq |-> @.seq]]
    /\ UNCHANGED <<disk, main, mem, clock, poller, budget, past>>

Rename(f) ==
    LET new == write[f].value
        torn == IF write[f].synced THEN {} ELSE {Holding("blank", 0, <<>>), Holding("garbage", 0, <<>>)}
    IN  /\ write[f].pc = "rename"
        /\ file' = [file EXCEPT ![f] = [now |-> new, may |-> @.may \union {new} \union torn]]
        /\ write' = [write EXCEPT ![f].pc = "dir"]
        /\ UNCHANGED <<aside, main, mem, clock, poller, budget, past>>

\* The directory is synced, or not: that error is passed over.
AsOfNow(f) == Current(f) \* mutant: what is in memory now, not what was written
Noted(f) == write[f].seq
SyncDir(f) ==
    /\ write[f].pc = "dir"
    /\ \/ file' = [file EXCEPT ![f].may = {file[f].now}] /\ UNCHANGED budget
       \/ Spend("fails") /\ UNCHANGED file
    /\ saved' = [saved EXCEPT ![f] = Noted(f)]
    /\ failed' = failed \ {f}
    /\ write' = [write EXCEPT ![f] = Idle]
    /\ UNCHANGED <<aside, main, inv, log, clock, poller, owed, crashed, refused>>

\* Any step before that fails: an error is logged, nothing noted.
NotedAnyway(f) == [saved EXCEPT ![f] = write[f].seq] \* mutant
NotNoted(f) == saved
WriteFails(f) ==
    /\ write[f].pc \in {"write", "rename"} /\ Spend("fails")
    /\ write' = [write EXCEPT ![f] = Idle]
    /\ saved' = NotNoted(f)
    /\ failed' = failed \union {f}
    /\ UNCHANGED <<disk, main, inv, log, clock, poller, owed, crashed, refused>>

(***************************************************************************)
(* main: the start, the graceful stop, and the other ways to end.          *)
(***************************************************************************)

\* load_state: absent or blank is none, unreadable is none and moved aside; a
\* note for all but the absent.  Then the restart event, and one per note.
TakenForBlank(v) == FALSE \* mutant
Unreadable(v) == v.what = "garbage"
Notes(fs) == Cardinality({f \in fs : file[f].now.what \in {"blank", "garbage"}})
Start ==
    LET bad == {f \in Files : Unreadable(file[f].now)}
        gone == Holding("absent", 0, <<>>)
        old == file["events"].now
        kept == IF old.what = "whole" THEN Restored(old) ELSE NewLog
    IN  /\ main = "down"
        /\ \E out \in SUBSET bad :
              /\ file' = [f \in Files |-> IF f \in out THEN [now |-> gone, may |-> file[f].may \union {gone}] ELSE file[f]]
              /\ aside' = aside \union out
              /\ refused' = refused \union (bad \ out)
              /\ IF out = bad THEN UNCHANGED budget ELSE Spend("fails")
        /\ log' = Pushed(kept, 1 + Notes(Files))
        /\ inv' = Max({file["inventory"].now.n, 1})
        /\ saved' = [inventory |-> 0, events |-> kept.next - 1]
        /\ main' = "up" /\ failed' = {} /\ owed' = [f \in Files |-> 0]
        /\ UNCHANGED <<write, clock, poller, crashed>>

\* SIGTERM: the server ends, the last event is pushed, then persist.
Ended == main' = "down" /\ inv' = 0 /\ log' = NewLog /\ saved' = [f \in Files |-> 0] /\ write' = [f \in Files |-> Idle]
StopBegin ==
    /\ main = "up" /\ Spend("stops")
    /\ main' = "events"
    /\ log' = Pushed(log, 1)
    /\ owed' = [events |-> log.next + 1, inventory |-> inv]
    /\ UNCHANGED <<disk, inv, saved, write, clock, poller, failed, crashed, refused>>
LastPersist(f) ==
    /\ main = f /\ write[f].pc = "idle" /\ (f = "inventory" => write["events"].pc = "idle")
    /\ main' = IF f = "events" THEN "inventory" ELSE "exit"
    /\ write' = IF Current(f) = saved[f] THEN write ELSE Started(f)
    /\ UNCHANGED <<disk, mem, clock, poller, budget, past>>
Exit ==
    /\ main = "exit" /\ \A f \in Files : write[f].pc = "idle"
    /\ Ended
    /\ crashed' = (crashed \/ "events" \in failed)
    /\ UNCHANGED <<disk, clock, poller, budget, owed, failed, refused>>

\* The process is killed, or the machine is reset: of each file one of the
\* values that had not settled.
Kill ==
    /\ main # "down" /\ Spend("stops")
    /\ Ended /\ crashed' = TRUE
    /\ UNCHANGED <<disk, clock, poller, owed, failed, refused>>
Reset ==
    /\ Spend("stops")
    /\ \E v \in [Files -> UNION {file[f].may : f \in Files}] :
          /\ \A f \in Files : v[f] \in file[f].may
          /\ file' = [f \in Files |-> [now |-> v[f], may |-> {v[f]}]]
    /\ Ended
    /\ crashed' = (crashed \/ main # "down" \/ Cardinality(file["events"].may) > 1)
    /\ UNCHANGED <<aside, clock, poller, owed, failed, refused>>

Work(f) == Begin(f) \/ WriteSynced(f) \/ Rename(f) \/ SyncDir(f) \/ WriteFails(f)
SNext ==
    \/ Push \/ Poll \/ Change
    \/ \E f \in Files : Work(f) \/ LastPersist(f)
    \/ Start \/ StopBegin \/ Exit \/ Kill \/ Reset

\* Every tick of the monitor loop persists; file operations end.
SFairness == \A f \in Files : WF_svars(Work(f)) /\ WF_svars(LastPersist(f))
SSpec == SInit /\ [][SNext]_svars /\ SFairness

(***************************************************************************)
(* What holds.                                                             *)
(***************************************************************************)
StoreTypes ==
    /\ \A f \in Files : file[f].now \in file[f].may
    /\ Len(log.ring) <= Cap
    /\ \A i \in 1 .. Len(log.ring) : log.ring[i] < log.next /\ (i > 1 => log.ring[i - 1] < log.ring[i])
    /\ \A f \in Files : Current(f) >= saved[f]

\* A file is a register whatever stops the machine: never torn, never older
\* than a value that had settled (inventory.rs write_atomic).
InventoryFile == INSTANCE Register WITH kept <- {[what |-> v.what, n |-> v.n] : v \in file["inventory"].may}
EventsFile == INSTANCE Register WITH kept <- {[what |-> v.what, n |-> v.n] : v \in file["events"].may}
FilesAreRegisters == InventoryFile!RSpec /\ EventsFile!RSpec

\* What could not be read at a start is not destroyed by the writes that
\* follow, unless it could not be moved aside (load_state).
UnreadableIsKept ==
    [][\A f \in Files : file[f].now.what = "garbage" /\ file'[f].now.what # "garbage"
                          => f \in aside' \union refused \/ Cardinality(file[f].may) > 1]_svars

\* A graceful stop leaves in the files everything from before it, the stop's
\* own event included, also when other persists were under way, unless the
\* last write of the file failed.
StopKeepsAll ==
    [][main = "exit" /\ main' = "down" /\ budget' = budget =>
          \A f \in Files \ failed : file[f].now.n >= owed[f]]_svars

\* A client that holds since=N is never passed by: without a crash, or a stop
\* whose write failed, numbers go on above N over every restart.
SeqGoesOn == main # "down" /\ ~crashed => log.next > poller

\* The types of what is kept, and the numbers that go on (events.rs, push and
\* from_saved).
StoreOK == StoreTypes /\ SeqGoesOn

\* What no persist, start or stop may cost: an unreadable file, and anything
\* from before a graceful stop (inventory.rs, load_state; main.rs).
NothingLost == UnreadableIsKept /\ StopKeepsAll

\* Whatever changed is in the files in the end, also after failed writes.
EventuallyOnDisk == []<>(main # "down" => \A f \in Files : file[f].now.n = Contents(f).n)

\* "`seq` never goes backwards for a poller holding `since=N`" (src/events.rs:5).
SeqNeverGoesBack == main # "down" => log.next > poller
=============================================================================
