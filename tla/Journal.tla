------------------------------ MODULE Journal ------------------------------
(***************************************************************************)
(* A drive's kept history in system-data (history.rs): health records and  *)
(* log entries appended a line at a time to the file of the month, its     *)
(* summary, and the findings a record makes against the one before, over   *)
(* failed and half-made writes, restarts and a volume that comes and goes. *)
(*                                                                         *)
(* A record is its error counter and month, an entry its month; a line is  *)
(* whole, open (half written, without its end) or spoiled: written onto an *)
(* open one, so that neither parses.                                       *)
(***************************************************************************)
EXTENDS Absent, Integers, FiniteSetsExt, SequencesExt

CONSTANTS KeepMonths,   \* keep_months
          Months,       \* bound: 1 .. the last month
          Chances       \* bounds: how often the counter grows (grows) or is reset (resets), months
                        \* turn, writes fail, the process ends (kills), the volume goes or comes
                        \* (mounts) and events happen (events) in a behaviour

\* The configuration keeps a month at least; months are numbered from 1.
ASSUME JournalAssumption == KeepMonths \in Nat \ {0} /\ Months \subseteq Nat /\ 1 \in Months
ASSUME NoCountAssumption == None \notin Int

VARIABLES dir,          \* "records" and "log": per month the lines of its file
          onDisk,       \* summary.json: the entries it counts, or None
          counter,      \* the drive's error counter
          month, mounted,
          last,         \* in memory: the last record, None, or not read yet
          count,        \* in memory: the summary, or None
          logging,      \* an entry is appended and not yet in the summary
          chance,       \* what is left of the bounds
          first, seen,  \* history: the counter as first recorded (or reset, or after a spoiled record),
                        \* and as last observed
          told,         \* history: the growth that was said or recorded
          landed,       \* history: log appends that succeeded
          uncounted,    \* history: entries whose count ended with a process
          behind        \* history: the last summary write failed

jvars == <<dir, onDisk, counter, month, mounted, last, count, logging, chance, first, seen, told, landed, uncounted, behind>>

Unread == [what |-> "unread", c |-> 0, at |-> 0]
Nothing == [what |-> "none", c |-> 0, at |-> 0]
Line(what, c) == [what |-> what, c |-> c, at |-> month]

JInit ==
    /\ dir = [j \in {"records", "log"} |-> [m \in Months |-> <<>>]]
    /\ onDisk = None /\ counter = 0 /\ month = 1 /\ mounted = TRUE
    /\ last = Unread /\ count = None /\ logging = FALSE
    /\ chance \in Chances
    /\ first = None /\ seen = 0 /\ told = {} /\ landed = 0 /\ uncounted = 0 /\ behind = FALSE

Take(what) == chance[what] > 0 /\ chance' = [chance EXCEPT ![what] = @ - 1]

(***************************************************************************)
(* The files.                                                              *)
(***************************************************************************)
EndsOpen(lines) == lines # <<>> /\ Last(lines).what = "open"
Added(lines, line) ==
    IF EndsOpen(lines) THEN Append(Front(lines), [line EXCEPT !.what = "spoiled"]) ELSE Append(lines, line)
Half(lines) == IF EndsOpen(lines) THEN lines ELSE Append(lines, Line("open", 0))

\* The first month kept; files before it go when a new month's file is made.
CutoffShort == month - KeepMonths + 2 \* mutant: one month too few is kept
Cutoff == month + 1 - KeepMonths
Pruned(files) == [m \in Months |-> IF m < Cutoff THEN <<>> ELSE files[m]]

\* One line into the month's file; a new file prunes.
Appended(files, line) ==
    LET with == [files EXCEPT ![month] = Added(@, line)]
    IN  IF files[month] = <<>> THEN Pruned(with) ELSE with
Torn(files) == [files EXCEPT ![month] = Half(@)]

\* Where the whole lines are, and the newest of them in a month that has any.
Wholes(lines) == {i \in DOMAIN lines : lines[i].what = "whole"}
NewestWhole(lines) == lines[Max(Wholes(lines))]

\* The newest whole record, over the months from the newest back.
NewestFileOnly(files) == \* mutant
    LET used == {m \in Months : files[m] # <<>>}
    IN  IF used = {} THEN Nothing
        ELSE IF Wholes(files[Max(used)]) = {} THEN Nothing ELSE NewestWhole(files[Max(used)])
ReadLast(files) ==
    LET used == {m \in Months : Wholes(files[m]) # {}}
    IN  IF used = {} THEN Nothing ELSE NewestWhole(files[Max(used)])

(***************************************************************************)
(* observe: a sample against the last record.                              *)
(***************************************************************************)
Prev == IF last = Unread THEN ReadLast(dir["records"]) ELSE last

Due == Prev = Nothing \/ Prev.c # counter \/ Prev.at # month
WentBack == Prev # Nothing /\ counter < Prev.c
\* What the record's findings say has grown.
Grown == IF Prev = Nothing THEN {} ELSE Prev.c + 1 .. counter

\* The findings are said or on record.
Found ==
    /\ told' = IF WentBack THEN {} ELSE told \union Grown
    /\ first' = CASE EndsOpen(dir["records"][month]) -> None
                  [] ~EndsOpen(dir["records"][month]) /\ (first = None \/ WentBack) -> counter
                  [] OTHER -> first
    /\ seen' = counter

\* Nothing is due, or the volume is not there: no record.
ObserveQuiet ==
    /\ mounted /\ ~Due
    /\ last' = Prev /\ seen' = counter
    /\ UNCHANGED <<dir, onDisk, counter, month, mounted, count, logging, chance, first, told, landed, uncounted, behind>>

Observe ==
    /\ mounted /\ Due
    /\ dir' = [dir EXCEPT !["records"] = Appended(@, Line("whole", counter))]
    /\ last' = Line("whole", counter)
    /\ Found
    /\ UNCHANGED <<onDisk, counter, month, mounted, count, logging, chance, landed, uncounted, behind>>

\* Not written, or half: the baseline stays, the findings are still said.
ObserveFails ==
    /\ mounted /\ Due /\ Take("fails")
    /\ \E files \in {dir["records"], Torn(dir["records"])} : dir' = [dir EXCEPT !["records"] = files]
    /\ last' = Prev
    /\ told' = told \union Grown /\ seen' = counter
    /\ UNCHANGED <<onDisk, counter, month, mounted, count, logging, first, landed, uncounted, behind>>

(***************************************************************************)
(* log: an event or an action about the drive, then its summary.           *)
(***************************************************************************)
LogEntry ==
    /\ mounted /\ ~logging /\ Take("events")
    /\ dir' = [dir EXCEPT !["log"] = Appended(@, Line("whole", 0))]
    /\ logging' = TRUE /\ landed' = landed + 1
    /\ UNCHANGED <<onDisk, counter, month, mounted, last, count, first, seen, told, uncounted, behind>>
LogFails ==
    /\ mounted /\ ~logging /\ Take("fails")
    /\ \E files \in {dir["log"], Torn(dir["log"])} : dir' = [dir EXCEPT !["log"] = files]
    /\ UNCHANGED <<onDisk, counter, month, mounted, last, count, logging, first, seen, told, landed, uncounted, behind>>

\* The summary in memory, read the first time, counts the entry in.
OrZero(n) == IF n = None THEN 0 ELSE n
FromDisk == OrZero(onDisk) + 1 \* mutant: read every time
CountedIn == (IF count = None THEN OrZero(onDisk) ELSE count) + 1
LogSummary ==
    /\ logging
    /\ count' = CountedIn
    /\ \/ onDisk' = CountedIn /\ behind' = FALSE /\ UNCHANGED chance
       \/ Take("fails") /\ behind' = TRUE /\ UNCHANGED onDisk
    /\ logging' = FALSE
    /\ UNCHANGED <<dir, counter, month, mounted, last, first, seen, told, landed, uncounted>>

(***************************************************************************)
(* Outside.                                                                *)
(***************************************************************************)

\* The process ends, maybe in an append; also an install, which keeps the volume.
End ==
    /\ Take("kills")
    /\ \/ UNCHANGED <<dir, first, seen, told>>
       \/ /\ mounted /\ ~logging /\ UNCHANGED <<first, seen, told>>
          /\ dir' = [dir EXCEPT !["log"] = Torn(@)]
       \/ /\ mounted /\ Due
          /\ \/ dir' = [dir EXCEPT !["records"] = Torn(@)] /\ UNCHANGED <<first, seen, told>>
             \/ dir' = [dir EXCEPT !["records"] = Appended(@, Line("whole", counter))] /\ Found
    /\ last' = Unread /\ count' = None /\ logging' = FALSE
    /\ uncounted' = landed - OrZero(onDisk) /\ behind' = FALSE
    /\ UNCHANGED <<onDisk, counter, month, mounted, landed>>

Grow == Take("grows") /\ counter' = counter + 1
        /\ UNCHANGED <<dir, onDisk, month, mounted, last, count, logging, first, seen, told, landed, uncounted, behind>>
ResetCounter == counter > 0 /\ Take("resets") /\ counter' = 0
                /\ UNCHANGED <<dir, onDisk, month, mounted, last, count, logging, first, seen, told, landed, uncounted, behind>>
TurnMonth == month + 1 \in Months /\ Take("months") /\ month' = month + 1 /\ ~logging
             /\ UNCHANGED <<dir, onDisk, counter, mounted, last, count, logging, first, seen, told, landed, uncounted, behind>>
Mount == Take("mounts") /\ ~logging /\ mounted' = ~mounted
         /\ UNCHANGED <<dir, onDisk, counter, month, last, count, logging, first, seen, told, landed, uncounted, behind>>

JNext ==
    \/ ObserveQuiet \/ Observe \/ ObserveFails
    \/ LogEntry \/ LogFails \/ LogSummary
    \/ End \/ Grow \/ ResetCounter \/ TurnMonth \/ Mount
JSpec == JInit /\ [][JNext]_jvars

(***************************************************************************)
(* What holds.                                                             *)
(***************************************************************************)
JournalTypes ==
    /\ \A j \in DOMAIN dir, m \in Months : \A i \in DOMAIN dir[j][m] :
          /\ dir[j][m][i].at = m /\ dir[j][m][i].what \in {"whole", "open", "spoiled"}
          /\ dir[j][m][i].what = "open" => i = Len(dir[j][m])
    /\ last \in {Unread, Nothing} \/ (last.what = "whole" /\ last.c \in Nat)
    /\ OrZero(onDisk) <= landed

\* No growth of an error counter is missed, over restarts, installs, failed
\* writes, a volume that is away and a reset of the counter: every count
\* between the first record and the last sample was said or is on record.
\* (A record spoiled by the half line before it is the one way out: the count
\* starts at the next.)
NoGrowthMissed == first = None \/ first + 1 .. seen \subseteq told

\* No failure, restart or turn of the month costs a line of the months kept:
\* each stays as it is and where it is.
EarlierKept ==
    [][\A j \in DOMAIN dir, m \in Months : m + KeepMonths > month =>
          \A i \in DOMAIN dir[j][m] : dir[j][m][i].what # "open" =>
             i \in DOMAIN dir'[j][m] /\ dir'[j][m][i] = dir[j][m][i]]_jvars

\* summary.json counts every entry that landed, also after a failed write of
\* it, except what a process took with it between the two.
SummaryCounts == logging \/ behind \/ OrZero(onDisk) = landed - uncounted

\* The types, no growth missed, and a summary that counts (history.rs,
\* observe, read_last and log).
JournalOK == JournalTypes /\ NoGrowthMissed /\ SummaryCounts

\* "the next entry still lands" after a torn line (src/history.rs:1034): an
\* append that succeeded can be read.
EntryLands ==
    [][landed' # landed => Cardinality(Wholes(dir'["log"][month])) = Cardinality(Wholes(dir["log"][month])) + 1]_jvars
=============================================================================
