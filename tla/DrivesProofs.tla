---------------------------- MODULE DrivesProofs ----------------------------
(***************************************************************************)
(* Proofs about how drives are found and told of: the kernel events that   *)
(* wake the monitor loop, a watch of the objects, shelves behind RAID      *)
(* controllers, a discovery pass, requests on a drive, what the engine is  *)
(* told, each for all values of its constants, and their composition.      *)
(***************************************************************************)
EXTENDS Drives, Integers, SequenceTheorems, FiniteSetTheorems, TLAPS

-----------------------------------------------------------------------------
(* No wakeup of the monitor loop is lost, proved for any socket buffer, any   *)
(* interval and any number of disks that come and go.                         *)

LoopSteps == {"tick", "scan", "merge", "wait", "settle"}

\* What the invariant needs to know of the types: the buffer is counted in
\* natural numbers and the loop is at one of its steps.
HotplugCounts == disks \in Nat /\ scanned \in Nat /\ socket \in Nat /\ faults \in Nat
HotplugFlags == dropped \in BOOLEAN /\ listener \in BOOLEAN /\ channel \in BOOLEAN
HotplugLoop == monitor \in [pc : LoopSteps, woken : BOOLEAN, ticks : Nat]
HotplugTypes == HotplugCounts /\ HotplugFlags /\ HotplugLoop

LEMMA InitHotplug == HInit => HotplugTypes
<1> SUFFICES ASSUME HInit
             PROVE  HotplugTypes
  OBVIOUS
<1>1. HotplugCounts
  BY HotplugBounds DEF HInit, HotplugBounds, HotplugCounts
<1>2. HotplugFlags
  BY Zenon DEF HInit, HotplugFlags
<1>3. HotplugLoop
  BY HotplugBounds DEF HInit, HotplugBounds, HotplugLoop, LoopSteps
<1>4. QED
  BY <1>1, <1>2, <1>3 DEF HotplugTypes

\* Only Swap, the listener and ReadDisks count.
LEMMA NextHotplugCounts == HotplugCounts /\ [HNext]_hvars => HotplugCounts'
<1> SUFFICES ASSUME HotplugCounts, [HNext]_hvars
             PROVE  HotplugCounts'
  OBVIOUS
<1> USE DEF HotplugCounts
<1>1. CASE Swap
  BY <1>1 DEF Swap
<1>2. CASE Thread \/ ListenerStops
  BY <1>2 DEF Thread, Overflow, Listen, ListenerStops
<1>3. CASE Loop
  BY <1>3 DEF Loop, Tick, ReadDisks, MergePass, Timer, Woken, Settle
<1>4. CASE UNCHANGED hvars
  BY <1>4 DEF hvars
<1>5. QED
  BY <1>1, <1>2, <1>3, <1>4 DEF HNext

LEMMA NextHotplugFlags == HotplugFlags /\ [HNext]_hvars => HotplugFlags'
<1> SUFFICES ASSUME HotplugFlags, [HNext]_hvars
             PROVE  HotplugFlags'
  OBVIOUS
<1> USE DEF HotplugFlags
<1>1. CASE Swap
  BY <1>1, Zenon DEF Swap
<1>2. CASE Thread \/ ListenerStops
  BY <1>2, Zenon DEF Thread, Overflow, Listen, ListenerStops
<1>3. CASE Loop
  BY <1>3, Zenon DEF Loop, Tick, ReadDisks, MergePass, Timer, Woken, Settle
<1>4. CASE UNCHANGED hvars
  BY <1>4, Zenon DEF hvars
<1>5. QED
  BY <1>1, <1>2, <1>3, <1>4 DEF HNext

LEMMA NextHotplugLoop == HotplugLoop /\ [HNext]_hvars => HotplugLoop'
<1> SUFFICES ASSUME HotplugLoop, [HNext]_hvars
             PROVE  HotplugLoop'
  OBVIOUS
<1> USE DEF HotplugLoop, LoopSteps
<1>1. CASE Swap \/ Thread \/ ListenerStops \/ UNCHANGED hvars
  BY <1>1 DEF Swap, Thread, Overflow, Listen, ListenerStops, hvars
<1>2. CASE Tick
  <2>1. CASE Due
    BY <1>2, <2>1 DEF Tick
  <2>2. CASE ~Due
    BY <1>2, <2>2 DEF Tick
  <2>3. QED
    BY <2>1, <2>2
<1>3. CASE Timer
  <2>1. CASE monitor.ticks < Every
    <3>1. PICK t \in Nat : monitor' = [monitor EXCEPT !.pc = "tick", !.ticks = t]
      <4>1. monitor.ticks + 1 \in Nat
        OBVIOUS
      <4>2. monitor' = [monitor EXCEPT !.pc = "tick", !.ticks = monitor.ticks + 1]
        BY <1>3, <2>1 DEF Timer
      <4>3. QED
        BY <4>1, <4>2
    <3>2. QED
      BY <3>1
  <2>2. CASE ~(monitor.ticks < Every)
    BY <1>3, <2>2 DEF Timer
  <2>3. QED
    BY <2>1, <2>2
<1>4. CASE ReadDisks \/ MergePass \/ Woken \/ Settle
  BY <1>4 DEF ReadDisks, MergePass, Woken, Settle
<1>5. QED
  BY <1>1, <1>2, <1>3, <1>4 DEF HNext, Loop

LEMMA NextHotplug == HotplugTypes /\ [HNext]_hvars => HotplugTypes'
  BY NextHotplugCounts, NextHotplugFlags, NextHotplugLoop DEF HotplugTypes

\* Every variable keeps its type.
THEOREM HotplugTypeCorrect == HSpec => []HotplugTypes
<1>1. QED
  BY InitHotplug, NextHotplug, PTL DEF HSpec

\* The invariant is inductive: a change is first in the socket or counted as
\* dropped, then in the channel, and the loop takes the channel only on its
\* way to a scan.
LEMMA NextWakes == HotplugTypes /\ HotplugOK /\ [HNext]_hvars => HotplugOK'
<1> SUFFICES ASSUME HotplugTypes, HotplugOK, [HNext]_hvars, listener', scanned' # disks'
             PROVE  \/ socket' > 0 \/ dropped' \/ channel'
                    \/ monitor'.pc \in {"settle", "scan"} \/ (monitor'.pc = "tick" /\ Due')
  BY DEF HotplugOK
<1> USE DEF HotplugTypes, HotplugCounts, HotplugLoop, LoopSteps
<1>1. CASE Swap
  BY <1>1 DEF Swap
<1>2. CASE Overflow \/ Listen
  BY <1>2 DEF Overflow, Listen
<1>3. CASE ListenerStops
  BY <1>3 DEF ListenerStops
<1>4. CASE Tick
  BY <1>4 DEF Tick, HotplugOK
<1>5. CASE ReadDisks
  BY <1>5 DEF ReadDisks
<1>6. CASE MergePass \/ Timer
  BY <1>6 DEF MergePass, Timer, HotplugOK
<1>7. CASE Woken
  BY <1>7 DEF Woken
<1>8. CASE Settle
  BY <1>8 DEF Settle, Due
<1>9. CASE UNCHANGED hvars
  BY <1>9 DEF hvars, HotplugOK, Due
<1>10. QED
  BY <1>1, <1>2, <1>3, <1>4, <1>5, <1>6, <1>7, <1>8, <1>9 DEF HNext, Loop, Thread

\* While the listener runs, a change of the disks that was not scanned is on
\* its way to the loop or about to be scanned (hotplug.rs, listen;
\* monitor.rs, run).
THEOREM NoWakeupLost == HSpec => []HotplugOK
<1>1. HInit => HotplugOK
  BY DEF HInit, HotplugOK
<1>2. QED
  BY <1>1, HotplugTypeCorrect, NextWakes, PTL DEF HSpec

-----------------------------------------------------------------------------
(* Facts about numbers and finite sets that the parts below use.              *)

\* A set of numbers has a smallest one: the sets 0 .. n of its elements have
\* one that no other is within.
LEMMA SmallestOf ==
  ASSUME NEW S \in SUBSET Nat, S # {}
  PROVE  \E m \in S : \A x \in S : m <= x
<1> DEFINE upTo == {0 .. n : n \in S}
<1>1. IsWellFoundedOn(StrictSubsetOrdering(Nat), FiniteSubsetsOf(Nat))
  BY FS_StrictSubsetOrderingWellFounded
<1>2. upTo \subseteq FiniteSubsetsOf(Nat)
  <2>1. \A n \in S : IsFiniteSet(0 .. n) /\ 0 .. n \subseteq Nat
    BY FS_Interval
  <2>2. QED
    BY <2>1 DEF FiniteSubsetsOf
<1>3. upTo # {}
  OBVIOUS
<1> HIDE DEF upTo
<1>4. PICK b \in upTo : \A c \in upTo : ~ (<<c, b>> \in StrictSubsetOrdering(Nat))
  BY <1>1, <1>2, <1>3, WFMin, Zenon
<1> USE DEF upTo
<1>5. PICK m \in S : b = 0 .. m
  OBVIOUS
<1>6. ASSUME NEW x \in S, x < m
      PROVE  FALSE
  <2>1. 0 .. x \in upTo /\ 0 .. x \subseteq b /\ 0 .. x # b
    BY <1>5, <1>6
  <2>2. <<0 .. x, b>> \in StrictSubsetOrdering(Nat)
    BY <1>2, <1>5, <2>1 DEF StrictSubsetOrdering, FiniteSubsetsOf
  <2>3. QED
    BY <1>4, <2>1, <2>2
<1>7. QED
  BY <1>6

\* A set of numbers with a bound has a largest one.
LEMMA MaxOf ==
  ASSUME NEW S \in SUBSET Nat, S # {}, NEW n \in Nat, \A x \in S : x <= n
  PROVE  Max(S) \in S /\ \A x \in S : x <= Max(S)
<1> DEFINE away == {n - x : x \in S}
<1>1. away \subseteq Nat /\ away # {}
  <2>1. \A x \in S : n - x \in Nat
    OBVIOUS
  <2>2. QED
    BY <2>1
<1>2. PICK a \in away : \A b \in away : a <= b
  BY <1>1, SmallestOf
<1>3. PICK m \in S : a = n - m
  OBVIOUS
<1>4. \A x \in S : n - x \in away
  OBVIOUS
<1> HIDE DEF away
<1>5. \A x \in S : n - m <= n - x
  BY <1>2, <1>3, <1>4
<1>6. \A x \in S : m >= x
  BY <1>5
<1>7. Max(S) \in S /\ \A x \in S : Max(S) >= x
  BY <1>6 DEF Max
<1>8. QED
  BY <1>7

\* What is in a set and at least as much as each is its largest.
LEMMA MaxIs ==
  ASSUME NEW S \in SUBSET Nat, NEW m \in S, \A x \in S : x <= m
  PROVE  Max(S) = m
<1>1. \A x \in S : m >= x
  OBVIOUS
<1>2. Max(S) \in S /\ \A x \in S : Max(S) >= x
  BY <1>1 DEF Max
<1>3. Max(S) >= m /\ m >= Max(S) /\ Max(S) \in Nat /\ m \in Nat
  BY <1>1, <1>2
<1> DEFINE most == Max(S)
<1> HIDE DEF most
<1>4. most >= m /\ m >= most /\ most \in Nat /\ m \in Nat
  BY <1>3 DEF most
<1>5. most = m
  BY <1>4
<1>6. QED
  BY <1>5 DEF most

LEMMA SetInduction ==
  ASSUME NEW S \in SUBSET Nat, 0 \in S, \A n \in S : n + 1 \in S
  PROVE  S = Nat
<1> SUFFICES ASSUME Nat \ S # {}
             PROVE  FALSE
  OBVIOUS
<1>1. PICK m \in Nat \ S : \A x \in Nat \ S : m <= x
  BY SmallestOf
<1>2. m # 0 /\ m - 1 \in Nat
  BY <1>1
<1>3. m - 1 \in S
  BY <1>1, <1>2
<1>4. QED
  BY <1>2, <1>3

-----------------------------------------------------------------------------
(* A set of numbers in order.                                              *)
Climbs(s) == \A i, j \in DOMAIN s : i < j => s[i] < s[j]

\* The smallest first, the others after it.
LEMMA Enumerated ==
  ASSUME NEW n \in Nat
  PROVE  \A S \in SUBSET Nat : IsFiniteSet(S) /\ Cardinality(S) = n => \E s \in [1 .. n -> S] : Climbs(s)
<1> DEFINE good == {k \in Nat : \A S \in SUBSET Nat : IsFiniteSet(S) /\ Cardinality(S) = k
                                   => \E s \in [1 .. k -> S] : Climbs(s)}
<1>1. 0 \in good
  <2>1. ASSUME NEW S \in SUBSET Nat, IsFiniteSet(S), Cardinality(S) = 0
        PROVE  \E s \in [1 .. 0 -> S] : Climbs(s)
    <3>1. [i \in 1 .. 0 |-> 0] \in [1 .. 0 -> S]
      OBVIOUS
    <3>2. Climbs([i \in 1 .. 0 |-> 0])
      BY DEF Climbs
    <3>3. QED
      BY <3>1, <3>2
  <2>2. QED
    BY <2>1
<1>2. ASSUME NEW k \in good
      PROVE  k + 1 \in good
  <2>1. ASSUME NEW S \in SUBSET Nat, IsFiniteSet(S), Cardinality(S) = k + 1
        PROVE  \E s \in [1 .. k + 1 -> S] : Climbs(s)
    <3>1. S # {} /\ k \in Nat
      BY <2>1, FS_EmptySet
    <3>2. PICK m \in S : \A x \in S : m <= x
      BY <3>1, SmallestOf
    <3>3. IsFiniteSet(S \ {m}) /\ Cardinality(S \ {m}) = k
      BY <2>1, <3>1, FS_RemoveElement
    <3>4. PICK s \in [1 .. k -> S \ {m}] : Climbs(s)
      BY <3>3 DEF good
    <3> DEFINE t == [i \in 1 .. k + 1 |-> IF i = 1 THEN m ELSE s[i - 1]]
    <3>5. \A i \in 1 .. k + 1 : i # 1 => i - 1 \in 1 .. k
      BY <3>1
    <3>6. t \in [1 .. k + 1 -> S]
      BY <3>5
    <3>7. ASSUME NEW i \in 1 .. k + 1, NEW j \in 1 .. k + 1, i < j
          PROVE  t[i] < t[j]
      <4>1. j - 1 \in 1 .. k /\ t[j] = s[j - 1] /\ s[j - 1] \in S \ {m}
        BY <3>5, <3>7
      <4>2. CASE i = 1
        <5>1. m <= s[j - 1] /\ m # s[j - 1] /\ m \in Nat /\ s[j - 1] \in Nat
          BY <3>2, <4>1
        <5>2. t[i] = m
          BY <4>2
        <5> HIDE DEF t
        <5>3. m < s[j - 1]
          BY <5>1
        <5>4. QED
          BY <4>1, <5>2, <5>3
      <4>3. CASE i # 1
        <5>1. i - 1 \in 1 .. k /\ t[i] = s[i - 1] /\ i - 1 < j - 1
          BY <3>5, <3>7, <4>3
        <5>2. QED
          BY <3>4, <4>1, <5>1 DEF Climbs
      <4>4. QED
        BY <4>2, <4>3
    <3>8. DOMAIN t = 1 .. k + 1
      OBVIOUS
    <3> HIDE DEF t
    <3>9. Climbs(t)
      BY <3>7, <3>8 DEF Climbs
    <3>10. QED
      BY <3>6, <3>9
  <2>2. k + 1 \in Nat
    OBVIOUS
  <2>3. QED
    BY <2>1, <2>2
<1>3. good \subseteq Nat
  OBVIOUS
<1> HIDE DEF good
<1>4. good = Nat
  BY <1>1, <1>2, <1>3, SetInduction
<1>5. QED
  BY <1>4 DEF good

LEMMA OrderOf ==
  ASSUME NEW S \in SUBSET ObjectNames
  PROVE  /\ Cardinality(S) \in Nat /\ Order(S) \in [1 .. Cardinality(S) -> S]
         /\ \A i, j \in 1 .. Cardinality(S) : i # j => Order(S)[i] # Order(S)[j]
         /\ \A x \in S : \E i \in 1 .. Cardinality(S) : Order(S)[i] = x
<1>1. IsFiniteSet(S) /\ S \in SUBSET Nat
  BY WatchAssumption, FS_Subset
<1>2. Cardinality(S) \in Nat
  BY <1>1, FS_CardinalityType
<1>3. \E s \in [1 .. Cardinality(S) -> S] : Climbs(s)
  BY <1>1, <1>2, Enumerated
<1> DEFINE o == Order(S)
           n == Cardinality(S)
<1>4. o \in [1 .. n -> S] /\ Climbs(o) /\ n \in Nat /\ n = Cardinality(S)
  BY <1>2, <1>3 DEF Order, Climbs
<1> HIDE DEF o, n
<1>5. \A i, j \in 1 .. n : i # j => o[i] # o[j]
  <2>1. \A i \in 1 .. n : o[i] \in Nat
    BY <1>1, <1>4
  <2>2. \A i, j \in 1 .. n : i < j => o[i] < o[j]
    BY <1>4 DEF Climbs
  <2>3. \A i, j \in 1 .. n : i # j => i < j \/ j < i
    OBVIOUS
  <2>4. QED
    BY <2>1, <2>2, <2>3
<1>6. \A x \in S : \E i \in 1 .. n : o[i] = x
  <2>1. o \in Injection(1 .. n, S)
    BY <1>4, <1>5 DEF Injection, IsInjective
  <2>2. Cardinality(1 .. n) = Cardinality(S)
    BY <1>4, FS_Interval
  <2>3. o \in Surjection(1 .. n, S)
    BY <1>1, <2>1, <2>2, FS_Injection
  <2>4. QED
    BY <2>3 DEF Surjection
<1>7. QED
  BY <1>4, <1>5, <1>6 DEF o, n

-----------------------------------------------------------------------------
(* What a watcher holds after some events.                                 *)

\* Nothing about a name, or the last word about it.
Untold(events, j, n) == \A i \in 1 .. j : events[i].name # n
LastWord(events, j, n, i) == i \in 1 .. j /\ events[i].name = n /\ \A k \in 1 .. j : events[k].name = n => k <= i

LEMMA AfterOf ==
  ASSUME NEW has, NEW events, NEW j \in Nat, NEW n \in ObjectNames
  PROVE  /\ Untold(events, j, n) => After(has, events, j)[n] = has[n]
         /\ \A i \in 1 .. j : LastWord(events, j, n, i) => After(has, events, j)[n] = events[i].object
         /\ Untold(events, j, n) \/ \E i \in 1 .. j : LastWord(events, j, n, i)
<1> DEFINE of == {i \in 1 .. j : events[i].name = n}
<1>1. After(has, events, j)[n] = IF of = {} THEN has[n] ELSE events[Max(of)].object
  BY DEF After
<1>2. Untold(events, j, n) => of = {}
  BY DEF Untold
<1>3. ASSUME NEW i \in 1 .. j, LastWord(events, j, n, i)
      PROVE  of # {} /\ Max(of) = i
  <2>1. i \in of /\ of \in SUBSET Nat /\ \A x \in of : x <= i
    BY <1>3 DEF LastWord
  <2> HIDE DEF of
  <2>2. QED
    BY <2>1, MaxIs
<1>4. ASSUME of # {}
      PROVE  \E i \in 1 .. j : LastWord(events, j, n, i)
  <2>1. of \in SUBSET Nat /\ \A x \in of : x <= j
    OBVIOUS
  <2>2. Max(of) \in of /\ \A x \in of : x <= Max(of)
    <3> HIDE DEF of
    <3>1. QED
      BY <1>4, <2>1, MaxOf
  <2>3. QED
    BY <2>2 DEF LastWord
<1>5. of = {} => Untold(events, j, n)
  BY DEF Untold
<1>6. QED
  BY <1>1, <1>2, <1>3, <1>4, <1>5

\* The first event of several, applied, and then the others.
LEMMA AfterFirst ==
  ASSUME NEW S, NEW has \in [ObjectNames -> S], NEW T, NEW events \in Seq(T), events # <<>>,
         Head(events).name \in ObjectNames, NEW j \in 0 .. Len(events) - 1
  PROVE  After(Applied(has, Head(events)), Tail(events), j) = After(has, events, j + 1)
<1>1. Len(events) \in Nat /\ Len(events) > 0 /\ Head(events) = events[1] /\ Len(Tail(events)) = Len(events) - 1
      /\ \A i \in 1 .. Len(events) - 1 : Tail(events)[i] = events[i + 1]
  BY HeadTailProperties, EmptySeq, LenProperties
<1> DEFINE rest == Tail(events)
           one == Applied(has, Head(events))
<1>2. \A i \in 1 .. j : rest[i] = events[i + 1]
  BY <1>1
<1>3. \A n \in ObjectNames : one[n] = IF n = events[1].name THEN events[1].object ELSE has[n]
  BY <1>1 DEF Applied
<1>4. j \in Nat /\ j + 1 \in Nat
  BY <1>1
<1> HIDE DEF rest, one
<1>5. ASSUME NEW n \in ObjectNames
      PROVE  After(one, rest, j)[n] = After(has, events, j + 1)[n]
  <2>1. CASE Untold(rest, j, n)
    <3>1. After(one, rest, j)[n] = one[n]
      BY <1>4, <2>1, AfterOf
    <3>2. \A i \in 2 .. j + 1 : events[i].name # n
      <4>1. \A i \in 2 .. j + 1 : i - 1 \in 1 .. j /\ (i - 1) + 1 = i
        BY <1>4
      <4>2. \A i \in 2 .. j + 1 : rest[i - 1] = events[i]
        BY <1>2, <4>1
      <4>3. QED
        BY <2>1, <4>1, <4>2 DEF Untold
    <3>3. CASE n = events[1].name
      <4>1. 1 \in 1 .. j + 1 /\ \A i \in 1 .. j + 1 : i = 1 \/ i \in 2 .. j + 1
        BY <1>4
      <4>2. LastWord(events, j + 1, n, 1)
        BY <3>2, <3>3, <4>1 DEF LastWord
      <4>3. QED
        BY <1>3, <1>4, <3>1, <3>3, <4>1, <4>2, AfterOf
    <3>4. CASE n # events[1].name
      <4>1. \A i \in 1 .. j + 1 : i = 1 \/ i \in 2 .. j + 1
        BY <1>4
      <4>2. Untold(events, j + 1, n)
        BY <3>2, <3>4, <4>1 DEF Untold
      <4>3. QED
        BY <1>3, <1>4, <3>1, <3>4, <4>2, AfterOf
    <3>5. QED
      BY <3>3, <3>4
  <2>2. CASE \E i \in 1 .. j : LastWord(rest, j, n, i)
    <3>1. PICK i \in 1 .. j : LastWord(rest, j, n, i)
      BY <2>2
    <3>2. rest[i] = events[i + 1] /\ i + 1 \in 1 .. j + 1
      BY <1>2, <1>4
    <3>3. ASSUME NEW k \in 1 .. j + 1, events[k].name = n
          PROVE  k <= i + 1
      <4>1. CASE k = 1
        BY <4>1
      <4>2. CASE k # 1
        <5>1. k - 1 \in 1 .. j /\ (k - 1) + 1 = k
          BY <1>4, <4>2
        <5>2. rest[k - 1] = events[k]
          BY <1>2, <5>1
        <5>3. k - 1 <= i
          BY <3>1, <3>3, <5>1, <5>2 DEF LastWord
        <5>4. QED
          BY <5>3
      <4>3. QED
        BY <4>1, <4>2
    <3>4. LastWord(events, j + 1, n, i + 1)
      BY <3>1, <3>2, <3>3 DEF LastWord
    <3>5. QED
      BY <1>4, <3>1, <3>2, <3>4, AfterOf
  <2>3. QED
    BY <1>4, <2>1, <2>2, AfterOf
<1>6. After(one, rest, j) = After(has, events, j + 1)
  BY <1>5 DEF After
<1>7. QED
  BY <1>6 DEF one, rest

\* Some events and then others.
LEMMA AfterBoth ==
  ASSUME NEW has, NEW T, NEW one \in Seq(T), NEW two \in Seq(T), NEW j \in 0 .. Len(two)
  PROVE  After(has, one \o two, Len(one) + j) = After(After(has, one, Len(one)), two, j)
<1> DEFINE both == one \o two
           mid == After(has, one, Len(one))
           l == Len(one)
<1>1. l \in Nat /\ j \in Nat /\ Len(two) \in Nat
  BY LenProperties
<1>2. \A i \in 1 .. l : both[i] = one[i]
  BY <1>1, ConcatProperties
<1>3. \A i \in 1 .. j : both[l + i] = two[i]
  <2>1. \A i \in 1 .. j : l + i \in 1 .. l + Len(two) /\ ~(l + i <= l) /\ (l + i) - l = i
    BY <1>1
  <2>2. \A i \in 1 .. l + Len(two) : both[i] = IF i <= l THEN one[i] ELSE two[i - l]
    BY ConcatProperties
  <2>3. QED
    BY <2>1, <2>2
<1>4. l + j \in Nat /\ mid = After(has, one, l)
  BY <1>1
<1> HIDE DEF both, mid, l
<1>5. \A k \in 1 .. l + j : k \in 1 .. l \/ \E i \in 1 .. j : k = l + i
  <2>1. \A k \in 1 .. l + j : k \in 1 .. l \/ (k - l \in 1 .. j /\ k = l + (k - l))
    BY <1>1
  <2>2. QED
    BY <2>1
<1>6. ASSUME NEW n \in ObjectNames
      PROVE  After(has, both, l + j)[n] = After(mid, two, j)[n]
  <2>1. CASE \E i \in 1 .. j : LastWord(two, j, n, i)
    <3>1. PICK i \in 1 .. j : LastWord(two, j, n, i)
      BY <2>1
    <3>2. l + i \in 1 .. l + j
      BY <1>1
    <3>3. ASSUME NEW k \in 1 .. l + j, both[k].name = n
          PROVE  k <= l + i
      <4>1. CASE k \in 1 .. l
        BY <1>1, <4>1
      <4>2. ASSUME NEW x \in 1 .. j, k = l + x
            PROVE  k <= l + i
        <5>1. x <= i
          BY <1>3, <3>1, <3>3, <4>2 DEF LastWord
        <5>2. QED
          BY <1>1, <4>2, <5>1
      <4>3. QED
        BY <1>5, <4>1, <4>2
    <3>4. LastWord(both, l + j, n, l + i)
      BY <1>3, <3>1, <3>2, <3>3 DEF LastWord
    <3>5. After(has, both, l + j)[n] = both[l + i].object
      BY <1>4, <3>2, <3>4, AfterOf
    <3>6. After(mid, two, j)[n] = two[i].object
      BY <1>1, <3>1, AfterOf
    <3>7. QED
      BY <1>3, <3>5, <3>6
  <2>2. CASE Untold(two, j, n)
    <3>1. After(mid, two, j)[n] = mid[n]
      BY <1>1, <2>2, AfterOf
    <3>2. \A x \in 1 .. j : both[l + x].name # n
      BY <1>3, <2>2 DEF Untold
    <3>3. CASE Untold(one, l, n)
      <4>1. Untold(both, l + j, n)
        BY <1>2, <1>5, <3>2, <3>3 DEF Untold
      <4>2. QED
        BY <1>1, <1>4, <3>1, <3>3, <4>1, AfterOf
    <3>4. CASE \E i \in 1 .. l : LastWord(one, l, n, i)
      <4>1. PICK i \in 1 .. l : LastWord(one, l, n, i)
        BY <3>4
      <4>2. i \in 1 .. l + j
        BY <1>1
      <4>3. LastWord(both, l + j, n, i)
        BY <1>2, <1>5, <3>2, <4>1, <4>2 DEF LastWord
      <4>4. QED
        BY <1>1, <1>2, <1>4, <3>1, <4>1, <4>2, <4>3, AfterOf
    <3>5. QED
      BY <1>1, <3>3, <3>4, AfterOf
  <2>3. QED
    BY <1>1, <2>1, <2>2, AfterOf
<1>7. After(has, both, l + j) = After(mid, two, j)
  BY <1>6 DEF After
<1>8. QED
  BY <1>7 DEF both, mid, l

-----------------------------------------------------------------------------
(* The types of a watch.                                                   *)
Objects == {None} \union {DriveObject(r) : r \in DriveRecords \union {None}}
           \union [labels : {{k} : k \in ObjectNames}, status : (Reports \union {None}) \X SUBSET (ObjectNames \X (DriveRecords \union {None}))]
WatchEvents == [type : {"ADDED", "MODIFIED", "DELETED"}, name : ObjectNames, object : Objects]

WatchTypes ==
  /\ drives \in [ObjectNames -> DriveRecords \union {None}] /\ shelves \in [ObjectNames -> Reports \union {None}]
  /\ watch \in [pc : {"wake", "collect", "send", "ended"}, kind : Kinds, shelves : [ObjectNames -> Reports \union {None}],
                seen : [ObjectNames -> Objects], todo : Seq(WatchEvents)]
  /\ sent \in Seq(WatchEvents) /\ held \in [ObjectNames -> Objects]
  /\ watch.pc # "send" => watch.todo = <<>>

\* What the client will hold is what the task saw, and each event fits.
Agrees(has, events, saw) ==
  /\ After(has, events, Len(events)) = saw
  /\ \A j \in 1 .. Len(events) : (events[j].type = "ADDED") <=> (After(has, events, j - 1)[events[j].name] = None)

WatchInv == WatchTypes /\ (~gone => Agrees(held, sent \o watch.todo, watch.seen))

LEMMA AfterNothing ==
  ASSUME NEW S, NEW has \in [ObjectNames -> S], NEW events
  PROVE  After(has, events, 0) = has
<1>1. \A n \in ObjectNames : Untold(events, 0, n)
  BY DEF Untold
<1>2. \A n \in ObjectNames : After(has, events, 0)[n] = has[n]
  BY <1>1, AfterOf
<1>3. QED
  BY <1>2 DEF After

LEMMA ObjectTypes ==
  ASSUME WatchTypes, NEW read \in [ObjectNames -> Reports \union {None}]
  PROVE  Collected(read) \in [ObjectNames -> Objects]
<1>1. ASSUME NEW n \in ObjectNames
      PROVE  Render(read)[n] \in Objects
  <2>1. CASE watch.kind.drives
    <3>1. drives[n] \in DriveRecords \union {None}
      BY DEF WatchTypes
    <3>2. QED
      BY <2>1, <3>1 DEF Render, Objects
  <2>2. CASE ~watch.kind.drives
    <3>1. read[n] \in Reports \union {None}
      OBVIOUS
    <3>2. {<<m, drives[m]>> : m \in DrivesIn(n)} \in SUBSET (ObjectNames \X (DriveRecords \union {None}))
      BY DEF DrivesIn, WatchTypes
    <3>3. EnclosureObject(n, read[n]) \in Objects
      BY <3>1, <3>2 DEF EnclosureObject, Objects
    <3>4. QED
      BY <2>2, <3>3 DEF Render
  <2>3. QED
    BY <2>1, <2>2
<1>2. None \in Objects
  BY DEF Objects
<1>3. QED
  BY <1>1, <1>2 DEF Collected

-----------------------------------------------------------------------------
(* What a pass sends.                                                      *)

\* One event for each name that is not as it was, of the type that fits.
Fits(e, saw, now) ==
  /\ e.object = now[e.name]
  /\ (e.type = "ADDED") <=> (saw[e.name] = None)

LEMMA PassEvents ==
  ASSUME WatchTypes, NEW now \in [ObjectNames -> Objects]
  PROVE  /\ Events(now) \in Seq(WatchEvents)
         /\ \A i \in 1 .. Len(Events(now)) : Fits(Events(now)[i], watch.seen, now)
         /\ \A i, j \in 1 .. Len(Events(now)) : i # j => Events(now)[i].name # Events(now)[j].name
         /\ \A n \in ObjectNames : now[n] # watch.seen[n] => \E i \in 1 .. Len(Events(now)) : Events(now)[i].name = n
<1> DEFINE saw == watch.seen
           changed == {n \in ObjectNames : now[n] # None /\ Type(n, now) # None}
           lost == {n \in ObjectNames : now[n] = None /\ saw[n] # None}
           there == Order(changed)
           away == Order(lost)
           one == [j \in DOMAIN there |-> [type |-> Type(there[j], now), name |-> there[j], object |-> now[there[j]]]]
           two == [j \in DOMAIN away |-> [type |-> "DELETED", name |-> away[j], object |-> None]]
           nc == Cardinality(changed)
           nl == Cardinality(lost)
<1>1. Events(now) = one \o two
  BY DEF Events
<1>2. /\ nc \in Nat /\ there \in [1 .. nc -> changed] /\ \A i, j \in 1 .. nc : i # j => there[i] # there[j]
      /\ \A x \in changed : \E i \in 1 .. nc : there[i] = x
  BY OrderOf
<1>3. /\ nl \in Nat /\ away \in [1 .. nl -> lost] /\ \A i, j \in 1 .. nl : i # j => away[i] # away[j]
      /\ \A x \in lost : \E i \in 1 .. nl : away[i] = x
  BY OrderOf
<1>4. changed \subseteq ObjectNames /\ lost \subseteq ObjectNames /\ saw \in [ObjectNames -> Objects]
  BY DEF WatchTypes
<1>5. \A n \in changed : Type(n, now) \in {"ADDED", "MODIFIED"} /\ ((Type(n, now) = "ADDED") <=> (saw[n] = None))
  BY DEF Type
<1>6. \A n \in changed : now[n] \in Objects
  BY <1>4
<1>7. \A n \in lost : now[n] = None /\ saw[n] # None
  OBVIOUS
<1>8. \A n \in ObjectNames : now[n] # saw[n] => n \in changed \/ n \in lost
  <2>1. ASSUME NEW n \in ObjectNames, now[n] # saw[n], now[n] # None
        PROVE  Type(n, now) # None
    BY <2>1, WordsAssumption DEF Type
  <2>2. QED
    BY <2>1
<1>9. changed \cap lost = {}
  OBVIOUS
<1>10. None \in Objects
  BY DEF Objects
<1> HIDE DEF changed, lost, there, away, nc, nl, saw
<1>11. one \in Seq(WatchEvents) /\ Len(one) = nc
       /\ \A i \in 1 .. nc : one[i].name = there[i] /\ there[i] \in changed /\ Fits(one[i], saw, now)
  <2>1. DOMAIN there = 1 .. nc /\ \A i \in 1 .. nc : there[i] \in changed /\ there[i] \in ObjectNames
    BY <1>2, <1>4
  <2>2. \A i \in 1 .. nc : Type(there[i], now) \in {"ADDED", "MODIFIED"} /\ now[there[i]] \in Objects
    BY <1>5, <1>6, <2>1
  <2>3. \A i \in 1 .. nc : one[i] = [type |-> Type(there[i], now), name |-> there[i], object |-> now[there[i]]]
    BY <2>1
  <2>4. \A i \in 1 .. nc : one[i] \in WatchEvents
    BY <2>1, <2>2, <2>3 DEF WatchEvents
  <2>5. one = [i \in 1 .. nc |-> one[i]]
    BY <2>1
  <2>6. \A i \in 1 .. nc : one[i].name = there[i] /\ Fits(one[i], saw, now)
    BY <1>5, <2>1, <2>3 DEF Fits
  <2> HIDE DEF one
  <2>7. one \in Seq(WatchEvents) /\ Len(one) = nc
    BY <1>2, <2>4, <2>5, SeqDef
  <2>8. QED
    BY <2>1, <2>6, <2>7
<1>12. two \in Seq(WatchEvents) /\ Len(two) = nl
       /\ \A i \in 1 .. nl : two[i].name = away[i] /\ away[i] \in lost /\ Fits(two[i], saw, now)
  <2>1. DOMAIN away = 1 .. nl /\ \A i \in 1 .. nl : away[i] \in lost /\ away[i] \in ObjectNames
    BY <1>3, <1>4
  <2>2. \A i \in 1 .. nl : two[i] = [type |-> "DELETED", name |-> away[i], object |-> None]
    BY <2>1
  <2>3. \A i \in 1 .. nl : two[i] \in WatchEvents
    BY <1>10, <2>1, <2>2 DEF WatchEvents
  <2>4. two = [i \in 1 .. nl |-> two[i]]
    BY <2>1
  <2>5. \A i \in 1 .. nl : two[i].name = away[i] /\ Fits(two[i], saw, now)
    BY <1>7, <2>1, <2>2 DEF Fits
  <2> HIDE DEF two
  <2>6. two \in Seq(WatchEvents) /\ Len(two) = nl
    BY <1>3, <2>3, <2>4, SeqDef
  <2>7. QED
    BY <2>1, <2>5, <2>6
<1> DEFINE all == Events(now)
<1> HIDE DEF one, two
<1>13. /\ all \in Seq(WatchEvents) /\ Len(all) = nc + nl
       /\ \A i \in 1 .. nc : all[i] = one[i]
       /\ \A i \in 1 .. nl : nc + i \in 1 .. nc + nl /\ all[nc + i] = two[i]
       /\ \A i \in 1 .. nc + nl : i \in 1 .. nc \/ (i - nc \in 1 .. nl /\ all[i] = two[i - nc])
  <2>1. /\ one \o two \in Seq(WatchEvents) /\ Len(one \o two) = nc + nl
        /\ \A i \in 1 .. nc + nl : (one \o two)[i] = IF i <= nc THEN one[i] ELSE two[i - nc]
    BY <1>11, <1>12, ConcatProperties
  <2>2. \A i \in 1 .. nl : nc + i \in 1 .. nc + nl /\ ~(nc + i <= nc) /\ (nc + i) - nc = i
    BY <1>2, <1>3
  <2>3. \A i \in 1 .. nc : i \in 1 .. nc + nl /\ i <= nc
    BY <1>2, <1>3
  <2>4. \A i \in 1 .. nc + nl : i \in 1 .. nc \/ (i - nc \in 1 .. nl /\ ~(i <= nc))
    BY <1>2, <1>3
  <2>5. QED
    BY <1>1, <2>1, <2>2, <2>3, <2>4
<1> HIDE DEF all
<1>14. \A i \in 1 .. Len(all) : Fits(all[i], saw, now)
  <2>1. SUFFICES ASSUME NEW i \in 1 .. nc + nl
                 PROVE  Fits(all[i], saw, now)
    BY <1>13
  <2>2. QED
    BY <1>11, <1>12, <1>13
<1>15. \A i, j \in 1 .. Len(all) : i # j => all[i].name # all[j].name
  <2>1. SUFFICES ASSUME NEW i \in 1 .. nc + nl, NEW j \in 1 .. nc + nl, i # j
                 PROVE  all[i].name # all[j].name
    BY <1>13
  <2>2. CASE i \in 1 .. nc /\ j \in 1 .. nc
    BY <1>2, <1>11, <1>13, <2>1, <2>2
  <2>3. CASE i - nc \in 1 .. nl /\ j - nc \in 1 .. nl /\ all[i] = two[i - nc] /\ all[j] = two[j - nc]
    <3>1. i - nc # j - nc
      BY <1>2, <2>1
    <3>2. QED
      BY <1>3, <1>12, <2>3, <3>1
  <2>4. CASE i \in 1 .. nc /\ j - nc \in 1 .. nl /\ all[j] = two[j - nc]
    <3>1. all[i].name \in changed /\ all[j].name \in lost
      BY <1>11, <1>12, <1>13, <2>4
    <3>2. QED
      BY <1>9, <3>1
  <2>5. CASE j \in 1 .. nc /\ i - nc \in 1 .. nl /\ all[i] = two[i - nc]
    <3>1. all[j].name \in changed /\ all[i].name \in lost
      BY <1>11, <1>12, <1>13, <2>5
    <3>2. QED
      BY <1>9, <3>1
  <2>6. QED
    BY <1>13, <2>2, <2>3, <2>4, <2>5
<1>16. ASSUME NEW n \in ObjectNames, now[n] # saw[n]
       PROVE  \E i \in 1 .. Len(all) : all[i].name = n
  <2>1. CASE n \in changed
    <3>1. PICK i \in 1 .. nc : there[i] = n
      BY <1>2, <2>1
    <3>2. i \in 1 .. nc + nl
      BY <1>2, <1>3
    <3>3. QED
      BY <1>11, <1>13, <3>1, <3>2
  <2>2. CASE n \in lost
    <3>1. PICK i \in 1 .. nl : away[i] = n
      BY <1>3, <2>2
    <3>2. QED
      BY <1>12, <1>13, <3>1
  <2>3. QED
    BY <1>8, <1>16, <2>1, <2>2
<1>17. QED
  BY <1>13, <1>14, <1>15, <1>16 DEF all, saw

\* A pass's events, applied to what was seen, are what is seen now.
LEMMA PassAgrees ==
  ASSUME WatchTypes, NEW now \in [ObjectNames -> Objects]
  PROVE  Agrees(watch.seen, Events(now), now)
<1> DEFINE all == Events(now)
           saw == watch.seen
<1>1. /\ all \in Seq(WatchEvents)
      /\ \A i \in 1 .. Len(all) : Fits(all[i], saw, now)
      /\ \A i, j \in 1 .. Len(all) : i # j => all[i].name # all[j].name
      /\ \A n \in ObjectNames : now[n] # saw[n] => \E i \in 1 .. Len(all) : all[i].name = n
  BY PassEvents
<1>2. saw \in [ObjectNames -> Objects]
  BY DEF WatchTypes
<1> HIDE DEF all, saw
<1>3. Len(all) \in Nat /\ \A i \in 1 .. Len(all) : all[i].name \in ObjectNames
  <2>1. Len(all) \in Nat
    BY <1>1, LenProperties
  <2>2. ASSUME NEW i \in 1 .. Len(all)
        PROVE  all[i] \in WatchEvents
    BY <1>1, ElementOfSeq
  <2>3. \A e \in WatchEvents : e.name \in ObjectNames
    BY DEF WatchEvents
  <2>4. QED
    BY <2>1, <2>2, <2>3
<1>4. ASSUME NEW n \in ObjectNames
      PROVE  After(saw, all, Len(all))[n] = now[n]
  <2>1. CASE Untold(all, Len(all), n)
    BY <1>1, <1>3, <2>1, AfterOf DEF Untold
  <2>2. ASSUME NEW i \in 1 .. Len(all), LastWord(all, Len(all), n, i)
        PROVE  After(saw, all, Len(all))[n] = now[n]
    BY <1>1, <1>3, <2>2, AfterOf DEF LastWord, Fits
  <2>3. QED
    BY <1>3, <2>1, <2>2, AfterOf
<1>5. After(saw, all, Len(all)) = now
  BY <1>4 DEF After
<1>6. ASSUME NEW j \in 1 .. Len(all)
      PROVE  (all[j].type = "ADDED") <=> (After(saw, all, j - 1)[all[j].name] = None)
  <2>1. j - 1 \in Nat /\ \A i \in 1 .. j - 1 : i \in 1 .. Len(all) /\ i # j
    BY <1>3
  <2>2. Untold(all, j - 1, all[j].name)
    BY <1>1, <2>1 DEF Untold
  <2>3. After(saw, all, j - 1)[all[j].name] = saw[all[j].name]
    BY <1>3, <2>1, <2>2, AfterOf
  <2>4. QED
    BY <1>1, <2>3 DEF Fits
<1>7. QED
  BY <1>5, <1>6 DEF Agrees, all, saw

\* What is sent and then a pass.
LEMMA AgreesOn ==
  ASSUME NEW has, NEW mid, NEW saw, NEW one \in Seq(WatchEvents), NEW two \in Seq(WatchEvents),
         Agrees(has, one, mid), Agrees(mid, two, saw)
  PROVE  Agrees(has, one \o two, saw)
<1> DEFINE both == one \o two
<1>1. Len(one) \in Nat /\ Len(two) \in Nat /\ Len(both) = Len(one) + Len(two)
      /\ \A i \in 1 .. Len(one) + Len(two) : both[i] = IF i <= Len(one) THEN one[i] ELSE two[i - Len(one)]
  BY LenProperties, ConcatProperties
<1>2. \A j \in 0 .. Len(two) : After(has, both, Len(one) + j) = After(mid, two, j)
  BY AfterBoth DEF Agrees
<1>3. After(has, both, Len(both)) = saw
  <2>1. Len(two) \in 0 .. Len(two)
    BY <1>1
  <2>2. QED
    BY <1>1, <1>2, <2>1 DEF Agrees
<1> HIDE DEF both
<1>4. ASSUME NEW j \in 1 .. Len(one)
      PROVE  (both[j].type = "ADDED") <=> (After(has, both, j - 1)[both[j].name] = None)
  <2>1. both[j] = one[j] /\ j - 1 \in Nat /\ \A i \in 1 .. j - 1 : both[i] = one[i]
    BY <1>1
  <2>2. After(has, both, j - 1) = After(has, one, j - 1)
    <3>1. \A n \in ObjectNames : {i \in 1 .. j - 1 : both[i].name = n} = {i \in 1 .. j - 1 : one[i].name = n}
      BY <2>1
    <3>2. ASSUME NEW n \in ObjectNames
          PROVE  After(has, both, j - 1)[n] = After(has, one, j - 1)[n]
      <4>1. CASE Untold(one, j - 1, n)
        <5>1. Untold(both, j - 1, n)
          BY <2>1, <4>1 DEF Untold
        <5>2. QED
          BY <2>1, <4>1, <5>1, AfterOf
      <4>2. ASSUME NEW i \in 1 .. j - 1, LastWord(one, j - 1, n, i)
            PROVE  After(has, both, j - 1)[n] = After(has, one, j - 1)[n]
        <5>1. LastWord(both, j - 1, n, i) /\ both[i] = one[i]
          BY <2>1, <4>2 DEF LastWord
        <5>2. QED
          BY <2>1, <4>2, <5>1, AfterOf
      <4>3. QED
        BY <2>1, <4>1, <4>2, AfterOf
    <3>3. QED
      BY <3>2 DEF After
  <2>3. QED
    BY <2>1, <2>2 DEF Agrees
<1>5. ASSUME NEW j \in 1 .. Len(two)
      PROVE  (two[j].type = "ADDED") <=> (After(has, both, Len(one) + j - 1)[two[j].name] = None)
  <2>1. j - 1 \in 0 .. Len(two) /\ Len(one) + (j - 1) = Len(one) + j - 1
    BY <1>1
  <2>2. After(has, both, Len(one) + j - 1) = After(mid, two, j - 1)
    BY <1>2, <2>1
  <2>3. QED
    BY <2>2 DEF Agrees
<1>6. ASSUME NEW j \in 1 .. Len(both)
      PROVE  (both[j].type = "ADDED") <=> (After(has, both, j - 1)[both[j].name] = None)
  <2>1. CASE j <= Len(one)
    <3>1. j \in 1 .. Len(one)
      BY <1>1, <2>1
    <3>2. QED
      BY <1>4, <3>1
  <2>2. CASE ~(j <= Len(one))
    <3>1. j - Len(one) \in 1 .. Len(two) /\ both[j] = two[j - Len(one)] /\ Len(one) + (j - Len(one)) - 1 = j - 1
      BY <1>1, <2>2
    <3>2. QED
      BY <1>5, <3>1
  <2>3. QED
    BY <2>1, <2>2
<1>7. QED
  BY <1>3, <1>6 DEF Agrees, both

\* The client takes the first of them.
LEMMA AgreesLess ==
  ASSUME NEW has \in [ObjectNames -> Objects], NEW saw, NEW events \in Seq(WatchEvents), events # <<>>,
         Agrees(has, events, saw)
  PROVE  Applied(has, Head(events)) \in [ObjectNames -> Objects] /\ Agrees(Applied(has, Head(events)), Tail(events), saw)
<1> DEFINE rest == Tail(events)
           one == Applied(has, Head(events))
<1>1. Len(events) \in Nat /\ Len(events) > 0 /\ Head(events) = events[1] /\ Len(rest) = Len(events) - 1
      /\ \A i \in 1 .. Len(events) - 1 : rest[i] = events[i + 1]
  BY HeadTailProperties, EmptySeq, LenProperties
<1>2. Head(events) \in WatchEvents /\ Head(events).name \in ObjectNames /\ Head(events).object \in Objects
  <2>1. Head(events) \in WatchEvents
    BY HeadTailProperties
  <2>2. \A e \in WatchEvents : e.name \in ObjectNames /\ e.object \in Objects
    BY DEF WatchEvents
  <2>3. QED
    BY <2>1, <2>2
<1>3. \A j \in 0 .. Len(events) - 1 : After(one, rest, j) = After(has, events, j + 1)
  BY <1>2, AfterFirst
<1>4. one \in [ObjectNames -> Objects]
  BY <1>2 DEF Applied
<1> HIDE DEF one, rest
<1>5. After(one, rest, Len(rest)) = saw
  <2>1. Len(events) - 1 \in 0 .. Len(events) - 1 /\ (Len(events) - 1) + 1 = Len(events)
    BY <1>1
  <2>2. QED
    BY <1>1, <1>3, <2>1 DEF Agrees
<1>6. ASSUME NEW j \in 1 .. Len(rest)
      PROVE  (rest[j].type = "ADDED") <=> (After(one, rest, j - 1)[rest[j].name] = None)
  <2>1. j + 1 \in 1 .. Len(events) /\ j - 1 \in 0 .. Len(events) - 1 /\ (j - 1) + 1 = j /\ (j + 1) - 1 = j
        /\ rest[j] = events[j + 1]
    BY <1>1
  <2>2. After(one, rest, j - 1) = After(has, events, j)
    BY <1>3, <2>1
  <2>3. (events[j + 1].type = "ADDED") <=> (After(has, events, (j + 1) - 1)[events[j + 1].name] = None)
    BY <2>1 DEF Agrees
  <2>4. QED
    BY <2>1, <2>2, <2>3
<1>7. QED
  BY <1>4, <1>5, <1>6 DEF Agrees, one, rest

-----------------------------------------------------------------------------
(* The steps of a watch.                                                   *)

LEMMA InitWatch == WInit => WatchInv
<1> SUFFICES ASSUME WInit
             PROVE  WatchInv
  OBVIOUS
<1>1. Nothing \in [ObjectNames -> Reports \union {None}] /\ Nothing \in [ObjectNames -> Objects]
  BY DEF Nothing, Objects
<1>2. <<>> \in Seq(WatchEvents)
  BY EmptySeq
<1>3. WatchTypes
  BY <1>1, <1>2 DEF WInit, WatchTypes
<1>4. sent \o watch.todo = <<>> /\ Len(<<>>) = 0 /\ held = watch.seen /\ held \in [ObjectNames -> Objects]
  BY <1>1, <1>2, ConcatEmptySeq, EmptySeq DEF WInit
<1>5. Agrees(held, <<>>, held)
  BY <1>4, AfterNothing DEF Agrees
<1>6. QED
  BY <1>3, <1>4, <1>5 DEF WatchInv

\* Steps that neither send, see nor take anything.
LEMMA NothingTold ==
  ASSUME WatchInv, WatchTypes', UNCHANGED <<sent, held>>, watch'.todo = watch.todo, watch'.seen = watch.seen,
         gone' = gone
  PROVE  WatchInv'
  BY DEF WatchInv

LEMMA CollectWatch == WatchInv /\ Collect => WatchInv'
<1> SUFFICES ASSUME WatchInv, Collect
             PROVE  WatchInv'
  OBVIOUS
<1> DEFINE now == Collected(watch.shelves)
<1>1. /\ watch.pc = "collect" /\ watch.todo = <<>>
      /\ watch' = [watch EXCEPT !.pc = "send", !.todo = Events(now), !.seen = now, !.shelves = Nothing]
      /\ UNCHANGED <<drives, shelves, sent, held, gone, changes>>
  BY DEF Collect, WatchInv, WatchTypes
<1>2. now \in [ObjectNames -> Objects]
  BY ObjectTypes DEF WatchInv, WatchTypes
<1> HIDE DEF now
<1>3. Events(now) \in Seq(WatchEvents) /\ Agrees(watch.seen, Events(now), now)
  BY <1>2, PassEvents, PassAgrees DEF WatchInv
<1>4. Nothing \in [ObjectNames -> Reports \union {None}]
  BY DEF Nothing
<1>5. WatchTypes'
  BY <1>1, <1>2, <1>3, <1>4 DEF WatchInv, WatchTypes
<1>6. watch'.todo = Events(now) /\ watch'.seen = now
  BY <1>1 DEF WatchInv, WatchTypes
<1>7. ASSUME ~gone
      PROVE  Agrees(held, sent \o Events(now), now)
  <2>1. sent \in Seq(WatchEvents) /\ sent \o <<>> = sent
    BY ConcatEmptySeq DEF WatchInv, WatchTypes
  <2>2. Agrees(held, sent, watch.seen)
    BY <1>1, <1>7, <2>1 DEF WatchInv
  <2>3. QED
    BY <1>3, <2>1, <2>2, AgreesOn
<1>8. QED
  BY <1>1, <1>5, <1>6, <1>7 DEF WatchInv

LEMMA SendWatch == WatchInv /\ Send => WatchInv'
<1> SUFFICES ASSUME WatchInv, Send
             PROVE  WatchInv'
  OBVIOUS
<1>1. watch.pc = "send" /\ watch.todo # <<>> /\ watch.todo \in Seq(WatchEvents) /\ sent \in Seq(WatchEvents)
      /\ UNCHANGED <<drives, shelves, held, gone, changes>>
  BY DEF Send, WatchInv, WatchTypes
<1>2. CASE gone
  <2>1. watch' = [watch EXCEPT !.pc = "ended", !.todo = <<>>] /\ sent' = sent
    BY <1>2 DEF Send
  <2>2. WatchTypes'
    BY <1>1, <2>1, EmptySeq DEF WatchInv, WatchTypes
  <2>3. QED
    BY <1>1, <1>2, <2>2 DEF WatchInv
<1>3. CASE ~gone
  <2>1. watch' = [watch EXCEPT !.todo = Tail(watch.todo)] /\ sent' = Append(sent, Head(watch.todo))
    BY <1>3 DEF Send
  <2>2. Head(watch.todo) \in WatchEvents /\ Tail(watch.todo) \in Seq(WatchEvents)
        /\ <<Head(watch.todo)>> \o Tail(watch.todo) = watch.todo
    BY <1>1, HeadTailProperties
  <2>3. sent' \in Seq(WatchEvents) /\ sent' = sent \o <<Head(watch.todo)>>
    BY <1>1, <2>1, <2>2, AppendProperties
  <2>4. WatchTypes'
    BY <1>1, <2>1, <2>2, <2>3 DEF WatchInv, WatchTypes
  <2>5. watch'.todo = Tail(watch.todo) /\ watch'.seen = watch.seen
    BY <2>1 DEF WatchInv, WatchTypes
  <2>6. sent' \o watch'.todo = sent \o watch.todo
    <3> DEFINE first == <<Head(watch.todo)>>
               rest == Tail(watch.todo)
               todo == watch.todo
    <3>1. /\ first \in Seq(WatchEvents) /\ rest \in Seq(WatchEvents)
          /\ first \o rest = todo /\ sent' = sent \o first /\ watch'.todo = rest
      BY <2>2, <2>3, <2>5
    <3> HIDE DEF first, rest, todo
    <3>2. sent \in Seq(WatchEvents) /\ first \in Seq(WatchEvents) /\ rest \in Seq(WatchEvents)
      BY <1>1, <3>1
    <3>3. (sent \o first) \o rest = sent \o (first \o rest)
      BY <3>2, ConcatAssociative
    <3>4. sent' \o watch'.todo = sent \o todo
      BY <3>1, <3>3
    <3>5. QED
      BY <3>4 DEF todo
  <2>7. QED
    BY <1>1, <1>3, <2>4, <2>5, <2>6 DEF WatchInv
<1>4. QED
  BY <1>2, <1>3

LEMMA ReceiveWatch == WatchInv /\ Receive => WatchInv'
<1> SUFFICES ASSUME WatchInv, Receive
             PROVE  WatchInv'
  OBVIOUS
<1>1. /\ ~gone /\ sent # <<>> /\ held' = Applied(held, Head(sent)) /\ sent' = Tail(sent)
      /\ UNCHANGED <<drives, shelves, watch, gone, changes>>
      /\ sent \in Seq(WatchEvents) /\ watch.todo \in Seq(WatchEvents) /\ held \in [ObjectNames -> Objects]
  BY DEF Receive, WatchInv, WatchTypes
<1> DEFINE coming == sent \o watch.todo
<1>2. Agrees(held, coming, watch.seen)
  BY <1>1 DEF WatchInv
<1>3. coming \in Seq(WatchEvents) /\ coming # <<>> /\ Head(coming) = Head(sent) /\ Tail(coming) = Tail(sent) \o watch.todo
  <2>1. Head(sent) \in WatchEvents /\ Tail(sent) \in Seq(WatchEvents) /\ <<Head(sent)>> \o Tail(sent) = sent
    BY <1>1, HeadTailProperties
  <2>2. <<Head(sent)>> \in Seq(WatchEvents)
    BY <2>1
  <2>3. coming = <<Head(sent)>> \o (Tail(sent) \o watch.todo)
    BY <1>1, <2>1, <2>2, ConcatAssociative
  <2>4. Tail(sent) \o watch.todo \in Seq(WatchEvents)
    BY <1>1, <2>1, ConcatProperties
  <2> DEFINE rest == Tail(sent) \o watch.todo
             e == Head(sent)
  <2>5. coming = <<e>> \o rest /\ rest \in Seq(WatchEvents) /\ e \in WatchEvents /\ rest = Tail(sent) \o watch.todo /\ e = Head(sent)
    BY <2>1, <2>3, <2>4
  <2> HIDE DEF coming, rest, e
  <2>6. <<e>> \in Seq(WatchEvents) /\ Len(<<e>>) = 1 /\ <<e>>[1] = e
    BY <2>5
  <2>7. coming \in Seq(WatchEvents) /\ Len(coming) = 1 + Len(rest) /\ Len(rest) \in Nat
        /\ \A i \in 1 .. 1 + Len(rest) : coming[i] = IF i <= 1 THEN <<e>>[i] ELSE rest[i - 1]
    BY <2>5, <2>6, ConcatProperties, LenProperties
  <2>8. coming # <<>>
    BY <2>7, EmptySeq
  <2>9. Head(coming) = e /\ Tail(coming) \in Seq(WatchEvents) /\ Len(Tail(coming)) = Len(rest)
        /\ \A i \in 1 .. Len(rest) : Tail(coming)[i] = coming[i + 1]
    <3>1. Head(coming) = coming[1] /\ Tail(coming) \in Seq(WatchEvents) /\ Len(Tail(coming)) = Len(coming) - 1
          /\ \A i \in 1 .. Len(coming) - 1 : Tail(coming)[i] = coming[i + 1]
      BY <2>7, <2>8, HeadTailProperties
    <3>2. coming[1] = e /\ Len(coming) - 1 = Len(rest)
      BY <2>6, <2>7
    <3>3. QED
      BY <3>1, <3>2
  <2>10. \A i \in 1 .. Len(rest) : Tail(coming)[i] = rest[i]
    <3>1. \A i \in 1 .. Len(rest) : i + 1 \in 1 .. 1 + Len(rest) /\ ~(i + 1 <= 1) /\ (i + 1) - 1 = i
      BY <2>7
    <3>2. QED
      BY <2>7, <2>9, <3>1
  <2>11. Tail(coming) = rest
    BY <2>5, <2>9, <2>10, SeqEqual
  <2>12. QED
    BY <2>5, <2>7, <2>8, <2>9, <2>11
<1> HIDE DEF coming
<1>4. held' \in [ObjectNames -> Objects] /\ Agrees(held', Tail(coming), watch.seen)
  BY <1>1, <1>2, <1>3, AgreesLess
<1>5. WatchTypes'
  <2>1. Tail(sent) \in Seq(WatchEvents)
    BY <1>1, HeadTailProperties
  <2>2. QED
    BY <1>1, <1>4, <2>1 DEF WatchInv, WatchTypes
<1>6. sent' \o watch'.todo = Tail(coming) /\ watch'.seen = watch.seen
  BY <1>1, <1>3
<1>7. QED
  BY <1>4, <1>5, <1>6 DEF WatchInv

LEMMA NextWatch == WatchInv /\ [WNext]_wvars => WatchInv'
<1> SUFFICES ASSUME WatchInv, [WNext]_wvars
             PROVE  WatchInv'
  OBVIOUS
<1>1. CASE Wake
  <2>1. WatchTypes'
    BY <1>1 DEF Wake, WatchInv, WatchTypes
  <2>2. watch'.todo = watch.todo /\ watch'.seen = watch.seen /\ UNCHANGED <<sent, held, gone>>
    BY <1>1 DEF Wake, WatchInv, WatchTypes
  <2>3. QED
    BY <2>1, <2>2, NothingTold
<1>2. CASE Sleep
  <2>1. WatchTypes'
    BY <1>2 DEF Sleep, WatchInv, WatchTypes
  <2>2. watch'.todo = watch.todo /\ watch'.seen = watch.seen /\ UNCHANGED <<sent, held, gone>>
    BY <1>2 DEF Sleep, WatchInv, WatchTypes
  <2>3. QED
    BY <2>1, <2>2, NothingTold
<1>3. CASE Disconnect
  <2>1. Nothing \in [ObjectNames -> Objects] /\ <<>> \in Seq(WatchEvents)
    BY EmptySeq DEF Nothing, Objects
  <2>2. WatchTypes' /\ gone'
    BY <1>3, <2>1 DEF Disconnect, WatchInv, WatchTypes
  <2>3. QED
    BY <2>2 DEF WatchInv
<1>4. ASSUME NEW n \in ObjectNames, ChangeDrive(n)
      PROVE  WatchInv'
  <2>1. WatchTypes'
    BY <1>4 DEF ChangeDrive, WatchInv, WatchTypes
  <2>2. watch' = watch /\ UNCHANGED <<sent, held, gone>>
    BY <1>4 DEF ChangeDrive
  <2>3. QED
    BY <2>1, <2>2, NothingTold
<1>5. ASSUME NEW n \in ObjectNames, ChangeShelf(n)
      PROVE  WatchInv'
  <2>1. WatchTypes'
    BY <1>5 DEF ChangeShelf, WatchInv, WatchTypes
  <2>2. watch' = watch /\ UNCHANGED <<sent, held, gone>>
    BY <1>5 DEF ChangeShelf
  <2>3. QED
    BY <2>1, <2>2, NothingTold
<1>6. CASE UNCHANGED wvars
  <2>1. UNCHANGED <<drives, shelves, watch, sent, held, gone>>
    BY <1>6 DEF wvars
  <2>2. WatchTypes'
    BY <2>1 DEF WatchTypes, WatchInv
  <2>3. QED
    BY <2>1, <2>2, NothingTold
<1>7. QED
  BY <1>1, <1>2, <1>3, <1>4, <1>5, <1>6, CollectWatch, SendWatch, ReceiveWatch DEF WNext, Task

LEMMA WatchIsOK == WatchInv => WatchOK
<1> SUFFICES ASSUME WatchInv, ~gone
             PROVE  WatchOK
  BY DEF WatchOK
<1> DEFINE coming == sent \o watch.todo
<1>1. coming \in Seq(WatchEvents) /\ Agrees(held, coming, watch.seen)
  BY ConcatProperties DEF WatchInv, WatchTypes
<1>2. DOMAIN coming = 1 .. Len(coming)
  BY <1>1, LenProperties
<1> HIDE DEF coming
<1>3. After(held, coming, Len(coming)) = watch.seen
      /\ \A j \in DOMAIN coming : (coming[j].type = "ADDED") <=> (After(held, coming, j - 1)[coming[j].name] = None)
  BY <1>1, <1>2 DEF Agrees
<1>4. QED
  BY <1>3 DEF coming, WatchOK

\* A client that heard every event holds what the watch task has seen, and is
\* never told of an object it has as new, or of one it has not as changed or
\* deleted (api/kube.rs, run_watch, events; unless it went away or the listing
\* was no list).
THEOREM WatchHolds == WSpec => []WatchOK
<1>1. QED
  BY InitWatch, NextWatch, WatchIsOK, PTL DEF WSpec

-----------------------------------------------------------------------------
(* Shelves behind RAID controllers, proved for any controllers, disks and     *)
(* lists: the table is what the last scan found, and a drive is placed by it. *)

\* What merge_shelves and merge_drives leave behind a pass nothing disturbed,
\* what the log was told, and where the bays of record are from.
RaidTypes ==
  /\ lists \in [Controllers -> Lists]
  /\ round \in [pc : {"rest", "shelves", "hbas", "drives"}, busy : BOOLEAN, still : BOOLEAN]
  /\ told = [shelves |-> told.shelves, cards |-> told.cards]
TableIsScan == round.still /\ round.pc # "shelves" => table = Scanned
PlacedByTable ==
  round.still /\ round.pc = "rest" =>
    \A h \in Controllers, x \in Disks :
      /\ at[h][x].shelf = Place(h, x).shelf
      /\ Place(h, x).bay # None => at[h][x].bay = Place(h, x).bay
BaysWereGiven == \A k \in DOMAIN table : \A x \in DOMAIN table[k].bays : <<k, x, table[k].bays[x]>> \in gave
RaidInv == RaidTypes /\ TableIsScan /\ PlacedByTable /\ BaysWereGiven /\ BayIsItsShelfs /\ LogTells

LEMMA InitRaid == RInit => RaidInv
<1> SUFFICES ASSUME RInit
             PROVE  RaidInv
  OBVIOUS
<1>1. RaidTypes /\ TableIsScan /\ PlacedByTable
  BY DEF RInit, RaidTypes, TableIsScan, PlacedByTable, NoLog
<1>2. DOMAIN table = {} /\ DOMAIN hbas = {} /\ DOMAIN told.shelves = {} /\ DOMAIN told.cards = {}
  BY DEF RInit, NoLog
<1>3. BayIsItsShelfs
  BY DEF RInit, Unplaced, BayIsItsShelfs
<1>4. QED
  BY <1>1, <1>2, <1>3 DEF RaidInv, BaysWereGiven, LogTells

\* Steps that leave the table, the places and the log alone, and what is scanned
\* or the stillness of the pass.
LEMMA NothingMerged ==
  ASSUME RaidInv, RaidTypes', UNCHANGED <<table, at, gave, told, hbas>>,
         ~round'.still \/ (Scanned' = Scanned /\ round'.still = round.still
                           /\ (round'.pc = round.pc \/ round'.pc = "shelves"))
  PROVE  RaidInv'
<1>1. TableIsScan'
  BY DEF RaidInv, RaidTypes, TableIsScan
<1>2. \A h, x : Place(h, x)' = Place(h, x)
  BY DEF Place
<1>3. PlacedByTable'
  BY <1>2 DEF RaidInv, RaidTypes, PlacedByTable
<1>4. QED
  BY <1>1, <1>3 DEF RaidInv, BaysWereGiven, BayIsItsShelfs, LogTells

\* What is scanned is of the controllers' lists and the SES shelf.
LEMMA SameScan ==
  ASSUME UNCHANGED <<lists, ses>>
  PROVE  Scanned' = Scanned
  BY DEF Scanned, Read, SesReport

LEMMA MergeShelvesRaid == RaidInv /\ MergeShelves => RaidInv'
<1> SUFFICES ASSUME RaidInv, MergeShelves
             PROVE  RaidInv'
  OBVIOUS
<1>1. /\ table' = Scanned /\ Scanned' = Scanned
      /\ told' = [shelves |-> [k \in DOMAIN Scanned |-> Said(k, Scanned)], cards |-> told.cards]
      /\ round.pc = "shelves" /\ round' = [round EXCEPT !.pc = "hbas", !.busy = FALSE]
      /\ UNCHANGED <<hbas, at>>
  BY SameScan DEF MergeShelves, RaidInv, RaidTypes
<1>2. gave' = gave \union UNION {{<<k, x, table'[k].bays[x]>> : x \in DOMAIN table'[k].bays} : k \in DOMAIN table'}
  BY DEF MergeShelves
<1>3. round' \in [pc : {"rest", "shelves", "hbas", "drives"}, busy : BOOLEAN, still : BOOLEAN] /\ round'.pc = "hbas"
  BY <1>1 DEF RaidInv, RaidTypes
<1>4. RaidTypes' /\ TableIsScan' /\ PlacedByTable'
  <2>1. lists' \in [Controllers -> Lists]
    BY DEF MergeShelves, RaidInv, RaidTypes
  <2>2. RaidTypes'
    BY <1>1, <1>3, <2>1 DEF RaidTypes
  <2>3. QED
    BY <1>1, <1>3, <2>2 DEF TableIsScan, PlacedByTable
<1>5. BaysWereGiven'
  BY <1>2 DEF BaysWereGiven
<1>6. BayIsItsShelfs'
  BY <1>1, <1>2 DEF RaidInv, BayIsItsShelfs
<1>7. DOMAIN told'.shelves = DOMAIN table' /\ told'.cards = told.cards
      /\ \A k \in DOMAIN table' : told'.shelves[k] = Said(k, table')
  BY <1>1
<1>8. ASSUME NEW k \in DOMAIN table'
      PROVE  /\ table'[k].error # None => told'.shelves[k].error = table'[k].error
             /\ told'.shelves[k].status \in {None, table'[k].status}
  <2> DEFINE fresh == table'
  <2>1. told'.shelves[k] = Said(k, fresh)
    BY <1>7
  <2> HIDE DEF fresh
  <2>2. /\ told'.shelves[k].error = Error(k, fresh)
        /\ told'.shelves[k].status = IF k \notin DOMAIN table THEN None
              ELSE IF table[k].status # fresh[k].status THEN fresh[k].status ELSE told.shelves[k].status
    BY <2>1 DEF Said
  <2>3. fresh[k].error # None => Error(k, fresh) = fresh[k].error
    BY DEF Error
  <2>4. k \in DOMAIN table => told.shelves[k].status \in {None, table[k].status}
    BY DEF RaidInv, LogTells
  <2>5. told'.shelves[k].status \in {None, fresh[k].status}
    BY <2>2, <2>4
  <2>6. QED
    BY <2>2, <2>3, <2>5 DEF fresh
<1>9. LogTells'
  BY <1>1, <1>7, <1>8 DEF RaidInv, LogTells
<1>10. QED
  BY <1>4, <1>5, <1>6, <1>9 DEF RaidInv

LEMMA MergeHbasRaid == RaidInv /\ MergeHbas => RaidInv'
<1> SUFFICES ASSUME RaidInv, MergeHbas
             PROVE  RaidInv'
  OBVIOUS
<1> DEFINE now == Assembled
<1>1. /\ hbas' = now /\ UNCHANGED <<lists, ses, table, at, gave>>
      /\ told' = [shelves |-> told.shelves, cards |-> [c \in DOMAIN now |->
                  IF c \notin DOMAIN hbas \/ Flashed(hbas[c].firmware, now[c].firmware)
                  THEN now[c].firmware ELSE told.cards[c]]]
      /\ round.pc = "hbas" /\ round' = [round EXCEPT !.pc = "drives"]
  BY DEF MergeHbas, RaidInv, RaidTypes
<1> HIDE DEF now
<1>2. RaidTypes' /\ round'.pc = "drives" /\ round'.still = round.still
  BY <1>1 DEF RaidInv, RaidTypes
<1>3. TableIsScan' /\ PlacedByTable'
  BY <1>1, <1>2, SameScan DEF RaidInv, TableIsScan, PlacedByTable
<1>4. BaysWereGiven' /\ BayIsItsShelfs'
  BY <1>1 DEF RaidInv, BaysWereGiven, BayIsItsShelfs
<1>5. told'.shelves = told.shelves /\ DOMAIN told'.cards = DOMAIN hbas'
      /\ \A c \in DOMAIN hbas' : told'.cards[c] = IF c \notin DOMAIN hbas \/ Flashed(hbas[c].firmware, hbas'[c].firmware)
                                                 THEN hbas'[c].firmware ELSE told.cards[c]
  BY <1>1
<1>6. \A c \in DOMAIN hbas' : hbas'[c].firmware # None => told'.cards[c] = hbas'[c].firmware
  BY <1>5 DEF Flashed, RaidInv, LogTells
<1>7. LogTells'
  BY <1>1, <1>5, <1>6 DEF RaidInv, LogTells
<1>8. QED
  BY <1>2, <1>3, <1>4, <1>7 DEF RaidInv

\* A place with a bay is one the table has.
LEMMA PlaceGives ==
  ASSUME NEW h, NEW x
  PROVE  /\ Place(h, x) = [shelf |-> Place(h, x).shelf, bay |-> Place(h, x).bay]
         /\ Place(h, x).bay # None =>
              /\ Place(h, x).shelf \in DOMAIN table /\ x \in DOMAIN table[Place(h, x).shelf].bays
              /\ Place(h, x).bay = table[Place(h, x).shelf].bays[x]
<1> DEFINE mine == {k \in DOMAIN table : table[k].host = h}
           with == {k \in mine : x \in DOMAIN table[k].bays}
           slotless == {k \in mine : x \in table[k].unmatched}
<1>1. CASE with # {}
  <2> DEFINE k == CHOOSE y \in with : TRUE
  <2>1. k \in with
    BY <1>1
  <2>2. Place(h, x) = [shelf |-> k, bay |-> table[k].bays[x]]
    BY <1>1 DEF Place
  <2> HIDE DEF k
  <2>3. QED
    BY <2>1, <2>2
<1>2. CASE with = {} /\ slotless # {}
  <2>1. Place(h, x) = [shelf |-> CHOOSE y \in slotless : TRUE, bay |-> None]
    BY <1>2 DEF Place
  <2>2. QED
    BY <2>1
<1>3. CASE with = {} /\ slotless = {} /\ Cardinality(mine) = 1
  <2>1. Place(h, x) = [shelf |-> CHOOSE y \in mine : TRUE, bay |-> None]
    BY <1>3 DEF Place
  <2>2. QED
    BY <2>1
<1>4. CASE with = {} /\ slotless = {} /\ Cardinality(mine) # 1
  <2>1. Place(h, x) = Unplaced
    BY <1>4 DEF Place
  <2>2. QED
    BY <2>1 DEF Unplaced
<1>5. QED
  BY <1>1, <1>2, <1>3, <1>4

LEMMA MergeDrivesRaid == RaidInv /\ MergeDrives => RaidInv'
<1> SUFFICES ASSUME RaidInv, MergeDrives
             PROVE  RaidInv'
  OBVIOUS
<1>1. /\ at' = [h \in Controllers |-> [x \in Disks |-> Refreshed(at[h][x], Place(h, x))]]
      /\ round.pc = "drives" /\ round' = [round EXCEPT !.pc = "rest"]
      /\ UNCHANGED <<lists, ses, table, hbas, told, gave>>
  BY DEF MergeDrives
<1>2. RaidTypes' /\ round'.pc = "rest" /\ round'.still = round.still
  BY <1>1 DEF RaidInv, RaidTypes
<1>3. TableIsScan'
  BY <1>1, <1>2, SameScan DEF RaidInv, TableIsScan
<1>4. BaysWereGiven' /\ LogTells'
  BY <1>1 DEF RaidInv, BaysWereGiven, LogTells
<1>5. ASSUME NEW h \in Controllers, NEW x \in Disks
      PROVE  /\ at'[h][x].shelf = Place(h, x).shelf
             /\ at'[h][x].bay \in {Place(h, x).bay, at[h][x].bay}
             /\ at'[h][x].bay # Place(h, x).bay => at[h][x].shelf = Place(h, x).shelf
             /\ Place(h, x).bay # None => at'[h][x].bay = Place(h, x).bay
  <2>1. at'[h][x] = Refreshed(at[h][x], Place(h, x))
    BY <1>1
  <2>2. QED
    BY <2>1, PlaceGives DEF Refreshed
<1>6. \A h, x : Place(h, x)' = Place(h, x)
  BY <1>1 DEF Place
<1>7. PlacedByTable'
  BY <1>5, <1>6 DEF PlacedByTable
<1>8. BayIsItsShelfs'
  <2>1. SUFFICES ASSUME NEW h \in Controllers, NEW x \in Disks, at'[h][x].bay # None
                 PROVE  <<at'[h][x].shelf, x, at'[h][x].bay>> \in gave
    BY <1>1 DEF BayIsItsShelfs
  <2>2. CASE at'[h][x].bay = Place(h, x).bay
    BY <1>5, <2>1, <2>2, PlaceGives DEF RaidInv, BaysWereGiven
  <2>3. CASE at'[h][x].bay # Place(h, x).bay
    BY <1>5, <2>1, <2>3 DEF RaidInv, BayIsItsShelfs
  <2>4. QED
    BY <2>2, <2>3
<1>9. QED
  BY <1>2, <1>3, <1>4, <1>7, <1>8 DEF RaidInv

LEMMA NextRaid == RaidInv /\ [RNext]_rvars => RaidInv'
<1> SUFFICES ASSUME RaidInv, [RNext]_rvars
             PROVE  RaidInv'
  OBVIOUS
<1> USE DEF RaidInv, RaidTypes
<1>1. CASE BeginScan
  <2>1. RaidTypes' /\ (~round'.still \/ round'.pc = "shelves")
    BY <1>1 DEF BeginScan
  <2>2. UNCHANGED <<table, at, gave, told, hbas>>
    BY <1>1 DEF BeginScan
  <2>3. CASE ~round'.still
    BY <2>1, <2>2, <2>3, NothingMerged
  <2>4. CASE round'.pc = "shelves"
    BY <2>1, <2>2, <2>4 DEF TableIsScan, PlacedByTable, BaysWereGiven, BayIsItsShelfs, LogTells
  <2>5. QED
    BY <2>1, <2>3, <2>4
<1>2. CASE ScanLimit
  <2>1. RaidTypes' /\ ~round'.still
    BY <1>2 DEF ScanLimit
  <2>2. UNCHANGED <<table, at, gave, told, hbas>>
    BY <1>2 DEF ScanLimit
  <2>3. QED
    BY <2>1, <2>2, NothingMerged
<1>3. CASE ScanBack
  <2>1. RaidTypes' /\ round'.still = round.still /\ round'.pc = round.pc
    BY <1>3 DEF ScanBack
  <2>2. UNCHANGED <<table, at, gave, told, hbas, lists, ses>>
    BY <1>3 DEF ScanBack
  <2>3. QED
    BY <2>1, <2>2, SameScan, NothingMerged
<1>4. ASSUME NEW h \in Controllers \union Hosts, Relist(h) \/ Recard(h) \/ SesChanges
      PROVE  RaidInv'
  <2>1. RaidTypes' /\ ~round'.still
    BY <1>4 DEF Relist, Recard, SesChanges, Shift
  <2>2. UNCHANGED <<table, at, gave, told, hbas>>
    BY <1>4 DEF Relist, Recard, SesChanges
  <2>3. QED
    BY <2>1, <2>2, NothingMerged
<1>5. CASE SesChanges
  <2>1. RaidTypes' /\ ~round'.still
    BY <1>5 DEF SesChanges, Shift
  <2>2. UNCHANGED <<table, at, gave, told, hbas>>
    BY <1>5 DEF SesChanges
  <2>3. QED
    BY <2>1, <2>2, NothingMerged
<1>6. CASE UNCHANGED rvars
  <2>1. RaidTypes' /\ round'.still = round.still /\ round'.pc = round.pc
    BY <1>6 DEF rvars
  <2>2. UNCHANGED <<table, at, gave, told, hbas, lists, ses>>
    BY <1>6 DEF rvars
  <2>3. QED
    BY <2>1, <2>2, SameScan, NothingMerged
<1> HIDE DEF RaidInv, RaidTypes
<1>7. QED
  BY <1>1, <1>2, <1>3, <1>4, <1>5, <1>6, MergeShelvesRaid, MergeHbasRaid, MergeDrivesRaid DEF RNext

\* What a controller reports: that it could not be read, or its enclosures.
LEMMA ReadIs ==
  ASSUME NEW h
  PROVE  /\ lists[h] = None => Read(h) = {[key |-> Key(h, None, FALSE), rep |-> Unread(h)]}
         /\ lists[h] # None => \A r \in Read(h) : \E e \in EnclosuresOf(lists[h]) :
               r = [key |-> Key(h, e, e \in lists[h].addressed), rep |-> Report(h, lists[h], e)]
         /\ \A r \in Read(h) : r.key[1] = h /\ r.rep.host = h
         /\ Read(h) # {}
<1>1. CASE lists[h] = None
  <2>1. Read(h) = {[key |-> Key(h, None, FALSE), rep |-> Unread(h)]}
    BY <1>1 DEF Read
  <2> DEFINE k == Key(h, None, FALSE)
             rep == Unread(h)
  <2>2. k[1] = h /\ rep.host = h
    BY DEF Key, Unread
  <2>3. Read(h) = {[key |-> k, rep |-> rep]}
    BY <2>1
  <2> HIDE DEF k, rep
  <2>4. \A r \in Read(h) : r = [key |-> k, rep |-> rep]
    BY <2>3
  <2>5. \A r \in Read(h) : r.key = k /\ r.rep = rep
    BY <2>4
  <2>6. QED
    BY <1>1, <2>1, <2>2, <2>3, <2>5
<1>2. CASE lists[h] # None
  <2>1. Read(h) = {[key |-> Key(h, e, e \in lists[h].addressed), rep |-> Report(h, lists[h], e)] : e \in EnclosuresOf(lists[h])}
    BY <1>2 DEF Read
  <2>2. \A e : Key(h, e, e \in lists[h].addressed)[1] = h /\ Report(h, lists[h], e).host = h
    BY DEF Key, Report
  <2>3. EnclosuresOf(lists[h]) # {}
    BY DEF EnclosuresOf
  <2>4. \A r \in Read(h) : r.key[1] = h /\ r.rep.host = h
    <3>1. SUFFICES ASSUME NEW r \in Read(h)
                   PROVE  r.key[1] = h /\ r.rep.host = h
      OBVIOUS
    <3>2. PICK e \in EnclosuresOf(lists[h]) :
             r.key = Key(h, e, e \in lists[h].addressed) /\ r.rep = Report(h, lists[h], e)
      BY <2>1
    <3>3. QED
      BY <2>2, <3>2
  <2>5. QED
    BY <1>2, <2>1, <2>3, <2>4
<1>3. QED
  BY <1>1, <1>2

\* A controller's reports are found under their own keys, and no other's.
LEMMA ScanFinds ==
  ASSUME NEW h \in Controllers
  PROVE  /\ \A r \in Read(h) : r.key \in DOMAIN Scanned /\ Scanned[r.key] = r.rep
         /\ \A k \in DOMAIN Scanned : Scanned[k].host = h => \E r \in Read(h) : r.key = k
<1> DEFINE all == (UNION {Read(c) : c \in Controllers}) \union (IF ses = None THEN {} ELSE {[key |-> SesKey, rep |-> SesReport]})
           Found(k) == CHOOSE r \in all : r.key = k
<1>1. Scanned = [k \in {r.key : r \in all} |-> Found(k).rep]
  BY DEF Scanned
<1>2. ASSUME NEW c \in Controllers, NEW r \in Read(c)
      PROVE  /\ r.key[1] = c /\ r.rep.host = c
             /\ \A s \in Read(c) : s.key = r.key => s = r
  <2>1. CASE lists[c] = None
    <3>1. \A s \in Read(c) : s = r
      <4>1. PICK only : Read(c) = {only}
        BY <2>1, ReadIs
      <4>2. QED
        BY <4>1
    <3>2. r.key[1] = c /\ r.rep.host = c
      BY ReadIs
    <3>3. QED
      BY <3>1, <3>2
  <2>2. CASE lists[c] # None
    <3>1. Read(c) = {[key |-> Key(c, e, e \in lists[c].addressed), rep |-> Report(c, lists[c], e)] : e \in EnclosuresOf(lists[c])}
      BY <2>2 DEF Read
    <3>2. PICK e \in EnclosuresOf(lists[c]) :
             r = [key |-> Key(c, e, e \in lists[c].addressed), rep |-> Report(c, lists[c], e)]
      BY <3>1
    <3>3. r.key[1] = c /\ r.key[2] = e
      BY <3>2 DEF Key
    <3>4. r.rep.host = c
      BY <3>2 DEF Report
    <3>5. ASSUME NEW s \in Read(c), s.key = r.key
          PROVE  s = r
      <4>1. PICK f \in EnclosuresOf(lists[c]) :
               s = [key |-> Key(c, f, f \in lists[c].addressed), rep |-> Report(c, lists[c], f)]
        BY <3>1
      <4>2. s.key[2] = f
        BY <4>1 DEF Key
      <4>3. e = f
        BY <3>3, <3>5, <4>2
      <4>4. QED
        BY <3>2, <4>1, <4>3
    <3>6. QED
      BY <3>3, <3>4, <3>5
  <2>3. QED
    BY <2>1, <2>2
<1>3. SesKey[1] = None /\ SesReport.host = None
  BY DEF SesKey, SesReport
<1>4. \A r \in all : (\E c \in Controllers : r \in Read(c)) \/ (r.key = SesKey /\ r.rep = SesReport)
  <2>1. \A r \in UNION {Read(c) : c \in Controllers} : \E c \in Controllers : r \in Read(c)
    BY Zenon
  <2>2. QED
    BY <2>1
<1>5. \A c \in Controllers : c # None /\ Read(c) \subseteq all
  BY RaidAssumption
<1> HIDE DEF all
<1>6. \A k \in {r.key : r \in all} : Found(k) \in all /\ Found(k).key = k
  OBVIOUS
<1>7. \A r \in all : r.key[1] = h \/ r.rep.host = h => r \in Read(h)
  BY <1>2, <1>3, <1>4, <1>5
<1> HIDE DEF Found
<1>8. ASSUME NEW r \in Read(h)
      PROVE  r.key \in DOMAIN Scanned /\ Scanned[r.key] = r.rep
  <2>1. r \in all /\ r.key \in {s.key : s \in all}
    BY <1>5
  <2>2. Found(r.key) \in all /\ Found(r.key).key = r.key /\ r.key[1] = h
    BY <1>2, <1>6, <2>1
  <2>3. Found(r.key) \in Read(h)
    BY <1>7, <2>2
  <2>4. Found(r.key) = r
    BY <1>2, <2>2, <2>3
  <2>5. QED
    BY <1>1, <2>1, <2>4
<1>9. ASSUME NEW k \in DOMAIN Scanned, Scanned[k].host = h
      PROVE  \E r \in Read(h) : r.key = k
  <2>1. k \in {r.key : r \in all} /\ Scanned[k] = Found(k).rep
    BY <1>1
  <2>2. Found(k) \in all /\ Found(k).key = k /\ Found(k).rep.host = h
    BY <1>6, <1>9, <2>1
  <2>3. QED
    BY <1>7, <2>2
<1>10. QED
  BY <1>8, <1>9

\* Where a disk is placed when the table is what is scanned now.
LEMMA PlaceOf ==
  ASSUME RaidTypes, table = Scanned, NEW h \in Controllers, NEW x \in Disks
  PROVE  /\ \E k \in DOMAIN table : table[k].host = h
         /\ Place(h, x).shelf # None => Place(h, x).shelf \in DOMAIN table /\ Place(h, x).shelf[1] = h
         /\ lists[h] = None => Place(h, x).shelf = Key(h, None, FALSE)
         /\ lists[h] # None /\ x \in Listed(lists[h]) =>
              /\ Place(h, x).shelf[2] = ShelfOf(lists[h], x)
              /\ lists[h].disk[x].slot # None => Place(h, x).bay = lists[h].disk[x].slot
<1> DEFINE mine == {k \in DOMAIN table : table[k].host = h}
           with == {k \in mine : x \in DOMAIN table[k].bays}
           slotless == {k \in mine : x \in table[k].unmatched}
           l == lists[h]
<1>1. mine = {r.key : r \in Read(h)} /\ \A r \in Read(h) : table[r.key] = r.rep
  <2>1. \A r \in Read(h) : r.rep.host = h
    BY ReadIs
  <2>2. \A r \in Read(h) : r.key \in DOMAIN table /\ table[r.key] = r.rep
    BY ScanFinds
  <2>3. \A k \in mine : \E r \in Read(h) : r.key = k
    BY ScanFinds
  <2>4. QED
    BY <2>1, <2>2, <2>3
<1>2. \A r \in Read(h) : r.key[1] = h
  BY ReadIs
<1>3. Read(h) # {}
  BY ReadIs
<1>4. mine \subseteq DOMAIN table /\ with \subseteq mine /\ slotless \subseteq mine /\ \A k \in mine : table[k].host = h
  OBVIOUS
<1>5. /\ with # {} => \E k \in with : Place(h, x) = [shelf |-> k, bay |-> table[k].bays[x]]
      /\ with = {} /\ slotless # {} => \E k \in slotless : Place(h, x) = [shelf |-> k, bay |-> None]
      /\ with = {} /\ slotless = {} /\ Cardinality(mine) = 1 => \E k \in mine : Place(h, x) = [shelf |-> k, bay |-> None]
      /\ with = {} /\ slotless = {} /\ Cardinality(mine) # 1 => Place(h, x) = Unplaced
  <2>1. CASE with # {}
    <3> DEFINE k == CHOOSE y \in with : TRUE
    <3>1. k \in with /\ Place(h, x) = [shelf |-> k, bay |-> table[k].bays[x]]
      BY <2>1 DEF Place
    <3> HIDE DEF k
    <3>2. QED
      BY <2>1, <3>1
  <2>2. CASE with = {} /\ slotless # {}
    <3> DEFINE k == CHOOSE y \in slotless : TRUE
    <3>1. k \in slotless /\ Place(h, x) = [shelf |-> k, bay |-> None]
      BY <2>2 DEF Place
    <3> HIDE DEF k
    <3>2. QED
      BY <2>2, <3>1
  <2>3. CASE with = {} /\ slotless = {} /\ Cardinality(mine) = 1
    <3> DEFINE k == CHOOSE y \in mine : TRUE
    <3>1. mine # {}
      BY <1>1, <1>3
    <3>2. k \in mine /\ Place(h, x) = [shelf |-> k, bay |-> None]
      BY <2>3, <3>1 DEF Place
    <3> HIDE DEF k
    <3>3. QED
      BY <2>3, <3>2
  <2>4. CASE with = {} /\ slotless = {} /\ Cardinality(mine) # 1
    BY <2>4 DEF Place
  <2>5. QED
    BY <2>1, <2>2, <2>3, <2>4
<1> HIDE DEF mine, with, slotless
<1>6. \E k \in DOMAIN table : table[k].host = h
  BY <1>1, <1>3, <1>4
<1>7. Place(h, x).shelf # None => Place(h, x).shelf \in mine
  <2>1. Place(h, x).shelf \in mine \/ Place(h, x) = Unplaced
    BY <1>4, <1>5
  <2>2. QED
    BY <2>1 DEF Unplaced
<1>8. \A k \in mine : k[1] = h
  BY <1>1, <1>2
<1>9. ASSUME l = None
      PROVE  Place(h, x).shelf = Key(h, None, FALSE)
  <2> DEFINE k == Key(h, None, FALSE)
             rep == Unread(h)
  <2>1. Read(h) = {[key |-> k, rep |-> rep]}
    BY <1>9, ReadIs
  <2>2. DOMAIN rep.bays = {} /\ rep.unmatched = {}
    BY DEF Unread
  <2> HIDE DEF k, rep
  <2>3. mine = {k} /\ table[k] = rep
    BY <1>1, <2>1
  <2>4. Cardinality(mine) = 1
    BY <2>3, FS_Singleton
  <2>5. with = {} /\ slotless = {}
    BY <2>2, <2>3 DEF with, slotless
  <2>6. \E c \in mine : Place(h, x) = [shelf |-> c, bay |-> None]
    BY <1>5, <2>4, <2>5
  <2>7. Place(h, x).shelf = k
    BY <2>3, <2>6
  <2>8. QED
    BY <2>7 DEF k
<1>10. ASSUME l # None, x \in Listed(l)
       PROVE  /\ Place(h, x).shelf[2] = ShelfOf(l, x)
              /\ l.disk[x].slot # None => Place(h, x).bay = l.disk[x].slot
  <2> DEFINE e == ShelfOf(l, x)
             k == Key(h, e, e \in l.addressed)
  <2>1. e \in EnclosuresOf(l)
    BY <1>10 DEF EnclosuresOf
  <2>2. k \in mine /\ table[k] = Report(h, l, e)
    <3>1. [key |-> k, rep |-> Report(h, l, e)] \in Read(h)
      BY <1>10, <2>1 DEF Read
    <3>2. QED
      BY <1>1, <3>1
  <2>3. \A c \in mine : \E f \in EnclosuresOf(l) : c = Key(h, f, f \in l.addressed) /\ table[c] = Report(h, l, f)
    BY <1>1, <1>10 DEF Read
  <2>4. \A f : x \in DOMAIN Report(h, l, f).bays \/ x \in Report(h, l, f).unmatched => f = e
    BY DEF Report
  <2>5. k[2] = e
    BY DEF Key
  <2>6. \A c \in with \union slotless : c = k
    <3>1. SUFFICES ASSUME NEW c \in with \union slotless
                   PROVE  c = k
      OBVIOUS
    <3>2. c \in mine /\ (x \in DOMAIN table[c].bays \/ x \in table[c].unmatched)
      BY DEF with, slotless
    <3>3. PICK f \in EnclosuresOf(l) : c = Key(h, f, f \in l.addressed) /\ table[c] = Report(h, l, f)
      BY <2>3, <3>2
    <3>4. f = e
      BY <2>4, <3>2, <3>3
    <3>5. QED
      BY <3>3, <3>4
  <2> HIDE DEF e, k
  <2>7. CASE l.disk[x].slot # None
    <3>1. x \in DOMAIN Report(h, l, e).bays /\ Report(h, l, e).bays[x] = l.disk[x].slot
      BY <1>10, <2>7 DEF Report, e
    <3>2. k \in with
      BY <2>2, <3>1 DEF with
    <3>3. Place(h, x) = [shelf |-> k, bay |-> table[k].bays[x]]
      BY <1>5, <2>6, <3>2
    <3>4. QED
      BY <2>2, <2>5, <3>1, <3>3 DEF e
  <2>8. CASE l.disk[x].slot = None
    <3>1. x \in Report(h, l, e).unmatched /\ x \notin DOMAIN Report(h, l, e).bays
      BY <1>10, <2>8 DEF Report, e
    <3>2. k \in slotless /\ k \notin with
      BY <2>2, <3>1 DEF with, slotless
    <3>3. with = {}
      BY <2>6, <3>2
    <3>4. Place(h, x).shelf = k
      BY <1>5, <2>6, <3>2, <3>3
    <3>5. QED
      BY <2>5, <2>8, <3>4 DEF e
  <2>9. QED
    BY <2>7, <2>8
<1>11. QED
  BY <1>4, <1>6, <1>7, <1>8, <1>9, <1>10

\* A disk in no enclosure is in the only one there is, or in none.
LEMMA OnlyOne ==
  ASSUME NEW l \in Lists, l # None
  PROVE  /\ Only(l) \in l.entries \union {None}
         /\ Only(l) # None <=> Cardinality(l.entries) = 1
<1>1. l.entries = {} => Cardinality(l.entries) = 0
  BY FS_EmptySet
<1>2. CASE Cardinality(l.entries) = 1
  <2>1. l.entries # {}
    BY <1>1, <1>2
  <2>2. Only(l) \in l.entries
    BY <1>2, <2>1 DEF Only
  <2>3. QED
    BY <1>2, <2>2, RaidAssumption
<1>3. CASE Cardinality(l.entries) # 1
  BY <1>3 DEF Only
<1>4. QED
  BY <1>2, <1>3

LEMMA RaidIsOK == RaidInv => RaidOK
<1> SUFFICES ASSUME RaidInv
             PROVE  Located
  BY DEF RaidInv, RaidOK
<1> SUFFICES ASSUME round.pc = "rest", round.still
             PROVE  Located
  BY DEF Located
<1>1. RaidTypes /\ table = Scanned
  BY DEF RaidInv, TableIsScan
<1>2. ASSUME NEW h \in Controllers
      PROVE  \E k \in DOMAIN table : table[k].host = h
  <2>1. \A r \in Read(h) : r.rep.host = h
    BY ReadIs
  <2>2. Read(h) # {}
    BY ReadIs
  <2>3. QED
    BY <1>1, <2>1, <2>2, ScanFinds
<1>3. ASSUME NEW h \in Controllers, NEW x \in Disks
      PROVE  /\ at[h][x].shelf # None => at[h][x].shelf \in DOMAIN table /\ at[h][x].shelf[1] = h
             /\ lists[h] = None => at[h][x].shelf = Key(h, None, FALSE)
  <2>1. at[h][x].shelf = Place(h, x).shelf
    BY DEF RaidInv, PlacedByTable
  <2>2. /\ Place(h, x).shelf # None => Place(h, x).shelf \in DOMAIN table /\ Place(h, x).shelf[1] = h
        /\ lists[h] = None => Place(h, x).shelf = Key(h, None, FALSE)
    BY <1>1, PlaceOf
  <2>3. QED
    BY <2>1, <2>2
<1>4. ASSUME NEW h \in Controllers, NEW x \in Disks, lists[h] # None, x \in Listed(lists[h])
      PROVE  LET l == lists[h]
             IN  /\ at[h][x].shelf[2] \in l.entries \union {None, l.disk[x].enclosure}
                 /\ l.disk[x].enclosure = None => (at[h][x].shelf[2] # None <=> Cardinality(l.entries) = 1)
                 /\ l.disk[x].enclosure # None => at[h][x].shelf[2] = l.disk[x].enclosure
                 /\ l.disk[x].slot # None => at[h][x].bay = l.disk[x].slot
  <2> DEFINE l == lists[h]
  <2>1. at[h][x].shelf[2] = ShelfOf(l, x) /\ (l.disk[x].slot # None => at[h][x].bay = l.disk[x].slot)
    <3>1. at[h][x].shelf = Place(h, x).shelf /\ (Place(h, x).bay # None => at[h][x].bay = Place(h, x).bay)
      BY DEF RaidInv, PlacedByTable
    <3>2. Place(h, x).shelf[2] = ShelfOf(l, x) /\ (l.disk[x].slot # None => Place(h, x).bay = l.disk[x].slot)
      BY <1>1, <1>4, PlaceOf
    <3>3. QED
      BY <3>1, <3>2
  <2>2. l \in Lists /\ l # None
    BY <1>1, <1>4 DEF RaidTypes
  <2> HIDE DEF l
  <2>3. Only(l) \in l.entries \union {None} /\ (Only(l) # None <=> Cardinality(l.entries) = 1)
    BY <2>2, OnlyOne
  <2>4. QED
    BY <2>1, <2>3 DEF ShelfOf, l
<1>5. QED
  BY <1>2, <1>3, <1>4 DEF Located

\* The key of a shelf is one shelf's, and a drive behind a controller is where
\* the last scan found it (megaraid.rs, scan_in; topology.rs, merge_shelves,
\* merge_drives).
THEOREM RaidHolds == RSpec => []RaidOK
<1>1. QED
  BY InitRaid, NextRaid, RaidIsOK, PTL DEF RSpec

-----------------------------------------------------------------------------
(* A discovery pass, proved for any names, identities, refresh interval and   *)
(* any moves, writes, formats and restarts.                                   *)

\* A device as it is plugged in: awake or asleep, and sized while it is awake;
\* the paths of one drive are the same device.
DeviceShape(v) == v = [id |-> v.id, bay |-> v.bay, holds |-> v.holds, usb |-> v.usb, slot |-> v.slot,
                       asleep |-> v.asleep, sized |-> v.sized, disk |-> v.disk]
SysInv ==
  /\ sys = [n \in Nodes |-> sys[n]]
  /\ \A n \in Nodes : DeviceShape(sys[n]) /\ sys[n].id \in Ids \union {None} /\ (~sys[n].asleep => sys[n].sized)
  /\ \A m, n \in Nodes : sys[m].id # None /\ sys[m].id = sys[n].id => sys[m] = sys[n]

RecordShape(r) == r = [activity |-> r.activity, paths |-> r.paths, bay |-> r.bay, holds |-> r.holds, sized |-> r.sized,
                       usable |-> r.usable, replaces |-> r.replaces, unseen |-> r.unseen]
InvInv == inv = [i \in Ids |-> inv[i]] /\ \A i \in Ids : inv[i] # None => RecordShape(inv[i])

AgesInv == aged \in [Ids -> 0 .. ProbeRefresh]

\* An answer in the cache is what the drive holds, unless it was changed since.
Remembered(c, devices, ages) ==
  /\ c = [key |-> c.key, probe |-> c.probe, age |-> c.age]
  /\ c.age \in 0 .. ProbeRefresh /\ c.probe.sized = "asked"
  /\ c.key.id \in Ids
  /\ \A m \in Nodes : devices[m].id = c.key.id /\ ages[c.key.id] > c.age => devices[m].holds = c.probe.holds
CacheInv == cache = [n \in Nodes |-> cache[n]] /\ \A n \in Nodes : cache[n] # None => Remembered(cache[n], sys, aged)

\* What a pass that nothing disturbed has seen.
SeenNow(n) ==
  /\ pass.seen[n].id = sys[n].id /\ pass.seen[n].usable = sys[n].sized
  /\ ~sys[n].asleep => pass.seen[n].probe.sized = "asked"
  /\ ~sys[n].asleep /\ aged[sys[n].id] = ProbeRefresh => pass.seen[n].probe.holds = sys[n].holds
PassInv ==
  /\ pass = [pc |-> pass.pc, seen |-> pass.seen, usb |-> pass.usb]
  /\ pass.pc \in {"rest", "blocks", "media", "merge"}
  /\ quiet /\ pass.pc # "rest" => \A i \in Ids : shelfTable[i] = BayOf(i)
  /\ quiet /\ pass.pc \in {"media", "merge"} =>
       DOMAIN pass.seen = {n \in There : IsSeen(sys[n])} /\ \A n \in DOMAIN pass.seen : SeenNow(n)
  /\ quiet /\ pass.pc = "media" => pass.usb = {sys[n].id : n \in {o \in There : IsMedia(sys[o])}}
  /\ quiet /\ pass.pc = "merge" => \A i \in Ids : (\E n \in Of(i) : IsMedia(sys[n])) => inv[i] = None

DiscoveryInv == SysInv /\ InvInv /\ AgesInv /\ CacheInv /\ PassInv /\ DiscoveryOK

LEMMA InitDiscovery == DInit => DiscoveryInv
<1> SUFFICES ASSUME DInit
             PROVE  DiscoveryInv
  OBVIOUS
<1>1. SysInv
  <2>1. sys \in [Nodes -> Devices] /\ \A m, n \in Nodes : sys[m].id # None /\ sys[m].id = sys[n].id => sys[m] = sys[n]
    BY PassesAssumption DEF DInit
  <2>2. ASSUME NEW v \in Devices
        PROVE  DeviceShape(v) /\ v.id \in Ids \union {None} /\ v.sized
    <3>1. DeviceShape(v)
      BY DEF Devices, DeviceShape
    <3>2. v.id \in Ids \union {None} /\ v.sized \in {TRUE}
      BY DEF Devices
    <3>3. QED
      BY <3>1, <3>2
  <2>3. QED
    BY <2>1, <2>2 DEF SysInv
<1>2. InvInv /\ ReplacedOnce
  BY DEF DInit, InvInv, ReplacedOnce
<1>3. AgesInv
  BY PassesAssumption DEF DInit, AgesInv
<1>4. CacheInv
  BY DEF DInit, CacheInv
<1>5. PassInv /\ SeenAsItIs
  BY DEF DInit, PassInv, SeenAsItIs
<1>6. QED
  BY <1>1, <1>2, <1>3, <1>4, <1>5 DEF DiscoveryInv, DiscoveryOK

\* A step that ends the quiet of a pass.
LEMMA Disturbs ==
  ASSUME DiscoveryInv, SysInv', InvInv', AgesInv', CacheInv', ReplacedOnce', ~quiet',
         pass' = pass \/ pass' = [pc |-> "rest", seen |-> <<>>, usb |-> {}]
  PROVE  DiscoveryInv'
<1>1. PassInv'
  BY DEF DiscoveryInv, PassInv
<1>2. SeenAsItIs'
  BY DEF SeenAsItIs
<1>3. QED
  BY <1>1, <1>2 DEF DiscoveryInv, DiscoveryOK

\* Answers stay right: a drive that is there was there with what it holds, or
\* it is noted that what it holds was changed.
LEMMA StaysRemembered ==
  ASSUME CacheInv, AgesInv', cache' = cache,
         \A m \in Nodes, i \in Ids : sys'[m].id = i /\ aged'[i] # 0 =>
           aged'[i] = aged[i] /\ \E o \in Nodes : sys[o].id = i /\ sys[o].holds = sys'[m].holds
  PROVE  CacheInv'
<1> SUFFICES ASSUME NEW n \in Nodes, cache[n] # None
             PROVE  Remembered(cache[n], sys', aged')
  BY DEF CacheInv
<1> DEFINE c == cache[n]
<1>1. Remembered(c, sys, aged)
  BY DEF CacheInv
<1>2. ASSUME NEW m \in Nodes, sys'[m].id = c.key.id, aged'[c.key.id] > c.age
      PROVE  sys'[m].holds = c.probe.holds
  <2>1. c.key.id \in Ids /\ c.age \in 0 .. ProbeRefresh
    BY <1>1 DEF Remembered
  <2>2. aged'[c.key.id] # 0
    BY <1>2, <2>1, PassesAssumption
  <2>3. aged'[c.key.id] = aged[c.key.id]
    BY <1>2, <2>1, <2>2
  <2>4. PICK o \in Nodes : sys[o].id = c.key.id /\ sys[o].holds = sys'[m].holds
    BY <1>2, <2>1, <2>2
  <2>5. QED
    BY <1>1, <1>2, <2>3, <2>4 DEF Remembered
<1>3. QED
  BY <1>1, <1>2 DEF Remembered

LEMMA SameReplaced ==
  ASSUME ReplacedOnce, \A i \in Ids : inv'[i] # None => inv[i] # None /\ inv'[i].replaces = inv[i].replaces
  PROVE  ReplacedOnce'
  BY DEF ReplacedOnce

\* A change of a drive is a change of all its paths.
LEMMA AllPaths ==
  ASSUME SysInv, NEW i \in Ids, NEW new,
         sys' = [n \in Nodes |-> IF sys[n].id = i THEN new[n] ELSE sys[n]],
         \A n \in Nodes : sys[n].id = i =>
           DeviceShape(new[n]) /\ new[n].id = i /\ (~new[n].asleep => new[n].sized),
         \A m, n \in Nodes : sys[m].id = i /\ sys[n].id = i /\ sys[m] = sys[n] => new[m] = new[n]
  PROVE  SysInv' /\ \A n \in Nodes : sys'[n].id = sys[n].id
<1>1. i # None
  BY PassesAssumption
<1>2. \A n \in Nodes : sys'[n].id = sys[n].id /\ sys'[n] = IF sys[n].id = i THEN new[n] ELSE sys[n]
  OBVIOUS
<1>3. sys' = [n \in Nodes |-> sys'[n]]
  OBVIOUS
<1>4. \A n \in Nodes : DeviceShape(sys'[n]) /\ sys'[n].id \in Ids \union {None} /\ (~sys'[n].asleep => sys'[n].sized)
  BY <1>2 DEF SysInv
<1>5. \A m, n \in Nodes : sys'[m].id # None /\ sys'[m].id = sys'[n].id => sys'[m] = sys'[n]
  BY <1>1, <1>2 DEF SysInv
<1>6. QED
  BY <1>2, <1>3, <1>4, <1>5 DEF SysInv, DeviceShape

LEMMA FormatBegins == ASSUME DiscoveryInv, NEW i \in Ids, BeginFormat(i) PROVE DiscoveryInv'
<1> DEFINE new == [n \in Nodes |-> [sys[n] EXCEPT !.asleep = TRUE, !.sized = FALSE]]
<1>1. i # None /\ SysInv
  BY PassesAssumption DEF DiscoveryInv
<1>2. sys' = [n \in Nodes |-> IF sys[n].id = i THEN new[n] ELSE sys[n]]
  BY <1>1 DEF BeginFormat, World, Of, There
<1>3. ASSUME NEW n \in Nodes
      PROVE  DeviceShape(new[n]) /\ new[n].id = sys[n].id /\ new[n].asleep /\ new[n].holds = sys[n].holds
  <2> DEFINE v == sys[n]
  <2>1. DeviceShape(v)
    BY <1>1 DEF SysInv
  <2>2. new[n] = [v EXCEPT !.asleep = TRUE, !.sized = FALSE]
    OBVIOUS
  <2> HIDE DEF new, v
  <2>3. new[n] = [id |-> v.id, bay |-> v.bay, holds |-> v.holds, usb |-> v.usb, slot |-> v.slot,
                  asleep |-> TRUE, sized |-> FALSE, disk |-> v.disk]
    BY <2>1, <2>2 DEF DeviceShape
  <2>4. QED
    BY <2>3 DEF DeviceShape, v
<1>4. \A m, n \in Nodes : sys[m] = sys[n] => new[m] = new[n]
  OBVIOUS
<1> HIDE DEF new
<1>5. SysInv' /\ \A n \in Nodes : sys'[n].id = sys[n].id
  BY <1>1, <1>2, <1>3, <1>4, AllPaths
<1>6. \A n \in Nodes : sys'[n].holds = sys[n].holds
  BY <1>2, <1>3
<1>7. InvInv' /\ \A j \in Ids : inv'[j] # None => inv[j] # None /\ inv'[j].replaces = inv[j].replaces
  BY DEF BeginFormat, DiscoveryInv, InvInv, RecordShape
<1>8. AgesInv' /\ UNCHANGED <<aged, cache, pass>> /\ ~quiet'
  BY DEF BeginFormat, DiscoveryInv, AgesInv
<1>9. CacheInv'
  BY <1>5, <1>6, <1>8, StaysRemembered DEF DiscoveryInv
<1>10. ReplacedOnce'
  BY <1>7, SameReplaced DEF DiscoveryInv, DiscoveryOK
<1>11. QED
  BY <1>5, <1>7, <1>8, <1>9, <1>10, Disturbs

LEMMA FormatIsOver == ASSUME DiscoveryInv, NEW i \in Ids, FormatEnds(i) PROVE DiscoveryInv'
<1> DEFINE new == [n \in Nodes |-> [sys[n] EXCEPT !.asleep = FALSE, !.sized = TRUE, !.holds = "blank"]]
<1>1. i # None /\ SysInv
  BY PassesAssumption DEF DiscoveryInv
<1>2. sys' = [n \in Nodes |-> IF sys[n].id = i THEN new[n] ELSE sys[n]]
  BY <1>1 DEF FormatEnds, World, Of, There
<1>3. ASSUME NEW n \in Nodes
      PROVE  DeviceShape(new[n]) /\ new[n].id = sys[n].id /\ new[n].sized
  <2> DEFINE v == sys[n]
  <2>1. DeviceShape(v)
    BY <1>1 DEF SysInv
  <2>2. new[n] = [v EXCEPT !.asleep = FALSE, !.sized = TRUE, !.holds = "blank"]
    OBVIOUS
  <2> HIDE DEF new, v
  <2>3. new[n] = [id |-> v.id, bay |-> v.bay, holds |-> "blank", usb |-> v.usb, slot |-> v.slot,
                  asleep |-> FALSE, sized |-> TRUE, disk |-> v.disk]
    BY <2>1, <2>2 DEF DeviceShape
  <2>4. QED
    BY <2>3 DEF DeviceShape, v
<1>4. \A m, n \in Nodes : sys[m] = sys[n] => new[m] = new[n]
  OBVIOUS
<1> HIDE DEF new
<1>5. SysInv' /\ \A n \in Nodes : sys'[n].id = sys[n].id
  BY <1>1, <1>2, <1>3, <1>4, AllPaths
<1>6. \A n \in Nodes : sys[n].id # i => sys'[n] = sys[n]
  BY <1>2
<1>7. InvInv' /\ \A j \in Ids : inv'[j] # None => inv[j] # None /\ inv'[j].replaces = inv[j].replaces
  <2> DEFINE r == inv[i]
             rest == [r EXCEPT !.activity = "idle", !.usable = TRUE, !.sized = "asked"]
             now == IF r = None THEN None ELSE IF r.activity = "formatting" THEN rest ELSE r
  <2>1. inv' = [inv EXCEPT ![i] = now]
    BY DEF FormatEnds
  <2>2. r # None => RecordShape(r)
    BY DEF DiscoveryInv, InvInv
  <2>3. ASSUME r # None
        PROVE  RecordShape(rest) /\ rest.replaces = r.replaces
    <3> HIDE DEF r
    <3>1. rest = [r EXCEPT !.activity = "idle", !.usable = TRUE, !.sized = "asked"]
      OBVIOUS
    <3> HIDE DEF rest
    <3>2. rest = [activity |-> "idle", paths |-> r.paths, bay |-> r.bay, holds |-> r.holds, sized |-> "asked",
                                    usable |-> TRUE, replaces |-> r.replaces, unseen |-> r.unseen]
      BY <2>2, <2>3, <3>1 DEF RecordShape
    <3>3. QED
      BY <3>2 DEF RecordShape
  <2> HIDE DEF rest
  <2>4. now # None => r # None /\ RecordShape(now) /\ now.replaces = r.replaces
    BY <2>2, <2>3
  <2> HIDE DEF now
  <2>5. inv = [j \in Ids |-> inv[j]] /\ \A j \in Ids : inv[j] # None => RecordShape(inv[j])
    BY DEF DiscoveryInv, InvInv
  <2>6. inv' = [j \in Ids |-> inv'[j]] /\ inv'[i] = now /\ \A j \in Ids \ {i} : inv'[j] = inv[j]
    BY <2>1, <2>5
  <2>7. \A j \in Ids : inv'[j] # None => inv[j] # None /\ RecordShape(inv'[j]) /\ inv'[j].replaces = inv[j].replaces
    BY <2>4, <2>5, <2>6
  <2>8. QED
    BY <2>6, <2>7 DEF InvInv, RecordShape
<1>8. UNCHANGED <<cache, pass>> /\ ~quiet' /\ aged' = [aged EXCEPT ![i] = 0]
  BY DEF FormatEnds
<1>9. AgesInv' /\ aged'[i] = 0 /\ \A j \in Ids \ {i} : aged'[j] = aged[j]
  BY <1>8, PassesAssumption DEF DiscoveryInv, AgesInv
<1>10. CacheInv'
  BY <1>5, <1>6, <1>8, <1>9, StaysRemembered DEF DiscoveryInv
<1>11. ReplacedOnce'
  BY <1>7, SameReplaced DEF DiscoveryInv, DiscoveryOK
<1>12. QED
  BY <1>5, <1>7, <1>8, <1>9, <1>10, <1>11, Disturbs

LEMMA WrittenOutside == ASSUME DiscoveryInv, NEW i \in Ids, WriteOutside(i) PROVE DiscoveryInv'
<1> USE DEF DiscoveryInv, WriteOutside
<1>1. SysInv' /\ \A m \in Nodes : sys'[m].id = sys[m].id /\ (sys[m].id # i => sys'[m] = sys[m])
  <2>1. PICK h \in Holds : World(i, LAMBDA v : [v EXCEPT !.holds = h])
    OBVIOUS
  <2>2. QED
    BY <2>1 DEF SysInv, World, Of, There, DeviceShape
<1>2. InvInv' /\ ReplacedOnce'
  BY DEF InvInv, DiscoveryOK, ReplacedOnce
<1>3. AgesInv' /\ aged'[i] = 0 /\ \A j \in Ids \ {i} : aged'[j] = aged[j]
  BY PassesAssumption DEF AgesInv
<1>4. CacheInv'
  BY <1>1, <1>3, StaysRemembered
<1>5. QED
  BY <1>1, <1>2, <1>3, <1>4, Disturbs

LEMMA Naps == ASSUME DiscoveryInv, NEW i \in Ids, Nap(i) PROVE DiscoveryInv'
<1> USE DEF DiscoveryInv, Nap
<1>1. SysInv'
  BY DEF SysInv, World, Of, There, DeviceShape
<1>2. InvInv' /\ ReplacedOnce'
  BY DEF InvInv, DiscoveryOK, ReplacedOnce
<1>3. AgesInv'
  BY DEF AgesInv
<1>4. \A m \in Nodes : sys'[m].id = sys[m].id /\ sys'[m].holds = sys[m].holds
  BY DEF SysInv, World, Of, There, DeviceShape
<1>5. CacheInv'
  BY <1>3, <1>4, StaysRemembered
<1>6. QED
  BY <1>1, <1>2, <1>3, <1>5, Disturbs

LEMMA Pulled == ASSUME DiscoveryInv, NEW n \in Nodes, Pull(n) PROVE DiscoveryInv'
<1> USE DEF DiscoveryInv, Pull
<1>1. SysInv' /\ sys'[n].id = None /\ \A m \in Nodes \ {n} : sys'[m] = sys[m]
  BY DEF SysInv, Empty, Device, DeviceShape
<1>2. InvInv' /\ ReplacedOnce'
  BY DEF InvInv, DiscoveryOK, ReplacedOnce
<1>3. AgesInv'
  BY DEF AgesInv
<1>4. CacheInv'
  BY <1>1, <1>3, StaysRemembered, PassesAssumption
<1>5. QED
  BY <1>1, <1>2, <1>3, <1>4, Disturbs

LEMMA Pushed == ASSUME DiscoveryInv, NEW n \in Nodes, NEW i \in Ids, Push(n, i) PROVE DiscoveryInv'
<1> USE DEF DiscoveryInv, Push
<1>1. i # None /\ n \notin There /\ sys[n].id = None
  BY PassesAssumption DEF There
<1>2. InvInv' /\ ReplacedOnce'
  BY DEF InvInv, DiscoveryOK, ReplacedOnce
<1>3. CASE Of(i) # {}
  <2>1. PICK o \in Nodes : o \in Of(i) /\ sys' = [sys EXCEPT ![n] = sys[o]]
    BY <1>3 DEF Of, There
  <2>2. sys[o].id = i /\ aged' = aged
    BY <1>3, <2>1 DEF Of
  <2>3. sys'[n] = sys[o] /\ \A m \in Nodes \ {n} : sys'[m] = sys[m]
    BY <2>1 DEF SysInv
  <2>4. SysInv'
    BY <1>1, <2>1, <2>2, <2>3 DEF SysInv
  <2>5. AgesInv'
    BY <2>2 DEF AgesInv
  <2>6. CacheInv'
    BY <2>2, <2>3, <2>5, StaysRemembered
  <2>7. QED
    BY <1>2, <2>4, <2>5, <2>6, Disturbs
<1>4. CASE Of(i) = {}
  <2>1. PICK b, h, usb, slot : sys' = [sys EXCEPT ![n] = Device(i, b, h, usb, slot)]
    BY <1>4
  <2>2. aged' = [aged EXCEPT ![i] = 0]
    BY <1>4
  <2> DEFINE v == Device(i, b, h, usb, slot)
  <2>3. DeviceShape(v) /\ v.id = i /\ v.sized
    BY DEF DeviceShape, Device
  <2>4. sys' = [sys EXCEPT ![n] = v]
    BY <2>1
  <2> HIDE DEF v
  <2>5. sys'[n] = v /\ \A m \in Nodes \ {n} : sys'[m] = sys[m] /\ sys[m].id # i
    BY <1>1, <1>4, <2>4 DEF SysInv, Of, There
  <2>6. SysInv'
    BY <2>3, <2>4, <2>5 DEF SysInv
  <2>7. AgesInv' /\ aged'[i] = 0 /\ \A j \in Ids \ {i} : aged'[j] = aged[j]
    <3>1. 0 \in 0 .. ProbeRefresh
      BY PassesAssumption
    <3>2. QED
      BY <2>2, <3>1 DEF AgesInv
  <2>8. CacheInv'
    BY <2>3, <2>5, <2>7, StaysRemembered
  <2>9. QED
    BY <1>2, <2>6, <2>7, <2>8, Disturbs
<1>5. QED
  BY <1>3, <1>4

LEMMA PassRestarts == DiscoveryInv /\ RestartPass => DiscoveryInv'
<1> SUFFICES ASSUME DiscoveryInv, RestartPass
             PROVE  DiscoveryInv'
  OBVIOUS
<1> USE DEF DiscoveryInv, RestartPass
<1>1. SysInv' /\ InvInv' /\ AgesInv' /\ ReplacedOnce'
  BY DEF SysInv, InvInv, AgesInv, DiscoveryOK, ReplacedOnce
<1>2. CacheInv'
  BY DEF CacheInv
<1>3. QED
  BY <1>1, <1>2, Disturbs

\* A pass makes what was answered older, and what was changed longer ago.
LEMMA GrowsOlder ==
  ASSUME NEW a \in 0 .. ProbeRefresh, NEW c \in 0 .. ProbeRefresh
  PROVE  /\ Grow(a, ProbeRefresh) \in 0 .. ProbeRefresh
         /\ Grow(a, ProbeRefresh) > Grow(c, ProbeRefresh) => a > c
  BY PassesAssumption DEF Grow

LEMMA ShelvesScanned == DiscoveryInv /\ ScanShelves => DiscoveryInv'
<1> SUFFICES ASSUME DiscoveryInv, ScanShelves
             PROVE  DiscoveryInv'
  OBVIOUS
<1>1. /\ cache' = [n \in Nodes |-> IF cache[n] = None THEN None ELSE [cache[n] EXCEPT !.age = Grow(cache[n].age, ProbeRefresh)]]
      /\ aged' = [i \in Ids |-> Grow(aged[i], ProbeRefresh)]
      /\ pass' = [pass EXCEPT !.pc = "blocks"] /\ UNCHANGED <<sys, inv, media>>
  BY DEF ScanShelves
<1>2. SysInv' /\ InvInv' /\ ReplacedOnce'
  BY <1>1 DEF DiscoveryInv, SysInv, InvInv, DiscoveryOK, ReplacedOnce
<1>3. AgesInv'
  BY <1>1, GrowsOlder DEF DiscoveryInv, AgesInv
<1>4. CacheInv'
  <2>1. SUFFICES ASSUME NEW n \in Nodes, cache'[n] # None
                 PROVE  Remembered(cache'[n], sys', aged')
    BY <1>1 DEF CacheInv
  <2> DEFINE c == cache[n]
             fresh == cache'[n]
  <2>2. c # None /\ fresh = [c EXCEPT !.age = Grow(c.age, ProbeRefresh)]
    BY <1>1, <2>1
  <2>3. Remembered(c, sys, aged)
    BY <2>2 DEF DiscoveryInv, CacheInv
  <2> HIDE DEF c, fresh
  <2>4. fresh = [key |-> c.key, probe |-> c.probe, age |-> Grow(c.age, ProbeRefresh)]
    BY <2>2, <2>3 DEF Remembered
  <2>5. c.age \in 0 .. ProbeRefresh /\ c.key.id \in Ids /\ aged[c.key.id] \in 0 .. ProbeRefresh
        /\ aged'[c.key.id] = Grow(aged[c.key.id], ProbeRefresh)
    BY <1>1, <2>3 DEF Remembered, DiscoveryInv, AgesInv
  <2>6. fresh.key = c.key /\ fresh.probe = c.probe /\ fresh.age = Grow(c.age, ProbeRefresh)
    BY <2>4
  <2>7. fresh.age \in 0 .. ProbeRefresh /\ (aged'[c.key.id] > fresh.age => aged[c.key.id] > c.age)
    BY <2>5, <2>6, GrowsOlder
  <2>8. fresh = [key |-> fresh.key, probe |-> fresh.probe, age |-> fresh.age]
    BY <2>4, <2>6
  <2>9. \A m \in Nodes : sys'[m].id = fresh.key.id /\ aged'[fresh.key.id] > fresh.age => sys'[m].holds = fresh.probe.holds
    BY <1>1, <2>3, <2>6, <2>7 DEF Remembered
  <2>10. Remembered(fresh, sys', aged')
    BY <2>3, <2>5, <2>6, <2>7, <2>8, <2>9 DEF Remembered, fresh
  <2>11. QED
    BY <2>10 DEF fresh
<1>5. pass' = [pc |-> "blocks", seen |-> pass.seen, usb |-> pass.usb]
  BY <1>1 DEF DiscoveryInv, PassInv
<1>6. \A i : BayOf(i)' = BayOf(i)
  BY <1>1 DEF BayOf, There
<1>7. quiet' => \A i \in Ids : shelfTable'[i] = BayOf(i)
  BY DEF ScanShelves
<1>8. PassInv' /\ SeenAsItIs'
  BY <1>5, <1>6, <1>7 DEF PassInv, SeenAsItIs
<1>9. QED
  BY <1>2, <1>3, <1>4, <1>8 DEF DiscoveryInv, DiscoveryOK

\* What a drive is asked, or the cache says for it.
LEMMA ProbeIsRight ==
  ASSUME DiscoveryInv, NEW n \in There
  PROVE  /\ ~sys[n].asleep => Probe(n).sized = "asked"
         /\ ~sys[n].asleep /\ aged[sys[n].id] = ProbeRefresh => Probe(n).holds = sys[n].holds
         /\ ~Cached(n) /\ ~sys[n].asleep => Probe(n) = [holds |-> sys[n].holds, sized |-> "asked"]
<1>1. n \in Nodes /\ sys[n].id \in Ids
  BY DEF There, DiscoveryInv, SysInv
<1>2. CASE Cached(n)
  <2> DEFINE c == cache[n]
  <2>1. c # None /\ c.key = ProbeKey(sys[n]) /\ c.age < ProbeRefresh /\ Probe(n) = c.probe
    BY <1>2 DEF Cached, Probe
  <2>2. Remembered(c, sys, aged)
    BY <1>1, <2>1 DEF DiscoveryInv, CacheInv
  <2>3. c.key.id = sys[n].id
    BY <2>1 DEF ProbeKey
  <2>4. c.age \in 0 .. ProbeRefresh
    BY <2>2 DEF Remembered
  <2>5. aged[sys[n].id] = ProbeRefresh => aged[c.key.id] > c.age
    BY <2>1, <2>3, <2>4, PassesAssumption
  <2>6. QED
    BY <1>1, <1>2, <2>1, <2>2, <2>3, <2>5 DEF Remembered
<1>3. CASE ~Cached(n)
  BY <1>3 DEF Probe
<1>4. QED
  BY <1>2, <1>3

LEMMA BlocksScanned == DiscoveryInv /\ ScanBlocks => DiscoveryInv'
<1> SUFFICES ASSUME DiscoveryInv, ScanBlocks
             PROVE  DiscoveryInv'
  OBVIOUS
<1> DEFINE seen == {n \in There : IsSeen(sys[n])}
           asks == {n \in There : (IsSeen(sys[n]) \/ IsMedia(sys[n])) /\ ~Cached(n) /\ Answers(n)}
           what == [n \in seen |-> [id |-> sys[n].id, usable |-> sys[n].sized, probe |-> Probe(n)]]
           usb == {sys[n].id : n \in {o \in There : IsMedia(sys[o])}}
<1>1. /\ pass' = [pc |-> "media", seen |-> what, usb |-> usb]
      /\ cache' = [n \in Nodes |-> IF n \in asks THEN [key |-> ProbeKey(sys[n]), probe |-> Probe(n), age |-> 0]
                                   ELSE IF n \in There THEN cache[n] ELSE None]
      /\ UNCHANGED <<sys, inv, shelfTable, media, quiet, aged, more>> /\ pass.pc = "blocks"
  BY DEF ScanBlocks
<1>2. SysInv' /\ InvInv' /\ AgesInv' /\ ReplacedOnce'
  BY <1>1 DEF DiscoveryInv, SysInv, InvInv, AgesInv, DiscoveryOK, ReplacedOnce
<1>3. ASSUME NEW n \in asks
      PROVE  Remembered([key |-> ProbeKey(sys[n]), probe |-> Probe(n), age |-> 0], sys', aged')
  <2> DEFINE id == sys[n].id
             c == [key |-> ProbeKey(sys[n]), probe |-> Probe(n), age |-> 0]
  <2>1. n \in There /\ n \in Nodes /\ id \in Ids /\ id # None /\ ~Cached(n) /\ ~sys[n].asleep
    BY PassesAssumption DEF There, Answers, DiscoveryInv, SysInv
  <2>2. Probe(n) = [holds |-> sys[n].holds, sized |-> "asked"]
    BY <2>1, ProbeIsRight
  <2>3. c.key.id = id /\ c.age = 0 /\ c.probe.sized = "asked" /\ c.probe.holds = sys[n].holds
    BY <2>2 DEF ProbeKey
  <2>4. \A m \in Nodes : sys[m].id = id => sys[m].holds = sys[n].holds
    BY <2>1 DEF DiscoveryInv, SysInv
  <2>5. c = [key |-> c.key, probe |-> c.probe, age |-> c.age] /\ 0 \in 0 .. ProbeRefresh
    BY PassesAssumption
  <2> HIDE DEF c
  <2>6. Remembered(c, sys', aged')
    BY <1>1, <2>1, <2>3, <2>4, <2>5 DEF Remembered, c
  <2>7. QED
    BY <2>6 DEF c
<1>4. CacheInv'
  <2>1. SUFFICES ASSUME NEW n \in Nodes, cache'[n] # None
                 PROVE  Remembered(cache'[n], sys', aged')
    BY <1>1 DEF CacheInv
  <2>2. CASE n \in asks
    BY <1>1, <1>3, <2>2
  <2>3. CASE n \notin asks
    <3>1. cache'[n] = cache[n] /\ cache[n] # None
      BY <1>1, <2>1, <2>3
    <3>2. Remembered(cache[n], sys, aged)
      BY <3>1 DEF DiscoveryInv, CacheInv
    <3>3. QED
      BY <1>1, <3>1, <3>2 DEF Remembered
  <2>4. QED
    BY <2>2, <2>3
<1>5. \A n \in seen : what[n].id = sys[n].id /\ what[n].usable = sys[n].sized /\ what[n].probe = Probe(n)
  OBVIOUS
<1>6. DOMAIN what = seen
  OBVIOUS
<1>7. There' = There /\ (\A i : BayOf(i)' = BayOf(i)) /\ \A n : IsSeen(sys'[n]) = IsSeen(sys[n]) /\ IsMedia(sys'[n]) = IsMedia(sys[n])
  BY <1>1 DEF There, BayOf
<1> HIDE DEF what, asks
<1>8. pass'.pc = "media" /\ pass'.seen = what /\ pass'.usb = usb
  BY <1>1
<1>9. \A n \in seen : SeenNow(n)'
  BY <1>1, <1>5, <1>8, ProbeIsRight DEF SeenNow
<1>10. quiet' => \A i \in Ids : shelfTable'[i] = BayOf(i)'
  BY <1>1, <1>7 DEF DiscoveryInv, PassInv
<1>11. PassInv' /\ SeenAsItIs'
  BY <1>1, <1>6, <1>7, <1>8, <1>9, <1>10 DEF PassInv, SeenAsItIs
<1>12. QED
  BY <1>2, <1>4, <1>11 DEF DiscoveryInv, DiscoveryOK

LEMMA MediaMerged == DiscoveryInv /\ MergeMedia => DiscoveryInv'
<1> SUFFICES ASSUME DiscoveryInv, MergeMedia
             PROVE  DiscoveryInv'
  OBVIOUS
<1>1. /\ inv' = [i \in Ids |-> IF i \in pass.usb THEN None ELSE inv[i]]
      /\ pass' = [pc |-> "merge", seen |-> pass.seen, usb |-> {}] /\ pass.pc = "media"
      /\ UNCHANGED <<sys, cache, shelfTable, quiet, aged, more>>
  BY DEF MergeMedia, DiscoveryInv, PassInv
<1>2. SysInv' /\ AgesInv' /\ CacheInv'
  BY <1>1 DEF DiscoveryInv, SysInv, AgesInv, CacheInv, Remembered
<1>3. InvInv' /\ \A i \in Ids : inv'[i] # None => inv[i] # None /\ inv'[i].replaces = inv[i].replaces
  BY <1>1 DEF DiscoveryInv, InvInv, RecordShape
<1>4. ReplacedOnce'
  BY <1>3, SameReplaced DEF DiscoveryInv, DiscoveryOK
<1>5. There' = There /\ (\A i : BayOf(i)' = BayOf(i) /\ Of(i)' = Of(i))
      /\ \A n : IsSeen(sys'[n]) = IsSeen(sys[n]) /\ IsMedia(sys'[n]) = IsMedia(sys[n]) /\ SeenNow(n)' = SeenNow(n)
  BY <1>1 DEF There, BayOf, Of, SeenNow
<1>6. ASSUME quiet, NEW i \in Ids, NEW n \in Of(i), IsMedia(sys[n])
      PROVE  inv'[i] = None
  <2>1. i \in pass.usb
    BY <1>1, <1>6 DEF DiscoveryInv, PassInv, Of
  <2>2. QED
    BY <1>1, <2>1
<1>7. pass'.pc = "merge" /\ pass'.seen = pass.seen /\ pass'.usb = {}
  BY <1>1
<1>8. PassInv' /\ SeenAsItIs'
  BY <1>1, <1>5, <1>6, <1>7 DEF DiscoveryInv, PassInv, SeenAsItIs
<1>9. QED
  BY <1>2, <1>3, <1>4, <1>8 DEF DiscoveryInv, DiscoveryOK

LEMMA Forgotten == ASSUME DiscoveryInv, NEW i \in Ids, Forget(i) PROVE DiscoveryInv'
<1>1. /\ inv[i] # None /\ IsMissing(inv[i]) /\ inv' = [inv EXCEPT ![i] = None]
      /\ UNCHANGED <<sys, cache, shelfTable, media, pass, quiet, aged>>
  BY DEF Forget
<1>2. SysInv' /\ AgesInv' /\ CacheInv'
  BY <1>1 DEF DiscoveryInv, SysInv, AgesInv, CacheInv, Remembered
<1>3. inv'[i] = None /\ (\A j \in Ids \ {i} : inv'[j] = inv[j]) /\ InvInv'
  BY <1>1 DEF DiscoveryInv, InvInv, RecordShape
<1>4. ReplacedOnce'
  BY <1>3, SameReplaced DEF DiscoveryInv, DiscoveryOK
<1>5. There' = There /\ (\A j : BayOf(j)' = BayOf(j) /\ Of(j)' = Of(j))
      /\ \A n : IsSeen(sys'[n]) = IsSeen(sys[n]) /\ IsMedia(sys'[n]) = IsMedia(sys[n]) /\ SeenNow(n)' = SeenNow(n)
  BY <1>1 DEF There, BayOf, Of, SeenNow
<1>6. PassInv'
  BY <1>1, <1>3, <1>5 DEF DiscoveryInv, PassInv
<1>7. SeenAsItIs'
  <2>1. ASSUME pass.pc = "rest", quiet
        PROVE  {n \in Of(i) : IsSeen(sys[n])} = {}
    BY <1>1, <2>1 DEF DiscoveryInv, DiscoveryOK, SeenAsItIs
  <2>2. SeenAsItIs
    BY DEF DiscoveryInv, DiscoveryOK
  <2>3. /\ pass' = pass /\ quiet' = quiet /\ sys' = sys /\ aged' = aged
        /\ \A j \in Ids : inv'[j] = IF j = i THEN None ELSE inv[j]
    BY <1>1, <1>3
  <2>4. QED
    BY <1>5, <2>1, <2>2, <2>3 DEF SeenAsItIs
<1>8. QED
  BY <1>2, <1>3, <1>4, <1>6, <1>7 DEF DiscoveryInv, DiscoveryOK

\* The record of a drive that is seen again, and of one that is gone.
Probes == [holds : Holds, sized : {"asked", "guessed"}]
TypesInv ==
  /\ \A n \in Nodes : sys[n].bay \in Bays /\ sys[n].holds \in Holds /\ sys[n].sized \in BOOLEAN
  /\ more = [moves |-> more.moves, writes |-> more.writes, formats |-> more.formats, shelfFails |-> more.shelfFails,
             forgets |-> more.forgets, naps |-> more.naps, restarts |-> more.restarts,
             usb |-> more.usb, slot |-> more.slot, bays |-> more.bays]
  /\ more.bays \subseteq Bays
  /\ \A n \in Nodes : cache[n] # None => cache[n].probe \in Probes
  /\ \A i \in Ids : shelfTable[i] \in Bays
  /\ \A n \in DOMAIN pass.seen : n \in Nodes /\ pass.seen[n].usable \in BOOLEAN /\ pass.seen[n].probe \in Probes
  /\ \A i \in Ids : inv[i] # None => inv[i] \in Records

LEMMA SeenAgain ==
  ASSUME NEW r, RecordShape(r), NEW activity, NEW paths, NEW bay, NEW again,
         again = [r EXCEPT !.bay = bay, !.paths = paths, !.unseen = 0, !.activity = activity]
  PROVE  again = [activity |-> activity, paths |-> paths, bay |-> bay, holds |-> r.holds, sized |-> r.sized,
                  usable |-> r.usable, replaces |-> r.replaces, unseen |-> 0]
  BY DEF RecordShape

LEMMA AgainIs ==
  ASSUME NEW r, RecordShape(r), NEW i
  PROVE  LET o == pass.seen[First(Group(i))]
         IN  /\ RecordShape(Again(r, i)) /\ Again(r, i).replaces = r.replaces
             /\ Again(r, i).activity = (IF IsMissing(r) THEN "idle" ELSE r.activity)
             /\ Again(r, i).paths = Group(i) /\ Again(r, i).bay = BayNow(r, Group(i), Locate(First(Group(i))))
             /\ r.activity # "formatting" =>
                  Again(r, i).holds = o.probe.holds /\ Again(r, i).sized = o.probe.sized /\ Again(r, i).usable = o.usable
<1> DEFINE paths == Group(i)
           o == pass.seen[First(paths)]
           f == Fields(r, o)
           bay == BayNow(r, paths, Locate(First(paths)))
           again == Again(r, i)
<1>1. again = [f EXCEPT !.bay = bay, !.paths = paths, !.unseen = 0, !.activity = IF IsMissing(r) THEN "idle" ELSE f.activity]
  BY DEF Again
<1> HIDE DEF paths, bay, again, o
<1>2. /\ RecordShape(f) /\ f.replaces = r.replaces /\ f.activity = r.activity
      /\ r.activity # "formatting" => f.holds = o.probe.holds /\ f.sized = o.probe.sized /\ f.usable = o.usable
  <2>1. CASE r.activity = "formatting"
    BY <2>1 DEF Fields
  <2>2. CASE r.activity # "formatting"
    <3>1. f = [r EXCEPT !.holds = o.probe.holds, !.sized = o.probe.sized, !.usable = o.usable]
      BY <2>2 DEF Fields
    <3> HIDE DEF f
    <3>2. f = [activity |-> r.activity, paths |-> r.paths, bay |-> r.bay, holds |-> o.probe.holds, sized |-> o.probe.sized,
               usable |-> o.usable, replaces |-> r.replaces, unseen |-> r.unseen]
      BY <3>1 DEF RecordShape
    <3>3. QED
      BY <3>2 DEF RecordShape
  <2>3. QED
    BY <2>1, <2>2
<1> HIDE DEF f
<1>3. again = [activity |-> IF IsMissing(r) THEN "idle" ELSE f.activity, paths |-> paths, bay |-> bay, holds |-> f.holds,
               sized |-> f.sized, usable |-> f.usable, replaces |-> f.replaces, unseen |-> 0]
  BY <1>1, <1>2 DEF RecordShape
<1>4. RecordShape(again)
  BY <1>3 DEF RecordShape
<1>5. again.activity = (IF IsMissing(r) THEN "idle" ELSE r.activity) /\ again.paths = paths /\ again.bay = bay
      /\ again.holds = f.holds /\ again.sized = f.sized /\ again.usable = f.usable /\ again.replaces = r.replaces
  BY <1>2, <1>3
<1>6. QED
  BY <1>2, <1>4, <1>5 DEF again, paths, bay, o

LEMMA GoneIs ==
  ASSUME NEW r, RecordShape(r)
  PROVE  RecordShape(Gone(r)) /\ Gone(r).replaces = r.replaces /\ IsMissing(Gone(r))
<1> DEFINE g == Gone(r)
           grown == Grow(r.unseen, Forgets)
<1>1. g = [r EXCEPT !.activity = "missing", !.unseen = grown]
  BY DEF Gone
<1> HIDE DEF g, grown
<1>2. g = [activity |-> "missing", paths |-> r.paths, bay |-> r.bay, holds |-> r.holds, sized |-> r.sized,
           usable |-> r.usable, replaces |-> r.replaces, unseen |-> grown]
  BY <1>1 DEF RecordShape
<1>3. RecordShape(g) /\ g.replaces = r.replaces /\ IsMissing(g)
  BY <1>2 DEF RecordShape, IsMissing
<1>4. QED
  BY <1>3 DEF g

\* A record is not None: it has fields, and None may be anything; what the
\* merge makes of a drive is told by whether it was seen and whether it is new.
LEMMA MergedOnce ==
  ASSUME DiscoveryInv, NEW replaces \in [Ids -> Ids \union {None}],
         \A i \in Ids :
                IF Group(i) # {} /\ inv[i] = None
                THEN LET old == Replaced(Locate(First(Group(i))))
                     IN  \/ replaces[i] \in old /\ \A j \in Ids \ {i} : replaces[i] # None => replaces[j] # replaces[i]
                         \/ replaces[i] = None /\ \E j \in Ids \ {i} : replaces[j] \in old
                ELSE replaces[i] = None,
         \A i \in Ids : inv'[i] # None => inv'[i].replaces = IF inv[i] = None THEN replaces[i] ELSE inv[i].replaces
  PROVE  ReplacedOnce'
<1>1. \A b : Replaced(b) \subseteq (Ids \ Taken) \union {None}
  BY DEF Replaced
<1>2. \A i \in Ids : replaces[i] # None =>
        replaces[i] \notin Taken /\ \A j \in Ids \ {i} : replaces[j] # replaces[i]
  BY <1>1
<1>3. \A j \in Ids : inv[j] # None /\ inv[j].replaces # None => inv[j].replaces \in Taken
  BY DEF Taken
<1>4. SUFFICES ASSUME NEW i \in Ids, NEW j \in Ids, i # j, inv'[i] # None, inv'[j] # None, inv'[i].replaces # None
               PROVE  inv'[i].replaces # inv'[j].replaces
  BY DEF ReplacedOnce
<1>5. CASE inv[i] = None
  BY <1>2, <1>3, <1>4, <1>5
<1>6. CASE inv[i] # None /\ inv[j] = None
  BY <1>2, <1>3, <1>4, <1>6
<1>7. CASE inv[i] # None /\ inv[j] # None
  BY <1>4, <1>7 DEF DiscoveryInv, DiscoveryOK, ReplacedOnce
<1>8. QED
  BY <1>5, <1>6, <1>7

\* In a pass nothing disturbed, the group of a drive is its paths, and it is
\* found in its bay.
LEMMA GroupIs ==
  ASSUME DiscoveryInv, quiet, pass.pc = "merge", NEW i \in Ids
  PROVE  /\ Group(i) = {n \in Of(i) : IsSeen(sys[n])}
         /\ Group(i) # {} =>
              LET n == First(Group(i))
              IN  n \in Group(i) /\ SeenNow(n) /\ Locate(n) = BayOf(i) /\ \A m \in Of(i) : sys[m] = sys[n]
<1>1. DOMAIN pass.seen = {n \in There : IsSeen(sys[n])} /\ \A n \in DOMAIN pass.seen : SeenNow(n)
  BY DEF DiscoveryInv, PassInv
<1>2. Group(i) = {n \in Of(i) : IsSeen(sys[n])}
  BY <1>1 DEF Group, Of, SeenNow
<1>3. ASSUME Group(i) # {}
      PROVE  LET n == First(Group(i))
             IN  n \in Group(i) /\ SeenNow(n) /\ Locate(n) = BayOf(i) /\ \A m \in Of(i) : sys[m] = sys[n]
  <2> DEFINE n == First(Group(i))
  <2>1. Group(i) \in SUBSET Nat
    BY <1>2, PassesAssumption DEF Of, There
  <2>2. \E m \in Group(i) : \A x \in Group(i) : m <= x
    BY <1>3, <2>1, SmallestOf
  <2>3. n \in Group(i)
    BY <2>2 DEF First
  <2> HIDE DEF n
  <2>4. n \in Of(i) /\ n \in DOMAIN pass.seen
    BY <1>2, <2>3 DEF Group
  <2>5. n \in Nodes /\ sys[n].id = i /\ i # None
    BY <2>4, PassesAssumption DEF Of, There
  <2>6. \A m \in Of(i) : sys[m] = sys[n]
    BY <2>5 DEF Of, There, DiscoveryInv, SysInv
  <2>7. BayOf(i) = sys[n].bay
    <3> DEFINE those == {m \in There : sys[m].id = i}
               o == CHOOSE m \in those : TRUE
    <3>1. n \in those /\ those = Of(i)
      BY <2>4 DEF Of
    <3>2. o \in those
      BY <3>1
    <3>3. BayOf(i) = sys[o].bay
      BY <3>1 DEF BayOf
    <3> HIDE DEF o, those
    <3>4. sys[o] = sys[n]
      BY <2>6, <3>1, <3>2
    <3>5. QED
      BY <3>3, <3>4
  <2>8. Locate(n) = BayOf(i)
    BY <2>5, <2>7 DEF Locate, DiscoveryInv, PassInv
  <2>9. QED
    BY <1>1, <2>3, <2>4, <2>6, <2>8 DEF n
<1>4. QED
  BY <1>2, <1>3

\* What the inventory says of a drive that was seen.
AsSeen(i, r) ==
  LET those == {n \in Of(i) : IsSeen(sys[n])}
  IN  /\ ~IsMissing(r) /\ r.paths = those /\ (BayOf(i) # None => r.bay = BayOf(i))
      /\ r.activity # "formatting" /\ (\A n \in those : ~sys[n].asleep) =>
           /\ r.sized = "asked" /\ r.usable
           /\ aged[i] = ProbeRefresh => r.holds = sys[First(those)].holds

LEMMA SeenIs ==
  ASSUME DiscoveryInv, quiet, pass.pc = "merge", NEW i \in Ids, Group(i) # {}, NEW r, RecordShape(r)
  PROVE  AsSeen(i, Again(r, i))
<1> DEFINE n == First(Group(i))
           o == pass.seen[n]
           again == Again(r, i)
<1>1. n \in Group(i) /\ SeenNow(n) /\ Locate(n) = BayOf(i) /\ Group(i) = {m \in Of(i) : IsSeen(sys[m])}
  BY GroupIs
<1>2. n \in Nodes /\ sys[n].id = i /\ (~sys[n].asleep => sys[n].sized)
  BY <1>1 DEF Of, There, DiscoveryInv, SysInv
<1>3. /\ again.activity = (IF IsMissing(r) THEN "idle" ELSE r.activity)
      /\ again.paths = Group(i) /\ again.bay = BayNow(r, Group(i), Locate(n))
      /\ r.activity # "formatting" => again.holds = o.probe.holds /\ again.sized = o.probe.sized /\ again.usable = o.usable
  BY AgainIs
<1> HIDE DEF n, again
<1>4. ~IsMissing(again) /\ (again.activity # "formatting" => r.activity # "formatting")
  BY <1>3 DEF IsMissing
<1>5. BayOf(i) # None => again.bay = BayOf(i)
  BY <1>1, <1>3 DEF BayNow
<1>6. ~sys[n].asleep => o.usable /\ o.probe.sized = "asked" /\ (aged[i] = ProbeRefresh => o.probe.holds = sys[n].holds)
  BY <1>1, <1>2 DEF SeenNow
<1>7. QED
  BY <1>1, <1>3, <1>4, <1>5, <1>6 DEF AsSeen, n, again

LEMMA NewIs ==
  ASSUME DiscoveryInv, quiet, pass.pc = "merge", NEW i \in Ids, Group(i) # {}, NEW x
  PROVE  AsSeen(i, NewDrive(i, x))
<1> DEFINE n == First(Group(i))
           o == pass.seen[n]
           r == NewDrive(i, x)
<1>1. n \in Group(i) /\ SeenNow(n) /\ Locate(n) = BayOf(i) /\ Group(i) = {m \in Of(i) : IsSeen(sys[m])}
  BY GroupIs
<1>2. n \in Nodes /\ sys[n].id = i /\ (~sys[n].asleep => sys[n].sized)
  BY <1>1 DEF Of, There, DiscoveryInv, SysInv
<1>3. /\ r.activity = "idle" /\ r.paths = Group(i) /\ r.bay = Locate(n)
      /\ r.holds = o.probe.holds /\ r.sized = o.probe.sized /\ r.usable = o.usable
  BY DEF NewDrive
<1> HIDE DEF n, r
<1>4. ~sys[n].asleep => o.usable /\ o.probe.sized = "asked" /\ (aged[i] = ProbeRefresh => o.probe.holds = sys[n].holds)
  BY <1>1, <1>2 DEF SeenNow
<1>5. QED
  BY <1>1, <1>3, <1>4 DEF AsSeen, IsMissing, n, r

\* A drive that was seen has a record.
LEMMA Recorded ==
  ASSUME DiscoveryInv, TypesInv, NEW i \in Ids, Group(i) # {}
  PROVE  /\ \A x \in Ids \union {None} : NewDrive(i, x) \in Records
         /\ \A r \in Records : Again(r, i) \in Records
<1> DEFINE n == First(Group(i))
           o == pass.seen[n]
<1>1. Group(i) \subseteq Nodes /\ Group(i) \in SUBSET Nat
  BY PassesAssumption DEF Group, TypesInv
<1>2. \E m \in Group(i) : \A x \in Group(i) : m <= x
  BY <1>1, SmallestOf
<1>3. n \in Group(i)
  BY <1>2 DEF First
<1> HIDE DEF n
<1>4. n \in Nodes /\ n \in DOMAIN pass.seen
  BY <1>1, <1>3 DEF Group
<1>5. o.usable \in BOOLEAN /\ o.probe \in Probes
  BY <1>4 DEF TypesInv
<1>6. o.probe.holds \in Holds /\ o.probe.sized \in {"asked", "guessed"}
  BY <1>5 DEF Probes
<1>7. Locate(n) \in Bays
  <2>1. None \in Bays /\ sys[n].id \in Ids \union {None}
    BY <1>4 DEF Bays, DiscoveryInv, SysInv
  <2>2. QED
    BY <1>4, <2>1 DEF Locate, TypesInv
<1>8. ASSUME NEW x \in Ids \union {None}
      PROVE  NewDrive(i, x) \in Records
  <2>1. NewDrive(i, x) = [activity |-> "idle", paths |-> Group(i), bay |-> Locate(n), holds |-> o.probe.holds,
                          sized |-> o.probe.sized, usable |-> o.usable, replaces |-> x, unseen |-> 0]
    BY DEF NewDrive, n
  <2> HIDE DEF o
  <2>2. QED
    BY <1>1, <1>5, <1>6, <1>7, <2>1 DEF Records
<1>9. ASSUME NEW r \in Records
      PROVE  Again(r, i) \in Records
  <2> DEFINE f == Fields(r, o)
             bay == BayNow(r, Group(i), Locate(n))
  <2>1. Again(r, i) = [f EXCEPT !.bay = bay, !.paths = Group(i), !.unseen = 0,
                              !.activity = IF IsMissing(r) THEN "idle" ELSE f.activity]
    BY DEF Again, n
  <2>2. f \in Records
    BY <1>5, <1>6 DEF Fields, Records
  <2>3. bay \in Bays
    BY <1>7 DEF BayNow, Records
  <2> DEFINE act == IF IsMissing(r) THEN "idle" ELSE f.activity
  <2> HIDE DEF o, f, bay
  <2>4. act \in {"idle", "missing", "formatting"} /\ f.holds \in Holds /\ f.sized \in {"asked", "guessed"}
        /\ f.usable \in BOOLEAN /\ f.replaces \in Ids \union {None}
    BY <2>2 DEF Records
  <2>5. RecordShape(f)
    BY <2>2 DEF Records, RecordShape
  <2> HIDE DEF act
  <2> DEFINE again == Again(r, i)
  <2>6. again = [f EXCEPT !.bay = bay, !.paths = Group(i), !.unseen = 0, !.activity = act]
    BY <2>1 DEF act
  <2> HIDE DEF again
  <2>7. again = [activity |-> act, paths |-> Group(i), bay |-> bay, holds |-> f.holds, sized |-> f.sized,
                 usable |-> f.usable, replaces |-> f.replaces, unseen |-> 0]
    BY <2>5, <2>6, SeenAgain
  <2>8. again \in Records
    BY <1>1, <2>3, <2>4, <2>7 DEF Records
  <2>9. QED
    BY <2>8 DEF again
<1>10. QED
  BY <1>8, <1>9

LEMMA ObservedMerged == DiscoveryInv /\ TypesInv /\ MergeObserved => DiscoveryInv'
<1> SUFFICES ASSUME DiscoveryInv, TypesInv, MergeObserved
             PROVE  DiscoveryInv'
  OBVIOUS
<1>1. /\ pass' = [pc |-> "rest", seen |-> <<>>, usb |-> {}] /\ pass.pc = "merge"
      /\ UNCHANGED <<sys, cache, shelfTable, media, quiet, aged, more>>
  BY DEF MergeObserved
<1>2. PICK replaces \in [Ids -> Ids \union {None}] :
          /\ \A i \in Ids :
                IF Group(i) # {} /\ inv[i] = None
                THEN LET old == Replaced(Locate(First(Group(i))))
                     IN  \/ replaces[i] \in old /\ \A j \in Ids \ {i} : replaces[i] # None => replaces[j] # replaces[i]
                         \/ replaces[i] = None /\ \E j \in Ids \ {i} : replaces[j] \in old
                ELSE replaces[i] = None
          /\ inv' = [i \in Ids |-> IF Group(i) # {}
                                   THEN IF inv[i] = None THEN NewDrive(i, replaces[i]) ELSE Again(inv[i], i)
                                   ELSE IF inv[i] = None THEN None ELSE Gone(inv[i])]
  BY DEF MergeObserved
<1>3. \A i \in Ids : inv'[i] = IF Group(i) # {}
                               THEN IF inv[i] = None THEN NewDrive(i, replaces[i]) ELSE Again(inv[i], i)
                               ELSE IF inv[i] = None THEN None ELSE Gone(inv[i])
  BY <1>2
<1>4. inv' = [i \in Ids |-> inv'[i]]
  BY <1>2
<1>5. \A i \in Ids : inv[i] # None => RecordShape(inv[i])
  BY DEF DiscoveryInv, InvInv
<1>6. \A i, x : RecordShape(NewDrive(i, x)) /\ NewDrive(i, x).replaces = x
  BY DEF NewDrive, RecordShape
<1>7. \A i \in Ids : inv'[i] # None =>
        RecordShape(inv'[i]) /\ inv'[i].replaces = IF inv[i] = None THEN replaces[i] ELSE inv[i].replaces
  BY <1>3, <1>5, <1>6, AgainIs, GoneIs
<1>8. InvInv'
  BY <1>4, <1>7 DEF InvInv, RecordShape
<1>9. ReplacedOnce'
  BY <1>2, <1>7, MergedOnce
<1>10. SysInv' /\ AgesInv' /\ CacheInv'
  BY <1>1 DEF DiscoveryInv, SysInv, AgesInv, CacheInv, Remembered
<1>11. PassInv'
  BY <1>1 DEF PassInv
<1>12. SeenAsItIs'
  <2>1. (\A i : Of(i)' = Of(i) /\ BayOf(i)' = BayOf(i)) /\ \A n : IsSeen(sys'[n]) = IsSeen(sys[n]) /\ IsMedia(sys'[n]) = IsMedia(sys[n])
    BY <1>1 DEF Of, There, BayOf
  <2>2. ASSUME quiet, NEW i \in Ids
        PROVE  /\ Group(i) = {n \in Of(i) : IsSeen(sys[n])}
               /\ Group(i) = {} /\ inv'[i] # None => IsMissing(inv'[i])
               /\ Group(i) # {} => inv'[i] # None /\ AsSeen(i, inv'[i])
               /\ (\E n \in Of(i) : IsMedia(sys[n])) => inv'[i] = None
    <3>1. Group(i) = {n \in Of(i) : IsSeen(sys[n])}
      BY <1>1, <2>2, GroupIs
    <3>2. Group(i) = {} /\ inv'[i] # None => IsMissing(inv'[i])
      BY <1>3, <1>5, GoneIs
    <3>3. ASSUME Group(i) # {}
          PROVE  inv'[i] # None /\ AsSeen(i, inv'[i])
      <4>1. CASE inv[i] = None
        <5>1. inv'[i] = NewDrive(i, replaces[i]) /\ replaces[i] \in Ids \union {None}
          BY <1>2, <1>3, <3>3, <4>1
        <5>2. inv'[i] \in Records /\ AsSeen(i, inv'[i])
          BY <1>1, <2>2, <3>3, <5>1, Recorded, NewIs
        <5>3. QED
          BY <5>2, PassesAssumption
      <4>2. CASE inv[i] # None
        <5>1. inv'[i] = Again(inv[i], i) /\ RecordShape(inv[i]) /\ inv[i] \in Records
          BY <1>3, <1>5, <3>3, <4>2 DEF TypesInv
        <5>2. inv'[i] \in Records /\ AsSeen(i, inv'[i])
          BY <1>1, <2>2, <3>3, <5>1, Recorded, SeenIs
        <5>3. QED
          BY <5>2, PassesAssumption
      <4>3. QED
        BY <4>1, <4>2
    <3>4. (\E n \in Of(i) : IsMedia(sys[n])) => inv'[i] = None
      <4>1. SUFFICES ASSUME NEW n \in Of(i), IsMedia(sys[n])
                     PROVE  inv'[i] = None
        OBVIOUS
      <4>2. inv[i] = None
        BY <1>1, <2>2, <4>1 DEF DiscoveryInv, PassInv
      <4>3. ~IsSeen(sys[n]) /\ \A m \in Of(i) : sys[m] = sys[n]
        BY <4>1, PassesAssumption DEF IsSeen, IsMedia, Of, There, DiscoveryInv, SysInv
      <4>4. Group(i) = {}
        BY <3>1, <4>3
      <4>5. QED
        BY <1>3, <4>2, <4>4
    <3>5. QED
      BY <3>1, <3>2, <3>3, <3>4
  <2>3. QED
    BY <1>1, <2>1, <2>2 DEF SeenAsItIs, AsSeen
<1>13. QED
  BY <1>8, <1>9, <1>10, <1>11, <1>12 DEF DiscoveryInv, DiscoveryOK

LEMMA InitTypes == DInit => TypesInv
<1> SUFFICES ASSUME DInit
             PROVE  TypesInv
  OBVIOUS
<1>1. sys \in [Nodes -> Devices]
  BY PassesAssumption DEF DInit
<1>2. \A v \in Devices : v.bay \in Bays /\ v.holds \in Holds /\ v.sized \in {TRUE}
  BY DEF Devices
<1>3. more = [moves |-> more.moves, writes |-> more.writes, formats |-> more.formats, shelfFails |-> more.shelfFails,
              forgets |-> more.forgets, naps |-> more.naps, restarts |-> more.restarts,
              usb |-> more.usb, slot |-> more.slot, bays |-> more.bays]
      /\ more.bays \subseteq Bays
  BY PassesAssumption DEF DInit
<1>4. /\ \A n \in Nodes : cache[n] = None
      /\ \A i \in Ids : shelfTable[i] \in Bays /\ inv[i] = None
      /\ DOMAIN pass.seen = {}
  <2>1. /\ cache = [n \in Nodes |-> None] /\ shelfTable = [i \in Ids |-> None] /\ inv = [i \in Ids |-> None]
        /\ pass = [pc |-> "rest", seen |-> <<>>, usb |-> {}]
    BY DEF DInit
  <2>2. DOMAIN pass.seen = {}
    BY <2>1
  <2>3. None \in Bays
    BY DEF Bays
  <2>4. QED
    BY <2>1, <2>2, <2>3
<1>5. QED
  BY <1>1, <1>2, <1>3, <1>4 DEF TypesInv

\* What happens is one thing less of its kind; where drives may go stays.
LEMMA OneLess ==
  ASSUME TypesInv, UNCHANGED more \/ \E what \in {"moves", "writes", "formats", "shelfFails", "forgets", "naps", "restarts"} :
                                        more' = [more EXCEPT ![what] = more[what] - 1]
  PROVE  /\ more' = [moves |-> more'.moves, writes |-> more'.writes, formats |-> more'.formats, shelfFails |-> more'.shelfFails,
                     forgets |-> more'.forgets, naps |-> more'.naps, restarts |-> more'.restarts,
                     usb |-> more'.usb, slot |-> more'.slot, bays |-> more'.bays]
         /\ more'.bays \subseteq Bays
<1> USE DEF TypesInv
<1>1. CASE UNCHANGED more
  BY <1>1
<1>2. ASSUME NEW what \in {"moves", "writes", "formats", "shelfFails", "forgets", "naps", "restarts"},
             more' = [more EXCEPT ![what] = more[what] - 1]
      PROVE  /\ more' = [moves |-> more'.moves, writes |-> more'.writes, formats |-> more'.formats, shelfFails |-> more'.shelfFails,
                         forgets |-> more'.forgets, naps |-> more'.naps, restarts |-> more'.restarts,
                         usb |-> more'.usb, slot |-> more'.slot, bays |-> more'.bays]
             /\ more'.bays \subseteq Bays
  <2> DEFINE l == more[what] - 1
  <2> HIDE DEF l
  <2>1. more' = [more EXCEPT ![what] = l]
    BY <1>2 DEF l
  <2>2. QED
    BY <2>1
<1>3. QED
  BY <1>1, <1>2

\* The jobs, the operator and the world.
LEMMA EventTypes ==
  ASSUME DiscoveryInv, TypesInv,
         UNCHANGED more \/ \E what \in {"moves", "writes", "formats", "shelfFails", "forgets", "naps", "restarts"} :
                             more' = [more EXCEPT ![what] = more[what] - 1],
         \A n \in Nodes : sys'[n].bay \in Bays /\ sys'[n].holds \in Holds /\ sys'[n].sized \in BOOLEAN,
         \A i \in Ids : inv'[i] # None => inv'[i] \in Records,
         \/ UNCHANGED <<cache, shelfTable, pass>>
         \/ /\ cache' = [n \in Nodes |-> None] /\ shelfTable' = [i \in Ids |-> None]
            /\ pass' = [pc |-> "rest", seen |-> <<>>, usb |-> {}]
  PROVE  TypesInv'
<1>1. /\ more' = [moves |-> more'.moves, writes |-> more'.writes, formats |-> more'.formats, shelfFails |-> more'.shelfFails,
                  forgets |-> more'.forgets, naps |-> more'.naps, restarts |-> more'.restarts,
                  usb |-> more'.usb, slot |-> more'.slot, bays |-> more'.bays]
      /\ more'.bays \subseteq Bays
  BY OneLess
<1>2. /\ \A n \in Nodes : cache'[n] # None => cache'[n].probe \in Probes
      /\ \A i \in Ids : shelfTable'[i] \in Bays
      /\ \A n \in DOMAIN pass'.seen : n \in Nodes /\ pass'.seen[n].usable \in BOOLEAN /\ pass'.seen[n].probe \in Probes
  <2>1. CASE UNCHANGED <<cache, shelfTable, pass>>
    BY <2>1 DEF TypesInv
  <2>2. CASE /\ cache' = [n \in Nodes |-> None] /\ shelfTable' = [i \in Ids |-> None]
             /\ pass' = [pc |-> "rest", seen |-> <<>>, usb |-> {}]
    BY <2>2 DEF Bays
  <2>3. QED
    BY <2>1, <2>2
<1>3. QED
  BY <1>1, <1>2 DEF TypesInv

\* A device whose bay and contents are such, or any other device there is.
LEMMA WorldTypes ==
  ASSUME SysInv, TypesInv, NEW i \in Ids, NEW new,
         sys' = [n \in Nodes |-> IF n \in Of(i) THEN new[n] ELSE sys[n]],
         \A n \in Nodes : new[n].bay \in Bays /\ new[n].holds \in Holds /\ new[n].sized \in BOOLEAN
  PROVE  \A n \in Nodes : sys'[n].bay \in Bays /\ sys'[n].holds \in Holds /\ sys'[n].sized \in BOOLEAN
  BY DEF TypesInv

LEMMA BeginFormatTypes == ASSUME DiscoveryInv, TypesInv, NEW i \in Ids, BeginFormat(i) PROVE TypesInv'
<1> DEFINE new == [n \in Nodes |-> [sys[n] EXCEPT !.asleep = TRUE, !.sized = FALSE]]
<1>1. sys' = [n \in Nodes |-> IF n \in Of(i) THEN new[n] ELSE sys[n]]
  BY DEF BeginFormat, World
<1>2. \A n \in Nodes : new[n].bay \in Bays /\ new[n].holds \in Holds /\ new[n].sized \in BOOLEAN
  <2>1. ASSUME NEW n \in Nodes
        PROVE  new[n].bay \in Bays /\ new[n].holds \in Holds /\ new[n].sized \in BOOLEAN
    <3> DEFINE v == sys[n]
               x == new[n]
    <3>1. DeviceShape(v) /\ x = [v EXCEPT !.asleep = TRUE, !.sized = FALSE]
      BY DEF DiscoveryInv, SysInv
    <3> HIDE DEF v, x
    <3>2. x = [id |-> v.id, bay |-> v.bay, holds |-> v.holds, usb |-> v.usb, slot |-> v.slot,
               asleep |-> TRUE, sized |-> FALSE, disk |-> v.disk]
      BY <3>1 DEF DeviceShape
    <3>3. x.bay = v.bay /\ x.holds = v.holds /\ x.sized \in BOOLEAN
      BY <3>2
    <3> HIDE DEF new
    <3>4. QED
      BY <3>3 DEF TypesInv, v, x
  <2>2. QED
    BY <2>1
<1> HIDE DEF new
<1>3. \A n \in Nodes : sys'[n].bay \in Bays /\ sys'[n].holds \in Holds /\ sys'[n].sized \in BOOLEAN
  BY <1>1, <1>2, WorldTypes DEF DiscoveryInv
<1>4. \A j \in Ids : inv'[j] # None => inv'[j] \in Records
  <2>1. inv[i] # None /\ inv[i] \in Records /\ inv' = [inv EXCEPT ![i].activity = "formatting"]
    BY DEF BeginFormat, TypesInv
  <2> DEFINE r == inv[i]
             f == [r EXCEPT !.activity = "formatting"]
  <2>2. f \in Records
    <3>1. r \in Records
      BY <2>1
    <3> HIDE DEF r
    <3>2. QED
      BY <3>1 DEF Records
  <2>3. inv' = [inv EXCEPT ![i] = f]
    BY <2>1
  <2> HIDE DEF f
  <2>4. QED
    BY <2>2, <2>3 DEF DiscoveryInv, InvInv, TypesInv
<1>5. QED
  BY <1>3, <1>4, EventTypes DEF BeginFormat, Happens

LEMMA EndFormatTypes == ASSUME DiscoveryInv, TypesInv, NEW i \in Ids, FormatEnds(i) PROVE TypesInv'
<1> DEFINE new == [n \in Nodes |-> [sys[n] EXCEPT !.asleep = FALSE, !.sized = TRUE, !.holds = "blank"]]
<1>1. sys' = [n \in Nodes |-> IF n \in Of(i) THEN new[n] ELSE sys[n]]
  BY DEF FormatEnds, World
<1>2. \A n \in Nodes : new[n].bay \in Bays /\ new[n].holds \in Holds /\ new[n].sized \in BOOLEAN
  <2>1. ASSUME NEW n \in Nodes
        PROVE  new[n].bay \in Bays /\ new[n].holds \in Holds /\ new[n].sized \in BOOLEAN
    <3> DEFINE v == sys[n]
               x == new[n]
    <3>1. DeviceShape(v) /\ x = [v EXCEPT !.asleep = FALSE, !.sized = TRUE, !.holds = "blank"]
      BY DEF DiscoveryInv, SysInv
    <3> HIDE DEF v, x
    <3>2. x = [id |-> v.id, bay |-> v.bay, holds |-> "blank", usb |-> v.usb, slot |-> v.slot,
               asleep |-> FALSE, sized |-> TRUE, disk |-> v.disk]
      BY <3>1 DEF DeviceShape
    <3>3. x.bay = v.bay /\ x.holds = "blank" /\ x.sized \in BOOLEAN
      BY <3>2
    <3> HIDE DEF new
    <3>4. QED
      BY <3>3, PassesAssumption DEF TypesInv, v, x
  <2>2. QED
    BY <2>1
<1> HIDE DEF new
<1>3. \A n \in Nodes : sys'[n].bay \in Bays /\ sys'[n].holds \in Holds /\ sys'[n].sized \in BOOLEAN
  BY <1>1, <1>2, WorldTypes DEF DiscoveryInv
<1>4. \A j \in Ids : inv'[j] # None => inv'[j] \in Records
  <2> DEFINE r == inv[i]
             f == [r EXCEPT !.activity = "idle", !.usable = TRUE, !.sized = "asked"]
             v == IF r = None THEN None ELSE IF r.activity = "formatting" THEN f ELSE r
  <2>1. inv' = [inv EXCEPT ![i] = v]
    BY DEF FormatEnds
  <2>2. r # None => r \in Records
    BY DEF TypesInv
  <2>3. v # None => v \in Records
    <3>1. r \in Records => f \in Records
      <4> HIDE DEF r
      <4>1. QED
        BY DEF Records
    <3> HIDE DEF r, f
    <3>2. QED
      BY <2>2, <3>1
  <2> HIDE DEF v
  <2>4. QED
    BY <2>1, <2>3 DEF DiscoveryInv, InvInv, TypesInv
<1>5. QED
  BY <1>3, <1>4, EventTypes DEF FormatEnds

LEMMA WriteTypes == ASSUME DiscoveryInv, TypesInv, NEW i \in Ids, WriteOutside(i) PROVE TypesInv'
<1>1. PICK h \in Holds : World(i, LAMBDA v : [v EXCEPT !.holds = h])
  BY DEF WriteOutside
<1> DEFINE new == [n \in Nodes |-> [sys[n] EXCEPT !.holds = h]]
<1>2. sys' = [n \in Nodes |-> IF n \in Of(i) THEN new[n] ELSE sys[n]]
  BY <1>1 DEF World
<1>3. \A n \in Nodes : new[n].bay \in Bays /\ new[n].holds \in Holds /\ new[n].sized \in BOOLEAN
  <2>1. ASSUME NEW n \in Nodes
        PROVE  new[n].bay \in Bays /\ new[n].holds \in Holds /\ new[n].sized \in BOOLEAN
    <3>1. new[n] = [id |-> sys[n].id, bay |-> sys[n].bay, holds |-> h, usb |-> sys[n].usb, slot |-> sys[n].slot,
                    asleep |-> sys[n].asleep, sized |-> sys[n].sized, disk |-> sys[n].disk]
      BY DEF DiscoveryInv, SysInv, DeviceShape
    <3> HIDE DEF new
    <3>2. QED
      BY <3>1 DEF TypesInv
  <2>2. QED
    BY <2>1
<1> HIDE DEF new
<1>4. \A n \in Nodes : sys'[n].bay \in Bays /\ sys'[n].holds \in Holds /\ sys'[n].sized \in BOOLEAN
  BY <1>2, <1>3, WorldTypes DEF DiscoveryInv
<1>5. \A j \in Ids : inv'[j] # None => inv'[j] \in Records
  BY DEF WriteOutside, TypesInv
<1>6. QED
  BY <1>4, <1>5, EventTypes DEF WriteOutside, Happens

LEMMA NapTypes == ASSUME DiscoveryInv, TypesInv, NEW i \in Ids, Nap(i) PROVE TypesInv'
<1> DEFINE new == [n \in Nodes |-> [sys[n] EXCEPT !.asleep = ~sys[n].asleep]]
<1>1. sys' = [n \in Nodes |-> IF n \in Of(i) THEN new[n] ELSE sys[n]]
  BY DEF Nap, World
<1>2. \A n \in Nodes : new[n].bay \in Bays /\ new[n].holds \in Holds /\ new[n].sized \in BOOLEAN
  <2>1. ASSUME NEW n \in Nodes
        PROVE  new[n].bay \in Bays /\ new[n].holds \in Holds /\ new[n].sized \in BOOLEAN
    <3> DEFINE up == ~sys[n].asleep
    <3> HIDE DEF up
    <3>1. new[n] = [id |-> sys[n].id, bay |-> sys[n].bay, holds |-> sys[n].holds, usb |-> sys[n].usb, slot |-> sys[n].slot,
                    asleep |-> up, sized |-> sys[n].sized, disk |-> sys[n].disk]
      BY DEF DiscoveryInv, SysInv, DeviceShape, up
    <3> HIDE DEF new
    <3>2. QED
      BY <3>1 DEF TypesInv
  <2>2. QED
    BY <2>1
<1> HIDE DEF new
<1>3. \A n \in Nodes : sys'[n].bay \in Bays /\ sys'[n].holds \in Holds /\ sys'[n].sized \in BOOLEAN
  BY <1>1, <1>2, WorldTypes DEF DiscoveryInv
<1>4. \A j \in Ids : inv'[j] # None => inv'[j] \in Records
  BY DEF Nap, TypesInv
<1>5. QED
  BY <1>3, <1>4, EventTypes DEF Nap, Happens

LEMMA ForgetTypes == ASSUME DiscoveryInv, TypesInv, NEW i \in Ids, Forget(i) PROVE TypesInv'
<1>1. \A n \in Nodes : sys'[n].bay \in Bays /\ sys'[n].holds \in Holds /\ sys'[n].sized \in BOOLEAN
  BY DEF Forget, TypesInv
<1>2. \A j \in Ids : inv'[j] # None => inv'[j] \in Records
  BY DEF Forget, TypesInv, DiscoveryInv, InvInv
<1>3. QED
  BY <1>1, <1>2, EventTypes DEF Forget, Happens

LEMMA RestartTypes == ASSUME DiscoveryInv, TypesInv, RestartPass PROVE TypesInv'
<1>1. \A n \in Nodes : sys'[n].bay \in Bays /\ sys'[n].holds \in Holds /\ sys'[n].sized \in BOOLEAN
  BY DEF RestartPass, TypesInv
<1>2. \A j \in Ids : inv'[j] # None => inv'[j] \in Records
  BY DEF RestartPass, TypesInv
<1>3. QED
  BY <1>1, <1>2, EventTypes DEF RestartPass, Happens

LEMMA PullTypes == ASSUME DiscoveryInv, TypesInv, NEW n \in Nodes, Pull(n) PROVE TypesInv'
<1>1. \A m \in Nodes : sys'[m].bay \in Bays /\ sys'[m].holds \in Holds /\ sys'[m].sized \in BOOLEAN
  <2>1. Empty.bay \in Bays /\ Empty.holds \in Holds /\ Empty.sized \in BOOLEAN
    BY PassesAssumption DEF Empty, Device, Bays
  <2> DEFINE e == Empty
  <2>2. sys' = [sys EXCEPT ![n] = e]
    BY DEF Pull
  <2> HIDE DEF e
  <2>3. QED
    BY <2>1, <2>2 DEF DiscoveryInv, SysInv, TypesInv, e
<1>2. \A j \in Ids : inv'[j] # None => inv'[j] \in Records
  BY DEF Pull, TypesInv
<1>3. QED
  BY <1>1, <1>2, EventTypes DEF Pull, Happens

LEMMA PushTypes == ASSUME DiscoveryInv, TypesInv, NEW n \in Nodes, NEW i \in Ids, Push(n, i) PROVE TypesInv'
<1>1. PICK new : /\ sys' = [sys EXCEPT ![n] = new]
                 /\ new.bay \in Bays /\ new.holds \in Holds /\ new.sized \in BOOLEAN
  <2>1. CASE Of(i) # {}
    <3> DEFINE o == CHOOSE m \in Of(i) : TRUE
    <3>1. o \in Of(i)
      BY <2>1
    <3>2. sys' = [sys EXCEPT ![n] = sys[o]]
      BY <2>1 DEF Push
    <3> HIDE DEF o
    <3>3. o \in Nodes
      BY <3>1 DEF Of, There
    <3>4. QED
      BY <3>2, <3>3 DEF TypesInv
  <2>2. CASE Of(i) = {}
    <3>1. PICK b \in more.bays, h \in Holds, usb \in more.usb, slot \in more.slot :
             sys' = [sys EXCEPT ![n] = Device(i, b, h, usb, slot)]
      BY <2>2 DEF Push
    <3>2. LET v == Device(i, b, h, usb, slot) IN v.bay \in Bays /\ v.holds \in Holds /\ v.sized \in BOOLEAN
      BY DEF Device, TypesInv
    <3>3. QED
      BY <3>1, <3>2
  <2>3. QED
    BY <2>1, <2>2
<1>2. \A m \in Nodes : sys'[m].bay \in Bays /\ sys'[m].holds \in Holds /\ sys'[m].sized \in BOOLEAN
  BY <1>1 DEF DiscoveryInv, SysInv, TypesInv
<1>3. \A j \in Ids : inv'[j] # None => inv'[j] \in Records
  BY DEF Push, TypesInv
<1>4. QED
  BY <1>2, <1>3, EventTypes DEF Push, Happens

\* A pass.
LEMMA ShelvesTypes == ASSUME DiscoveryInv, TypesInv, ScanShelves PROVE TypesInv'
<1> DEFINE old == [n \in Nodes |-> IF cache[n] = None THEN None ELSE [cache[n] EXCEPT !.age = Grow(cache[n].age, ProbeRefresh)]]
<1>1. /\ cache' = old /\ pass' = [pass EXCEPT !.pc = "blocks"]
      /\ UNCHANGED <<sys, inv, media>>
      /\ \/ shelfTable' = [i \in Ids |-> BayOf(i)] /\ UNCHANGED more
         \/ /\ more' = [more EXCEPT !["shelfFails"] = more["shelfFails"] - 1]
            /\ shelfTable' = shelfTable \/ shelfTable' = [i \in Ids |-> None]
  BY DEF ScanShelves
<1>2. \A i \in Ids : shelfTable'[i] \in Bays
  <2>1. \A i \in Ids : BayOf(i) \in Bays
    <3>1. SUFFICES ASSUME NEW i \in Ids
                   PROVE  BayOf(i) \in Bays
      OBVIOUS
    <3> DEFINE those == {n \in There : sys[n].id = i}
               o == CHOOSE n \in those : TRUE
    <3>2. CASE those = {}
      BY <3>2 DEF BayOf, Bays
    <3>3. CASE those # {}
      <4>1. o \in those
        BY <3>3
      <4>2. BayOf(i) = sys[o].bay
        BY <3>3 DEF BayOf
      <4>3. o \in Nodes
        BY <4>1 DEF There
      <4> HIDE DEF o, those
      <4>4. QED
        BY <4>2, <4>3 DEF TypesInv
    <3>4. QED
      BY <3>2, <3>3
  <2>2. None \in Bays
    BY DEF Bays
  <2>3. QED
    BY <1>1, <2>1, <2>2 DEF TypesInv
<1>3. \A n \in Nodes : cache'[n] # None => cache'[n].probe \in Probes
  <2>1. SUFFICES ASSUME NEW n \in Nodes, cache[n] # None
                 PROVE  cache'[n].probe \in Probes
    BY <1>1
  <2> DEFINE c == cache[n]
             g == Grow(c.age, ProbeRefresh)
  <2>2. cache'[n] = [c EXCEPT !.age = g]
    BY <1>1, <2>1
  <2>3. c = [key |-> c.key, probe |-> c.probe, age |-> c.age] /\ c.probe \in Probes
    BY <2>1 DEF DiscoveryInv, CacheInv, Remembered, TypesInv
  <2> HIDE DEF c, g
  <2>4. QED
    BY <2>2, <2>3
<1>4. pass'.seen = pass.seen
  BY <1>1 DEF DiscoveryInv, PassInv
<1>5. /\ more' = [moves |-> more'.moves, writes |-> more'.writes, formats |-> more'.formats, shelfFails |-> more'.shelfFails,
                  forgets |-> more'.forgets, naps |-> more'.naps, restarts |-> more'.restarts,
                  usb |-> more'.usb, slot |-> more'.slot, bays |-> more'.bays]
      /\ more'.bays \subseteq Bays
  BY <1>1, OneLess
<1> HIDE DEF old
<1>6. QED
  BY <1>1, <1>2, <1>3, <1>4, <1>5 DEF TypesInv

LEMMA BlocksTypes == ASSUME DiscoveryInv, TypesInv, ScanBlocks PROVE TypesInv'
<1> DEFINE seen == {n \in There : IsSeen(sys[n])}
           asks == {n \in There : (IsSeen(sys[n]) \/ IsMedia(sys[n])) /\ ~Cached(n) /\ Answers(n)}
<1>1. /\ pass'.seen = [n \in seen |-> [id |-> sys[n].id, usable |-> sys[n].sized, probe |-> Probe(n)]]
      /\ cache' = [n \in Nodes |-> IF n \in asks THEN [key |-> ProbeKey(sys[n]), probe |-> Probe(n), age |-> 0]
                                   ELSE IF n \in There THEN cache[n] ELSE None]
      /\ UNCHANGED <<sys, inv, shelfTable, more>>
  BY DEF ScanBlocks
<1>2. seen \subseteq Nodes
  BY DEF There
<1>3. \A n \in Nodes : Probe(n) \in Probes
  <2>1. SUFFICES ASSUME NEW n \in Nodes
                 PROVE  Probe(n) \in Probes
    OBVIOUS
  <2>2. CASE Cached(n)
    BY <2>2 DEF Probe, Cached, TypesInv
  <2>3. CASE ~Cached(n)
    <3> DEFINE h == IF sys[n].asleep THEN "blank" ELSE sys[n].holds
               z == IF sys[n].asleep THEN "guessed" ELSE "asked"
    <3>1. Probe(n) = [holds |-> h, sized |-> z]
      BY <2>3 DEF Probe
    <3>2. h \in Holds /\ z \in {"asked", "guessed"}
      BY PassesAssumption DEF TypesInv
    <3> HIDE DEF h, z
    <3>3. QED
      BY <3>1, <3>2 DEF Probes
  <2>4. QED
    BY <2>2, <2>3
<1> HIDE DEF seen, asks
<1>4. \A n \in Nodes : cache'[n] # None => cache'[n].probe \in Probes
  <2>1. SUFFICES ASSUME NEW n \in Nodes, cache'[n] # None
                 PROVE  cache'[n].probe \in Probes
    OBVIOUS
  <2>2. CASE n \in asks
    BY <1>1, <1>3, <2>2
  <2>3. CASE n \notin asks
    BY <1>1, <2>1, <2>3 DEF TypesInv
  <2>4. QED
    BY <2>2, <2>3
<1>5. \A n \in DOMAIN pass'.seen : n \in Nodes /\ pass'.seen[n].usable \in BOOLEAN /\ pass'.seen[n].probe \in Probes
  <2>1. DOMAIN pass'.seen = seen /\ \A n \in seen : pass'.seen[n].usable = sys[n].sized /\ pass'.seen[n].probe = Probe(n)
    BY <1>1
  <2>2. QED
    BY <1>2, <1>3, <2>1 DEF TypesInv
<1>6. QED
  BY <1>1, <1>4, <1>5 DEF TypesInv

LEMMA MediaTypes == ASSUME DiscoveryInv, TypesInv, MergeMedia PROVE TypesInv'
<1>1. pass' = [pass EXCEPT !.pc = "merge", !.usb = {}] /\ inv' = [i \in Ids |-> IF i \in pass.usb THEN None ELSE inv[i]]
      /\ UNCHANGED <<sys, cache, shelfTable, more>>
  BY DEF MergeMedia
<1>2. pass'.seen = pass.seen
  BY <1>1 DEF DiscoveryInv, PassInv
<1>3. \A i \in Ids : inv'[i] # None => inv'[i] \in Records
  BY <1>1 DEF TypesInv
<1>4. QED
  BY <1>1, <1>2, <1>3 DEF TypesInv

LEMMA MergedTypes == ASSUME DiscoveryInv, TypesInv, MergeObserved PROVE TypesInv'
<1>1. pass' = [pc |-> "rest", seen |-> <<>>, usb |-> {}] /\ UNCHANGED <<sys, cache, shelfTable, more>>
  BY DEF MergeObserved
<1>2. PICK replaces \in [Ids -> Ids \union {None}] :
          inv' = [i \in Ids |-> IF Group(i) # {}
                                THEN IF inv[i] = None THEN NewDrive(i, replaces[i]) ELSE Again(inv[i], i)
                                ELSE IF inv[i] = None THEN None ELSE Gone(inv[i])]
  BY DEF MergeObserved
<1>3. ASSUME NEW r \in Records
      PROVE  Gone(r) \in Records
  <2> DEFINE grown == Grow(r.unseen, Forgets)
  <2>1. r.unseen \in Nat
    BY DEF Records
  <2>2. grown \in Nat
    BY <2>1, PassesAssumption DEF Grow
  <2>3. Gone(r) = [r EXCEPT !.activity = "missing", !.unseen = grown]
    BY DEF Gone
  <2> HIDE DEF grown
  <2>4. QED
    BY <2>2, <2>3 DEF Records
<1>4. ASSUME NEW i \in Ids, inv'[i] # None
      PROVE  inv'[i] \in Records
  <2>1. CASE Group(i) # {} /\ inv[i] = None
    <3>1. inv'[i] = NewDrive(i, replaces[i]) /\ replaces[i] \in Ids \union {None}
      BY <1>2, <2>1
    <3>2. QED
      BY <2>1, <3>1, Recorded
  <2>2. CASE Group(i) # {} /\ inv[i] # None
    <3>1. inv'[i] = Again(inv[i], i) /\ inv[i] \in Records
      BY <1>2, <2>2 DEF TypesInv
    <3>2. QED
      BY <2>2, <3>1, Recorded
  <2>3. CASE Group(i) = {}
    <3>1. inv'[i] = Gone(inv[i]) /\ inv[i] \in Records
      BY <1>2, <1>4, <2>3 DEF TypesInv
    <3>2. QED
      BY <1>3, <3>1
  <2>4. QED
    BY <2>1, <2>2, <2>3
<1>5. DOMAIN pass'.seen = {}
  BY <1>1
<1>6. QED
  BY <1>1, <1>4, <1>5 DEF TypesInv

LEMMA NextDiscovery == DiscoveryInv /\ TypesInv /\ [DNext]_dvars => DiscoveryInv' /\ TypesInv'
<1> SUFFICES ASSUME DiscoveryInv, TypesInv, [DNext]_dvars
             PROVE  DiscoveryInv' /\ TypesInv'
  OBVIOUS
<1>1. CASE ScanShelves
  BY <1>1, ShelvesScanned, ShelvesTypes
<1>2. CASE ScanBlocks
  BY <1>2, BlocksScanned, BlocksTypes
<1>3. CASE MergeMedia
  BY <1>3, MediaMerged, MediaTypes
<1>4. CASE MergeObserved
  BY <1>4, ObservedMerged, MergedTypes
<1>5. CASE RestartPass
  BY <1>5, PassRestarts, RestartTypes
<1>6. ASSUME NEW i \in Ids, BeginFormat(i)
      PROVE  DiscoveryInv' /\ TypesInv'
  BY <1>6, FormatBegins, BeginFormatTypes
<1>7. ASSUME NEW i \in Ids, FormatEnds(i)
      PROVE  DiscoveryInv' /\ TypesInv'
  BY <1>7, FormatIsOver, EndFormatTypes
<1>8. ASSUME NEW i \in Ids, Forget(i)
      PROVE  DiscoveryInv' /\ TypesInv'
  BY <1>8, Forgotten, ForgetTypes
<1>9. ASSUME NEW i \in Ids, WriteOutside(i)
      PROVE  DiscoveryInv' /\ TypesInv'
  BY <1>9, WrittenOutside, WriteTypes
<1>10. ASSUME NEW i \in Ids, Nap(i)
       PROVE  DiscoveryInv' /\ TypesInv'
  BY <1>10, Naps, NapTypes
<1>11. ASSUME NEW n \in Nodes, NEW i \in Ids, Push(n, i)
       PROVE  DiscoveryInv' /\ TypesInv'
  BY <1>11, Pushed, PushTypes
<1>12. ASSUME NEW n \in Nodes, Pull(n)
       PROVE  DiscoveryInv' /\ TypesInv'
  BY <1>12, Pulled, PullTypes
<1>13. CASE UNCHANGED dvars
  <2> USE <1>13 DEF dvars
  <2>1. SysInv' /\ InvInv' /\ AgesInv'
    BY DEF DiscoveryInv, SysInv, InvInv, AgesInv
  <2>2. CacheInv'
    BY DEF DiscoveryInv, CacheInv
  <2>3. PassInv'
    BY DEF DiscoveryInv, PassInv, SeenNow, There, Of, BayOf
  <2>4. SeenAsItIs'
    <3>1. There' = There
      BY DEF There
    <3>2. \A i : Of(i)' = Of(i) /\ BayOf(i)' = BayOf(i)
      BY <3>1 DEF Of, BayOf
    <3>3. SeenAsItIs
      BY DEF DiscoveryInv, DiscoveryOK
    <3>4. QED
      BY <3>2, <3>3 DEF SeenAsItIs
  <2>5. ReplacedOnce'
    BY DEF DiscoveryInv, DiscoveryOK, ReplacedOnce
  <2>6. DiscoveryInv'
    BY <2>1, <2>2, <2>3, <2>4, <2>5 DEF DiscoveryInv, DiscoveryOK
  <2>7. TypesInv'
    BY DEF TypesInv
  <2>8. QED
    BY <2>6, <2>7
<1>14. QED
  BY <1>1, <1>2, <1>3, <1>4, <1>5, <1>6, <1>7, <1>8, <1>9, <1>10, <1>11, <1>12, <1>13 DEF DNext

\* After a pass that nothing disturbed the inventory is what is there, and a
\* drive is replaced by one drive at most (monitor.rs, merge_observed,
\* replaced_in_bay; discovery/mod.rs, ProbeCache).
THEOREM DiscoveryHolds == DSpec => []DiscoveryOK
<1>1. DiscoveryInv => DiscoveryOK
  BY DEF DiscoveryInv
<1>2. QED
  BY <1>1, InitDiscovery, InitTypes, NextDiscovery, PTL DEF DSpec

-----------------------------------------------------------------------------
(* What may be done to a drive, proved for any requests, any records and disks *)
(* at first, and any number of outside changes and restarts.                   *)

RecordOf(r) ==
  r = [fleet |-> r.fleet, desig |-> r.desig, activity |-> r.activity, health |-> r.health, usable |-> r.usable, hot |-> r.hot,
       slab |-> r.slab, mounted |-> r.mounted, enrolable |-> r.enrolable, nvme |-> r.nvme]
TestShape(t) == t = [state |-> t.state, cancel |-> t.cancel, at |-> t.at, errors |-> t.errors]
ActionTypes ==
  /\ ask \in [Asks -> [pc : {"none", "go", "works", "over"}, what : Wanted \union {"none"}]]
  /\ test = [q \in Asks |-> test[q]] /\ \A q \in Asks : TestShape(test[q])
  /\ d # None => d \in DriveStates
  /\ disk \in DiskStates
  /\ shown # None => shown \in Asks

\* What a request has become, and the test of one.
Under(q) == ask[q].pc \in {"go", "works"}
AskKinds ==
  \A q \in Asks :
    /\ Under(q) => ask[q].what \in Tests \union {"format", "join", "leave"}
    /\ ask[q].pc = "works" => ask[q].what \in Tests \union {"format"}
    /\ test[q].state = "running" <=> ask[q].pc = "works" /\ ask[q].what \in Tests
    /\ test[q].state = "passed" => test[q].at = Regions /\ test[q].errors = 0

\* As long as nothing excuses it: one request at a time; a drive out of sight
\* is not there; nobody came to hold what is about to be destroyed; and the
\* drive's activity is what is done with it.
OneAtATime == \A q, p \in Asks : q # p => ~(Under(q) /\ Under(p))
AwayIsGone == \A q \in Asks : Under(q) /\ ask[q].what # "leave" /\ (d = None \/ Missing(d)) => ~disk.here
FreeStill == \A q \in Asks : Under(q) /\ ask[q].what \in Destroys => ~Held(disk.slab) /\ ~disk.mounted /\ (d # None => ~d.fleet)
ActivityIs ==
  d # None => /\ d.activity = "testing" => shown # None /\ test[shown].state = "running"
              /\ d.activity = "idle" => \A q \in Asks : ask[q].pc # "works"
ActsInv == ActionTypes /\ AskKinds /\ (~excused => OneAtATime /\ AwayIsGone /\ FreeStill /\ ActivityIs)

LEMMA InitActions == AInit => ActsInv
<1> SUFFICES ASSUME AInit
             PROVE  ActsInv
  OBVIOUS
<1>1. PICK s \in Starts : d = s.record /\ disk = s.disk
  BY DEF AInit
<1>2. d \in DriveStates /\ d.activity # "testing" /\ disk \in DiskStates
  BY <1>1, StartsAssumption
<1>5. /\ ask = [q \in Asks |-> [pc |-> "none", what |-> "none"]] /\ test = [q \in Asks |-> NoTest] /\ shown = None
  BY DEF AInit
<1>6. ask \in [Asks -> [pc : {"none", "go", "works", "over"}, what : Wanted \union {"none"}]]
  BY <1>5
<1>7. TestShape(NoTest) /\ NoTest.state = "none"
  BY DEF TestShape, NoTest
<1>8. ActionTypes
  BY <1>2, <1>5, <1>6, <1>7 DEF ActionTypes
<1>9. \A q \in Asks : ~Under(q) /\ ask[q].pc = "none" /\ test[q].state = "none"
  BY <1>5, <1>7 DEF Under
<1>10. AskKinds
  BY <1>9 DEF AskKinds
<1>11. OneAtATime /\ AwayIsGone /\ FreeStill
  BY <1>9 DEF OneAtATime, AwayIsGone, FreeStill
<1>12. ActivityIs
  BY <1>2, <1>9 DEF ActivityIs
<1>13. QED
  BY <1>8, <1>10, <1>11, <1>12 DEF ActsInv

\* A record with other fields is a record.
LEMMA RecordIs == \A r \in DriveStates : RecordOf(r) /\ r # None
  BY StartsAssumption DEF DriveStates, RecordOf

Activities == {"idle", "testing", "formatting", "missing"}
LEMMA Becomes ==
  ASSUME NEW r \in DriveStates, NEW a \in Activities, NEW x, x = [r EXCEPT !.activity = a]
  PROVE  x \in DriveStates /\ x.activity = a /\ x.fleet = r.fleet
<1>1. x \in DriveStates
  BY DEF DriveStates, Activities
<1>2. RecordOf(r)
  BY RecordIs
<1>3. x.activity = a /\ x.fleet = r.fleet
  BY <1>2 DEF RecordOf
<1>4. QED
  BY <1>1, <1>3

LEMMA Designated ==
  ASSUME NEW r \in DriveStates, NEW v \in {"none", "spare", "failed", "system"}, NEW x, x = [r EXCEPT !.desig = v]
  PROVE  x \in DriveStates /\ x.activity = r.activity /\ x.fleet = r.fleet
<1>1. x \in DriveStates
  BY DEF DriveStates
<1>2. RecordOf(r)
  BY RecordIs
<1>3. x.activity = r.activity /\ x.fleet = r.fleet
  BY <1>2 DEF RecordOf
<1>4. QED
  BY <1>1, <1>3

LEMMA OfferIs ==
  ASSUME NEW r \in DriveStates
  PROVE  Offer(r) \in DriveStates /\ Offer(r).activity = r.activity /\ Offer(r).fleet = r.fleet
<1> DEFINE x == Offer(r)
           b == ~OfferBlocked(r)
<1>1. b \in BOOLEAN
  OBVIOUS
<1> HIDE DEF b
<1>2. x = [r EXCEPT !.enrolable = b]
  BY DEF Offer, b
<1> HIDE DEF x
<1>3. x \in DriveStates
  BY <1>1, <1>2 DEF DriveStates
<1>4. RecordOf(r)
  BY RecordIs
<1>5. x.activity = r.activity /\ x.fleet = r.fleet
  BY <1>2, <1>4 DEF RecordOf
<1>6. QED
  BY <1>3, <1>5 DEF x

LEMMA LooksIs ==
  ASSUME disk \in DiskStates, NEW r \in DriveStates
  PROVE  LooksAgain(r) \in DriveStates /\ LooksAgain(r).activity = r.activity /\ LooksAgain(r).fleet = r.fleet
<1> DEFINE x == LooksAgain(r)
           s == disk.slab
           m == disk.mounted
           u == disk.usable
<1>1. x = [r EXCEPT !.slab = s, !.mounted = m, !.usable = u]
  BY DEF LooksAgain
<1>2. s \in {"none", "fs", "member", "system", "raid", "data"} /\ m \in BOOLEAN /\ u \in BOOLEAN
  BY DEF DiskStates
<1> HIDE DEF x, s, m, u
<1>3. x \in DriveStates
  BY <1>1, <1>2 DEF DriveStates
<1>4. RecordOf(r)
  BY RecordIs
<1>5. x.activity = r.activity /\ x.fleet = r.fleet
  BY <1>1, <1>4 DEF RecordOf
<1>6. QED
  BY <1>3, <1>5 DEF x

LEMMA FreshIs == disk \in DiskStates => FreshRecord \in DriveStates /\ FreshRecord.activity = "idle" /\ ~FreshRecord.fleet
<1> SUFFICES ASSUME disk \in DiskStates
             PROVE  FreshRecord \in DriveStates /\ FreshRecord.activity = "idle" /\ ~FreshRecord.fleet
  OBVIOUS
<1> DEFINE s == disk.slab
           m == disk.mounted
           u == disk.usable
           n == disk.nvme
<1>1. s \in {"none", "fs", "member", "system", "raid", "data"} /\ m \in BOOLEAN /\ u \in BOOLEAN /\ n \in BOOLEAN
  BY DEF DiskStates
<1>2. FreshRecord = [fleet |-> FALSE, desig |-> "none", activity |-> "idle", health |-> "unknown", usable |-> u, hot |-> FALSE,
                     slab |-> s, mounted |-> m, enrolable |-> FALSE, nvme |-> n]
  BY DEF FreshRecord
<1> HIDE DEF s, m, u, n
<1>3. QED
  BY <1>1, <1>2 DEF DriveStates

\* One thing less may happen to a disk.
LEMMA OneChangeLess ==
  ASSUME NEW x \in DiskStates, x.changes > 0, NEW y, y = [x EXCEPT !.changes = x.changes - 1]
  PROVE  y \in DiskStates /\ y.here = x.here /\ y.slab = x.slab /\ y.mounted = x.mounted
<1> DEFINE n == x.changes - 1
<1>1. n \in Nat
  BY DEF DiskStates
<1>2. y = [x EXCEPT !.changes = n]
  OBVIOUS
<1> HIDE DEF n
<1>3. y \in DiskStates
  BY <1>1, <1>2 DEF DiskStates
<1>4. y.here = x.here /\ y.slab = x.slab /\ y.mounted = x.mounted
  BY <1>2 DEF DiskStates
<1>5. QED
  BY <1>3, <1>4

LEMMA OneRestartLess ==
  ASSUME NEW x \in DiskStates, x.restarts > 0, NEW y, y = [x EXCEPT !.restarts = x.restarts - 1]
  PROVE  y \in DiskStates /\ y.here = x.here /\ y.slab = x.slab /\ y.mounted = x.mounted
<1> DEFINE n == x.restarts - 1
<1>1. n \in Nat
  BY DEF DiskStates
<1>2. y = [x EXCEPT !.restarts = n]
  OBVIOUS
<1> HIDE DEF n
<1>3. y \in DiskStates
  BY <1>1, <1>2 DEF DiskStates
<1>4. y.here = x.here /\ y.slab = x.slab /\ y.mounted = x.mounted
  BY <1>2 DEF DiskStates
<1>5. QED
  BY <1>3, <1>4

\* A request that goes on to its next step.
LEMMA Moves ==
  ASSUME ActionTypes, NEW q \in Asks, NEW pc \in {"none", "go", "works", "over"}, NEW a \in Wanted \union {"none"}, To(q, pc, a)
  PROVE  /\ ask' \in [Asks -> [pc : {"none", "go", "works", "over"}, what : Wanted \union {"none"}]]
         /\ ask'[q].pc = pc /\ ask'[q].what = a /\ \A p \in Asks \ {q} : ask'[p] = ask[p]
  BY DEF ActionTypes, To

\* What its card offers, a request gets.
LEMMA OfferedTaken ==
  ASSUME ActsInv
  PROVE  OfferedIsTaken
<1> SUFFICES ASSUME d # None, NEW a \in Offered(d), ~(a = "enroll" /\ d # Offer(d)), ~(a = "cancel" /\ excused)
             PROVE  ~Refuses(a, d)
  BY DEF OfferedIsTaken
<1>1. RecordOf(d)
  BY RecordIs DEF ActsInv, ActionTypes
<1>2. a \in Wanted
  BY DEF Offered
<1>3. CASE a = "acknowledge"
  BY <1>3 DEF Offered, Refuses
<1>4. CASE a = "locate"
  BY <1>4 DEF Offered, Refuses
<1>5. CASE a = "join"
  BY <1>5 DEF Offered, Refuses
<1>6. CASE a = "leave"
  BY <1>6 DEF Offered, Refuses
<1>7. CASE a = "cancel"
  BY <1>7 DEF Offered, Refuses, ActsInv, ActivityIs
<1>8. CASE a = "smoke"
  BY <1>8 DEF Offered, Refuses
<1>9. CASE a = "destructive"
  BY <1>9 DEF Offered, Refuses
<1>10. CASE a = "enroll"
  <2> DEFINE b == ~OfferBlocked(d)
             y == d
  <2>1. d.enrolable
    BY <1>10 DEF Offered
  <2>2. y = [y EXCEPT !.enrolable = b]
    BY <1>10 DEF Offer
  <2>3. RecordOf(y)
    BY <1>1
  <2> HIDE DEF b, y
  <2>4. y.enrolable = b
    BY <2>2, <2>3 DEF RecordOf
  <2>5. ~OfferBlocked(d)
    BY <2>1, <2>4 DEF b, y
  <2>6. QED
    BY <1>10, <2>5 DEF Refuses
<1>11. CASE a = "format"
  BY <1>11 DEF Offered, Refuses
<1>12. CASE a = "forget"
  BY <1>12 DEF Offered, Refuses
<1>13. CASE a = "spare"
  BY <1>13 DEF Refuses, DesignationBlocked
<1>14. CASE a = "failed"
  BY <1>14 DEF Offered, Refuses
<1>15. CASE a = "system"
  BY <1>15 DEF Offered, Refuses
<1>16. CASE a = "clear"
  BY <1>16 DEF Refuses, DesignationBlocked
<1>17. a \in {"acknowledge", "locate", "join", "leave", "cancel", "smoke", "destructive", "enroll", "format", "forget",
              "spare", "failed", "system", "clear"}
  BY StartsAssumption, <1>2
<1>18. QED
  BY <1>3, <1>4, <1>5, <1>6, <1>7, <1>8, <1>9, <1>10, <1>11, <1>12, <1>13, <1>14, <1>15, <1>16, <1>17

LEMMA ActionsAreOK == ActsInv => ActionsOK
<1> SUFFICES ASSUME ActsInv
             PROVE  ActionsOK
  OBVIOUS
<1>1. OfferedIsTaken
  BY OfferedTaken
<1>2. DestroysOnlyFree
  BY DEF ActsInv, FreeStill, Under, DestroysOnlyFree
<1>3. TestsAreTold
  <2>1. \A q \in Asks : test[q].state = "passed" => test[q].at = Regions /\ test[q].errors = 0
    BY DEF ActsInv, AskKinds
  <2>2. ~excused /\ d # None => /\ d.activity = "testing" => \E q \in Asks : test[q].state = "running"
                                /\ d.activity = "idle" => \A q \in Asks : ask[q].pc # "works"
    BY DEF ActsInv, ActionTypes, ActivityIs
  <2>3. QED
    BY <2>1, <2>2 DEF TestsAreTold
<1>4. QED
  BY <1>1, <1>2, <1>3 DEF ActionsOK

\* A request that is answered at once, or refused.
LEMMA OverAtOnce ==
  ASSUME ActsInv, NEW q \in Asks, NEW a \in Wanted, ~Under(q), test[q].state # "running",
         To(q, "over", a), UNCHANGED <<disk, shown, excused>>,
         test' = [p \in Asks |-> test'[p]],
         \A p \in Asks : /\ TestShape(test'[p]) /\ test'[p].state = test[p].state
                         /\ test'[p].at = test[p].at /\ test'[p].errors = test[p].errors,
         d' # None => d' \in DriveStates /\ d # None /\ d'.activity = d.activity /\ d'.fleet = d.fleet,
         d' = None => d = None \/ Missing(d)
  PROVE  ActsInv'
<1>1. ActionTypes /\ AskKinds
  BY DEF ActsInv
<1>2. /\ ask' \in [Asks -> [pc : {"none", "go", "works", "over"}, what : Wanted \union {"none"}]]
      /\ ask'[q].pc = "over" /\ \A p \in Asks \ {q} : ask'[p] = ask[p]
  BY <1>1, Moves
<1>3. ActionTypes'
  BY <1>1, <1>2 DEF ActionTypes
<1>4. ~Under(q)' /\ \A p \in Asks \ {q} : Under(p)' = Under(p)
  BY <1>2 DEF Under
<1>5. AskKinds'
  BY <1>1, <1>2, <1>4 DEF AskKinds
<1>6. ASSUME ~excused
      PROVE  OneAtATime' /\ AwayIsGone' /\ FreeStill' /\ ActivityIs'
  <2>1. OneAtATime /\ AwayIsGone /\ FreeStill /\ ActivityIs
    BY <1>6 DEF ActsInv
  <2>2. OneAtATime'
    BY <1>4, <2>1 DEF OneAtATime
  <2>3. AwayIsGone'
    BY <1>2, <1>4, <2>1 DEF AwayIsGone, Missing
  <2>4. FreeStill'
    BY <1>2, <1>4, <2>1 DEF FreeStill
  <2>5. ActivityIs'
    BY <1>1, <1>2, <2>1 DEF ActivityIs, ActionTypes
  <2>6. QED
    BY <2>2, <2>3, <2>4, <2>5
<1>7. QED
  BY <1>3, <1>5, <1>6 DEF ActsInv

LEMMA Answered == ASSUME ActsInv, NEW q \in Asks, NEW a \in Wanted, AtOnce(q, a) PROVE ActsInv'
<1>1. /\ ask[q].pc = "none" /\ d # None /\ ~Refuses(a, d) /\ To(q, "over", a) /\ UNCHANGED <<disk, shown, excused>>
  BY DEF AtOnce
<1>2. ActionTypes /\ AskKinds
  BY DEF ActsInv
<1>3. ~Under(q) /\ test[q].state # "running"
  BY <1>1, <1>2 DEF Under, AskKinds
<1>4. test' = [p \in Asks |-> test'[p]]
      /\ \A p \in Asks : /\ TestShape(test'[p]) /\ test'[p].state = test[p].state
                         /\ test'[p].at = test[p].at /\ test'[p].errors = test[p].errors
  <2>1. CASE a = "cancel"
    <3>1. test' = [test EXCEPT ![shown].cancel = TRUE]
      BY <2>1 DEF AtOnce
    <3>2. shown \in Asks
      BY <1>1, <1>2, <2>1 DEF Refuses, ActionTypes
    <3> DEFINE t == test[shown]
               x == [t EXCEPT !.cancel = TRUE]
    <3>3. TestShape(t)
      BY <1>2, <3>2 DEF ActionTypes
    <3>4. test' = [test EXCEPT ![shown] = x]
      BY <3>1
    <3>5. x = [t EXCEPT !.cancel = TRUE]
      OBVIOUS
    <3> HIDE DEF x
    <3>6. TestShape(x) /\ x.state = t.state /\ x.at = t.at /\ x.errors = t.errors
      <4> HIDE DEF t
      <4>1. x = [state |-> t.state, cancel |-> TRUE, at |-> t.at, errors |-> t.errors]
        BY <3>3, <3>5 DEF TestShape
      <4>2. QED
        BY <4>1 DEF TestShape
    <3>7. QED
      BY <1>2, <3>2, <3>4, <3>6 DEF ActionTypes
  <2>2. CASE a # "cancel"
    BY <1>2, <2>2 DEF AtOnce, ActionTypes
  <2>3. QED
    BY <2>1, <2>2
<1>5. /\ d' # None => d' \in DriveStates /\ d'.activity = d.activity /\ d'.fleet = d.fleet
      /\ d' = None => Missing(d)
  <2>1. d \in DriveStates
    BY <1>1, <1>2 DEF ActionTypes
  <2>2. CASE a \in {"spare", "failed", "system"}
    <3>1. d' = [d EXCEPT !.desig = a]
      BY <2>2 DEF AtOnce
    <3>2. QED
      BY <2>1, <2>2, <3>1, Designated, RecordIs
  <2>3. CASE a = "clear"
    <3>1. d' = [d EXCEPT !.desig = "none"]
      BY <2>3 DEF AtOnce
    <3>2. QED
      BY <2>1, <3>1, Designated, RecordIs
  <2>4. CASE a = "forget"
    BY <1>1, <2>4 DEF AtOnce, Refuses
  <2>5. CASE a \notin {"spare", "failed", "system", "clear", "forget"}
    <3>1. d' = d
      BY <2>5 DEF AtOnce
    <3>2. QED
      BY <1>1, <2>1, <3>1
  <2>6. QED
    BY <2>2, <2>3, <2>4, <2>5
<1>6. QED
  BY <1>1, <1>3, <1>4, <1>5, OverAtOnce

LEMMA RequestRefused == ASSUME ActsInv, NEW q \in Asks, NEW a \in Wanted, Refused(q, a) PROVE ActsInv'
<1>1. ask[q].pc = "none" /\ To(q, "over", a) /\ UNCHANGED <<d, disk, test, shown, excused>>
  BY DEF Refused
<1>2. ~Under(q) /\ test[q].state # "running"
  BY <1>1 DEF Under, ActsInv, AskKinds
<1>3. test' = [p \in Asks |-> test'[p]] /\ \A p \in Asks : TestShape(test'[p])
  BY <1>1 DEF ActsInv, ActionTypes
<1>4. d' # None => d' \in DriveStates /\ d # None /\ d'.activity = d.activity /\ d'.fleet = d.fleet
  BY <1>1 DEF ActsInv, ActionTypes
<1>5. QED
  BY <1>1, <1>2, <1>3, <1>4, OverAtOnce

LEMMA RequestTaken == ASSUME ActsInv, NEW q \in Asks, NEW a \in Wanted, Take(q, a) PROVE ActsInv'
<1>1. /\ ask[q].pc = "none" /\ a \in Tests \union {"format", "join", "leave"} /\ d # None /\ ~Refuses(a, d) /\ ~LookRefuses(a)
      /\ To(q, "go", a) /\ UNCHANGED <<d, disk, test, shown>>
      /\ excused' = (excused \/ Pending)
  BY DEF Take
<1>2. ActionTypes /\ AskKinds
  BY DEF ActsInv
<1>3. /\ ask' \in [Asks -> [pc : {"none", "go", "works", "over"}, what : Wanted \union {"none"}]]
      /\ ask'[q].pc = "go" /\ ask'[q].what = a /\ \A p \in Asks \ {q} : ask'[p] = ask[p]
  BY <1>1, <1>2, Moves
<1>4. ActionTypes'
  BY <1>1, <1>2, <1>3 DEF ActionTypes
<1>5. AskKinds'
  BY <1>1, <1>2, <1>3 DEF AskKinds, Under
<1>6. ASSUME ~excused'
      PROVE  OneAtATime' /\ AwayIsGone' /\ FreeStill' /\ ActivityIs'
  <2>1. ~excused /\ \A p \in Asks : ~Under(p)
    BY <1>1, <1>6 DEF Pending, Under
  <2>2. \A p \in Asks \ {q} : ~Under(p)'
    BY <1>3, <2>1 DEF Under
  <2>3. OneAtATime'
    BY <2>2 DEF OneAtATime
  <2>4. a # "leave" => d.activity = "idle"
    BY <1>1 DEF Refuses, Tests, JoinBlocked, FormatBlocked, Idle
  <2>5. AwayIsGone'
    BY <1>1, <1>3, <2>2, <2>4 DEF AwayIsGone, Missing
  <2>6. a \in Destroys => ~Held(disk.slab) /\ ~disk.mounted /\ ~d.fleet
    <3>1. a \in Destroys => ~Held(disk.slab) /\ ~disk.mounted /\ ~InUse(d)
      BY <1>1 DEF Destroys, LookRefuses, Refuses, DestructiveTestBlocked, FormatBlocked
    <3>2. ~InUse(d) => ~d.fleet
      BY DEF InUse, Use
    <3>3. QED
      BY <3>1, <3>2
  <2>7. FreeStill'
    BY <1>1, <1>3, <2>2, <2>6 DEF FreeStill
  <2>8. ActivityIs'
    BY <1>1, <1>3, <2>1 DEF ActsInv, ActivityIs
  <2>9. QED
    BY <2>3, <2>5, <2>7, <2>8
<1>7. QED
  BY <1>4, <1>5, <1>6 DEF ActsInv

\* The drive's record when its activity is set, if it has one.
LEMMA Marked ==
  ASSUME ActionTypes, NEW a \in Activities, d' = IF d = None THEN None ELSE [d EXCEPT !.activity = a]
  PROVE  /\ d' = None <=> d = None
         /\ d' # None => d' \in DriveStates /\ d'.activity = a /\ d'.fleet = d.fleet
  BY Becomes, RecordIs DEF ActionTypes

\* A request alone begins its work: the drive reads as what is done with it.
LEMMA Begins ==
  ASSUME ActsInv, NEW q \in Asks, NEW a \in Activities, a \notin {"idle", "missing"},
         ask[q].pc = "go", ask[q].what \in Tests \union {"format"}, To(q, "works", ask[q].what),
         d' = (IF d = None THEN None ELSE [d EXCEPT !.activity = a]), UNCHANGED <<disk, excused>>,
         test' = [p \in Asks |-> test'[p]], \A p \in Asks : TestShape(test'[p]),
         ask[q].what \in Tests => test'[q].state = "running" /\ shown' = q,
         ask[q].what = "format" => test'[q] = test[q] /\ shown' = shown /\ a = "formatting",
         \A p \in Asks \ {q} : test'[p] = test[p]
  PROVE  ActsInv'
<1>1. ActionTypes /\ AskKinds
  BY DEF ActsInv
<1>2. ask[q].what \in Wanted \union {"none"}
  BY <1>1 DEF ActionTypes
<1>3. /\ ask' \in [Asks -> [pc : {"none", "go", "works", "over"}, what : Wanted \union {"none"}]]
      /\ ask'[q].pc = "works" /\ ask'[q].what = ask[q].what /\ \A p \in Asks \ {q} : ask'[p] = ask[p]
  BY <1>1, <1>2, Moves
<1>4. /\ d' = None <=> d = None
      /\ d' # None => d' \in DriveStates /\ d'.activity = a /\ d'.fleet = d.fleet
  BY <1>1, Marked
<1>5. ActionTypes'
  BY <1>1, <1>3, <1>4 DEF ActionTypes
<1>6. Under(q) /\ \A p \in Asks : Under(p)' = Under(p)
  BY <1>3 DEF Under
<1>7. "format" \notin Tests
  BY DEF Tests
<1>8. AskKinds'
  BY <1>1, <1>3, <1>6, <1>7 DEF AskKinds
<1>9. ASSUME ~excused
      PROVE  OneAtATime' /\ AwayIsGone' /\ FreeStill' /\ ActivityIs'
  <2>1. OneAtATime /\ AwayIsGone /\ FreeStill /\ ActivityIs
    BY <1>9 DEF ActsInv
  <2>2. OneAtATime'
    BY <1>6, <2>1 DEF OneAtATime
  <2>3. AwayIsGone'
    BY <1>3, <1>4, <1>6, <2>1 DEF AwayIsGone, Missing
  <2>4. FreeStill'
    BY <1>3, <1>4, <1>6, <2>1 DEF FreeStill
  <2>5. ActivityIs'
    BY <1>4, <1>7, StartsAssumption DEF ActivityIs
  <2>6. QED
    BY <2>2, <2>3, <2>4, <2>5
<1>10. QED
  BY <1>5, <1>8, <1>9 DEF ActsInv

LEMMA TestBegins == ASSUME ActsInv, NEW q \in Asks, StartTest(q) PROVE ActsInv'
<1> DEFINE run == [NoTest EXCEPT !.state = "running"]
<1>1. /\ ask[q].pc = "go" /\ ask[q].what \in Tests /\ test' = [test EXCEPT ![q] = run] /\ shown' = q
      /\ d' = (IF d = None THEN None ELSE [d EXCEPT !.activity = "testing"])
      /\ To(q, "works", ask[q].what) /\ UNCHANGED <<disk, excused>>
  BY DEF StartTest
<1>2. TestShape(run) /\ run.state = "running"
  <2> DEFINE n == NoTest
  <2>1. n = [state |-> "none", cancel |-> FALSE, at |-> 0, errors |-> 0] /\ run = [n EXCEPT !.state = "running"]
    BY DEF NoTest
  <2> HIDE DEF run, n
  <2>2. run = [state |-> "running", cancel |-> FALSE, at |-> 0, errors |-> 0]
    BY <2>1
  <2>3. QED
    BY <2>2 DEF TestShape
<1> HIDE DEF run
<1>3. /\ test' = [p \in Asks |-> test'[p]] /\ \A p \in Asks : TestShape(test'[p])
      /\ test'[q].state = "running" /\ \A p \in Asks \ {q} : test'[p] = test[p]
  BY <1>1, <1>2 DEF ActsInv, ActionTypes
<1>4. "testing" \in Activities /\ "format" \notin Tests
  BY DEF Activities, Tests
<1>5. QED
  BY <1>1, <1>3, <1>4, Begins

LEMMA FormatStarts == ASSUME ActsInv, NEW q \in Asks, StartFormat(q) PROVE ActsInv'
<1>1. /\ ask[q].pc = "go" /\ ask[q].what = "format" /\ To(q, "works", ask[q].what)
      /\ d' = (IF d = None THEN None ELSE [d EXCEPT !.activity = "formatting"])
      /\ UNCHANGED <<disk, test, shown, excused>>
  BY DEF StartFormat
<1>2. test' = [p \in Asks |-> test'[p]] /\ \A p \in Asks : TestShape(test'[p])
  BY <1>1 DEF ActsInv, ActionTypes
<1>3. "formatting" \in Activities /\ "format" \notin Tests
  BY DEF Activities, Tests
<1>4. QED
  BY <1>1, <1>2, <1>3, Begins

\* A request comes to its end: nobody else was under way, and no test is left.
LEMMA RequestOver ==
  ASSUME ActsInv, NEW q \in Asks, Under(q), To(q, "over", ask[q].what), UNCHANGED <<shown, excused>>,
         d' # None => d' \in DriveStates, disk' \in DiskStates,
         test' = [p \in Asks |-> test'[p]], TestShape(test'[q]), test'[q].state # "running",
         test'[q].state = "passed" => test'[q].at = Regions /\ test'[q].errors = 0,
         \A p \in Asks \ {q} : test'[p] = test[p],
         ~excused /\ d' # None => d'.activity # "testing"
  PROVE  ActsInv'
<1>1. ActionTypes /\ AskKinds
  BY DEF ActsInv
<1>2. ask[q].what \in Wanted \union {"none"}
  BY <1>1 DEF ActionTypes
<1>3. /\ ask' \in [Asks -> [pc : {"none", "go", "works", "over"}, what : Wanted \union {"none"}]]
      /\ ask'[q].pc = "over" /\ ask'[q].what = ask[q].what /\ \A p \in Asks \ {q} : ask'[p] = ask[p]
  BY <1>1, <1>2, Moves
<1>4. ActionTypes'
  BY <1>1, <1>3 DEF ActionTypes
<1>5. AskKinds'
  BY <1>1, <1>3 DEF AskKinds, Under
<1>6. ASSUME ~excused
      PROVE  OneAtATime' /\ AwayIsGone' /\ FreeStill' /\ ActivityIs'
  <2>1. \A p \in Asks : ~Under(p)' /\ ask'[p].pc # "works"
    BY <1>3, <1>6 DEF ActsInv, OneAtATime, Under
  <2>2. OneAtATime' /\ AwayIsGone' /\ FreeStill'
    BY <2>1 DEF OneAtATime, AwayIsGone, FreeStill
  <2>3. ActivityIs'
    BY <1>6, <2>1 DEF ActivityIs
  <2>4. QED
    BY <2>2, <2>3
<1>7. QED
  BY <1>4, <1>5, <1>6 DEF ActsInv

\* While a request is under way that is no test, no drive reads testing.
LEMMA NoTestRuns ==
  ASSUME ActsInv, NEW q \in Asks, Under(q), test[q].state # "running", ~excused, d # None
  PROVE  d.activity # "testing"
<1>1. SUFFICES ASSUME d.activity = "testing"
               PROVE  FALSE
  OBVIOUS
<1>2. shown \in Asks /\ test[shown].state = "running"
  BY <1>1 DEF ActsInv, ActivityIs, ActionTypes
<1>3. Under(shown)
  BY <1>2 DEF ActsInv, AskKinds, Under
<1>4. QED
  BY <1>2, <1>3 DEF ActsInv, OneAtATime

LEMMA InOrOut == ASSUME ActsInv, NEW q \in Asks, JoinOrLeave(q) PROVE ActsInv'
<1> DEFINE joins == ask[q].what = "join"
           slab == IF ask[q].what = "join" /\ disk.slab = "none" THEN "member" ELSE disk.slab
<1>1. /\ ask[q].pc = "go" /\ To(q, "over", ask[q].what) /\ UNCHANGED <<test, shown, excused>>
      /\ d' = (IF d = None THEN None ELSE [d EXCEPT !.fleet = joins])
      /\ disk' = [disk EXCEPT !.slab = slab]
  BY DEF JoinOrLeave
<1>2. ActionTypes /\ AskKinds
  BY DEF ActsInv
<1>3. Under(q) /\ test[q].state # "running"
  BY <1>1, <1>2 DEF Under, AskKinds
<1>4. disk' \in DiskStates
  <2>1. disk \in DiskStates
    BY <1>2 DEF ActionTypes
  <2>2. slab \in {"none", "fs", "member", "system", "raid", "data"}
    BY <2>1 DEF DiskStates
  <2> HIDE DEF slab
  <2>3. QED
    BY <1>1, <2>1, <2>2 DEF DiskStates
<1>5. d # None => d' \in DriveStates /\ d'.activity = d.activity
  <2>1. SUFFICES ASSUME d # None
                 PROVE  d' \in DriveStates /\ d'.activity = d.activity
    OBVIOUS
  <2>2. joins \in BOOLEAN
    OBVIOUS
  <2> HIDE DEF joins
  <2> DEFINE r == d
             x == d'
  <2>3. r \in DriveStates /\ RecordOf(r) /\ x = [r EXCEPT !.fleet = joins]
    BY <1>1, <1>2, <2>1, RecordIs DEF ActionTypes
  <2> HIDE DEF r, x
  <2>4. x \in DriveStates
    BY <2>2, <2>3 DEF DriveStates
  <2>5. x.activity = r.activity
    BY <2>3 DEF RecordOf
  <2>6. QED
    BY <2>4, <2>5 DEF r, x
<1>6. ~excused /\ d # None => d.activity # "testing"
  BY <1>3, NoTestRuns
<1>7. test' = [p \in Asks |-> test'[p]] /\ TestShape(test'[q]) /\ \A p \in Asks : test'[p] = test[p]
  BY <1>1, <1>2 DEF ActionTypes
<1>8. test[q].state # "passed" \/ (test[q].at = Regions /\ test[q].errors = 0)
  BY <1>2 DEF AskKinds
<1>9. d' # None => d # None
  BY <1>1
<1>10. QED
  BY <1>1, <1>3, <1>4, <1>5, <1>6, <1>7, <1>8, <1>9, RequestOver

LEMMA RegionRead == ASSUME ActsInv, NEW q \in Asks, ReadRegion(q) PROVE ActsInv'
<1>1. PICK e : test' = [test EXCEPT ![q].at = @ + 1, ![q].errors = @ + e]
  BY DEF ReadRegion
<1>2. test[q].state = "running" /\ UNCHANGED <<d, disk, ask, shown, excused>>
  BY DEF ReadRegion
<1>3. ActionTypes /\ AskKinds
  BY DEF ActsInv
<1> DEFINE t == test[q]
           l == t.at + 1
           f == t.errors + e
           x == [t EXCEPT !.at = l, !.errors = f]
<1>4. test' = [test EXCEPT ![q] = x]
  BY <1>1
<1> HIDE DEF l, f
<1>5. x = [t EXCEPT !.at = l, !.errors = f] /\ TestShape(t)
  BY <1>3 DEF ActionTypes
<1> HIDE DEF x
<1>6. TestShape(x) /\ x.state = t.state
  <2> HIDE DEF t
  <2>1. x = [state |-> t.state, cancel |-> t.cancel, at |-> l, errors |-> f]
    BY <1>5 DEF TestShape
  <2>2. QED
    BY <2>1 DEF TestShape
<1>7. /\ test' = [p \in Asks |-> test'[p]]
      /\ test'[q] = x /\ \A p \in Asks \ {q} : test'[p] = test[p]
  BY <1>3, <1>4 DEF ActionTypes
<1> HIDE DEF t
<1>8. \A p \in Asks : TestShape(test'[p]) /\ test'[p].state = test[p].state
  BY <1>3, <1>6, <1>7 DEF ActionTypes, t
<1>9. ActionTypes'
  BY <1>2, <1>3, <1>7, <1>8 DEF ActionTypes
<1>10. \A p \in Asks : Under(p)' = Under(p)
  BY <1>2 DEF Under
<1>11. AskKinds'
  BY <1>2, <1>3, <1>7, <1>8, <1>10 DEF AskKinds
<1>12. ASSUME ~excused
       PROVE  OneAtATime' /\ AwayIsGone' /\ FreeStill' /\ ActivityIs'
  <2>1. OneAtATime /\ AwayIsGone /\ FreeStill /\ ActivityIs
    BY <1>12 DEF ActsInv
  <2>2. OneAtATime' /\ FreeStill'
    BY <1>2, <1>10, <2>1 DEF OneAtATime, FreeStill
  <2>3. AwayIsGone'
    BY <1>2, <1>10, <2>1 DEF AwayIsGone, Missing
  <2>4. ActivityIs'
    BY <1>2, <1>3, <1>8, <2>1 DEF ActivityIs, ActionTypes
  <2>5. QED
    BY <2>2, <2>3, <2>4
<1>13. QED
  BY <1>2, <1>9, <1>11, <1>12 DEF ActsInv

LEMMA TestOver == ASSUME ActsInv, NEW q \in Asks, EndTest(q) PROVE ActsInv'
<1> DEFINE t == test[q]
           v == Verdict(t)
           x == [t EXCEPT !.state = v]
           a == IF Missing(d) THEN d.activity ELSE "idle"
<1>1. /\ t.state = "running" /\ (t.cancel \/ t.at = Regions \/ t.errors >= MaxErrors)
      /\ test' = [test EXCEPT ![q] = x] /\ To(q, "over", ask[q].what) /\ UNCHANGED <<disk, shown, excused>>
      /\ d' = (IF d = None THEN None ELSE [d EXCEPT !.activity = a])
  BY DEF EndTest
<1>2. ActionTypes /\ AskKinds
  BY DEF ActsInv
<1>3. Under(q)
  BY <1>1, <1>2 DEF AskKinds, Under
<1>4. v # "running" /\ (v = "passed" => t.at = Regions /\ t.errors = 0)
  <2>1. v = "passed" => ~t.cancel /\ t.errors = 0
    BY DEF Verdict
  <2>2. ~(0 >= MaxErrors)
    BY StartsAssumption
  <2>3. v = "passed" => t.at = Regions
    BY <1>1, <2>1, <2>2
  <2>4. v # "running"
    BY DEF Verdict
  <2>5. QED
    BY <2>1, <2>3, <2>4
<1>5. TestShape(t) /\ x = [t EXCEPT !.state = v]
  BY <1>2 DEF ActionTypes
<1> HIDE DEF v, x
<1>6. TestShape(x) /\ x.state = v /\ x.at = t.at /\ x.errors = t.errors
  <2> HIDE DEF t
  <2>1. x = [state |-> v, cancel |-> t.cancel, at |-> t.at, errors |-> t.errors]
    BY <1>5 DEF TestShape
  <2>2. QED
    BY <2>1 DEF TestShape
<1>7. /\ test' = [p \in Asks |-> test'[p]] /\ test'[q] = x /\ \A p \in Asks \ {q} : test'[p] = test[p]
  BY <1>1, <1>2 DEF ActionTypes
<1>8. a \in {"idle", "missing"}
  BY DEF Missing
<1> HIDE DEF a
<1>9. d' # None => d' \in DriveStates /\ d'.activity = a
  BY <1>1, <1>2, <1>8, Marked DEF Activities
<1>10. disk' \in DiskStates
  BY <1>1, <1>2 DEF ActionTypes
<1>11. QED
  BY <1>1, <1>3, <1>4, <1>6, <1>7, <1>8, <1>9, <1>10, RequestOver

LEMMA FormatOver == ASSUME ActsInv, NEW q \in Asks, EndFormat(q) PROVE ActsInv'
<1>1. PICK ok \in BOOLEAN :
         /\ d' = (IF d = None THEN None
                  ELSE [d EXCEPT !.activity = IF d.activity = "formatting" THEN "idle" ELSE d.activity, !.usable = d.usable \/ ok])
         /\ disk' = [disk EXCEPT !.slab = IF ok THEN "none" ELSE disk.slab, !.usable = disk.usable \/ ok]
  BY DEF EndFormat
<1>2. /\ ask[q].pc = "works" /\ ask[q].what = "format" /\ To(q, "over", ask[q].what) /\ UNCHANGED <<test, shown, excused>>
  BY DEF EndFormat
<1>3. ActionTypes /\ AskKinds
  BY DEF ActsInv
<1>4. Under(q) /\ test[q].state # "running"
  BY <1>2, <1>3 DEF Under, AskKinds, Tests
<1>5. disk' \in DiskStates
  <2> DEFINE slab == IF ok THEN "none" ELSE disk.slab
             u == disk.usable \/ ok
  <2>1. disk \in DiskStates
    BY <1>3 DEF ActionTypes
  <2>2. slab \in {"none", "fs", "member", "system", "raid", "data"} /\ u \in BOOLEAN
    BY <2>1 DEF DiskStates
  <2>3. disk' = [disk EXCEPT !.slab = slab, !.usable = u]
    BY <1>1
  <2> HIDE DEF slab, u
  <2>4. QED
    BY <2>1, <2>2, <2>3 DEF DiskStates
<1>6. d # None => d' \in DriveStates /\ (d'.activity = "idle" \/ d'.activity = d.activity)
  <2>1. SUFFICES ASSUME d # None
                 PROVE  d' \in DriveStates /\ (d'.activity = "idle" \/ d'.activity = d.activity)
    OBVIOUS
  <2> DEFINE r == d
             x == d'
             a == IF r.activity = "formatting" THEN "idle" ELSE r.activity
             u == r.usable \/ ok
  <2>2. r \in DriveStates /\ RecordOf(r) /\ x = [r EXCEPT !.activity = a, !.usable = u]
    BY <1>1, <1>3, <2>1, RecordIs DEF ActionTypes
  <2>3. a \in Activities /\ u \in BOOLEAN /\ (a = "idle" \/ a = r.activity)
    BY <2>2 DEF DriveStates, Activities
  <2> HIDE DEF r, x, a, u
  <2>4. x \in DriveStates
    BY <2>2, <2>3 DEF DriveStates, Activities
  <2>5. x.activity = a
    BY <2>2 DEF RecordOf
  <2>6. QED
    BY <2>3, <2>4, <2>5 DEF r, x
<1>7. ~excused /\ d # None => d.activity # "testing"
  BY <1>4, NoTestRuns
<1>8. test' = [p \in Asks |-> test'[p]] /\ TestShape(test'[q]) /\ \A p \in Asks : test'[p] = test[p]
  BY <1>2, <1>3 DEF ActionTypes
<1>9. test[q].state # "passed" \/ (test[q].at = Regions /\ test[q].errors = 0)
  BY <1>3 DEF AskKinds
<1>10. d' # None => d # None
  BY <1>1
<1>11. ~excused /\ d' # None => d'.activity # "testing"
  BY <1>6, <1>7, <1>10
<1>12. QED
  BY <1>2, <1>4, <1>5, <1>6, <1>8, <1>9, <1>10, <1>11, RequestOver

\* What goes on around the requests: they stay as they are.
LEMMA Around ==
  ASSUME ActsInv, UNCHANGED <<ask, test, shown>>, d' # None => d' \in DriveStates, disk' \in DiskStates,
         ~excused' => /\ ~excused
                      /\ \A q \in Asks : Under(q) => /\ disk'.here = disk.here /\ disk'.slab = disk.slab /\ disk'.mounted = disk.mounted
                      /\ d' # None /\ d'.fleet => d # None /\ d.fleet
                      /\ d' = None \/ Missing(d') => d = None \/ Missing(d) \/ ~disk.here
                      /\ d' # None => \/ d'.activity = "missing" \/ (d # None /\ d'.activity = d.activity)
                                      \/ d'.activity = "idle" /\ (d = None \/ Missing(d)) /\ disk.here
  PROVE  ActsInv'
<1>1. ActionTypes /\ AskKinds
  BY DEF ActsInv
<1>2. ActionTypes'
  BY <1>1 DEF ActionTypes
<1>3. \A q \in Asks : Under(q)' = Under(q)
  BY DEF Under
<1>4. AskKinds'
  BY <1>1, <1>3 DEF AskKinds
<1>5. ASSUME ~excused'
      PROVE  OneAtATime' /\ AwayIsGone' /\ FreeStill' /\ ActivityIs'
  <2>1. OneAtATime /\ AwayIsGone /\ FreeStill /\ ActivityIs
    BY <1>5 DEF ActsInv
  <2>2. OneAtATime'
    BY <1>3, <2>1 DEF OneAtATime
  <2>3. AwayIsGone'
    BY <1>3, <1>5, <2>1 DEF AwayIsGone
  <2>4. FreeStill'
    BY <1>3, <1>5, <2>1 DEF FreeStill
  <2>5. ASSUME d' # None, d'.activity = "testing"
        PROVE  shown # None /\ test[shown].state = "running"
    BY <1>5, <2>1, <2>5 DEF ActivityIs
  <2>6. ASSUME d' # None, d'.activity = "idle", NEW q \in Asks
        PROVE  ask[q].pc # "works"
    <3>1. CASE d # None /\ d.activity = "idle"
      BY <2>1, <3>1 DEF ActivityIs
    <3>2. CASE (d = None \/ Missing(d)) /\ disk.here
      <4>1. ask[q].pc = "works" => Under(q) /\ ask[q].what # "leave"
        BY <1>1 DEF AskKinds, Under, Tests
      <4>2. QED
        BY <2>1, <3>2, <4>1 DEF AwayIsGone
    <3>3. QED
      BY <1>5, <2>6, <3>1, <3>2
  <2>7. ActivityIs'
    BY <2>5, <2>6 DEF ActivityIs
  <2>8. QED
    BY <2>2, <2>3, <2>4, <2>7
<1>6. QED
  BY <1>2, <1>4, <1>5 DEF ActsInv

LEMMA Rescanned == ASSUME ActsInv, Rescan PROVE ActsInv'
<1>1. ActionTypes /\ disk \in DiskStates
  BY DEF ActsInv, ActionTypes
<1>2. UNCHANGED <<disk, ask, test, shown, excused>>
  BY DEF Rescan
<1>3. CASE d = None /\ ~disk.here
  <2>1. d' = None
    BY <1>3 DEF Rescan
  <2>2. QED
    BY <1>1, <1>2, <1>3, <2>1, Around
<1>4. CASE d = None /\ disk.here
  <2>1. d' = Offer(FreshRecord)
    BY <1>4 DEF Rescan
  <2>2. d' \in DriveStates /\ d'.activity = "idle" /\ ~d'.fleet
    BY <1>1, <2>1, FreshIs, OfferIs
  <2>3. d' # None /\ ~Missing(d')
    BY <2>2, RecordIs DEF Missing
  <2>4. QED
    BY <1>1, <1>2, <1>4, <2>2, <2>3, Around
<1>5. CASE d # None /\ ~disk.here
  <2> DEFINE r == [d EXCEPT !.activity = "missing"]
  <2>1. d' = Offer(r)
    BY <1>5 DEF Rescan
  <2>2. r \in DriveStates /\ r.activity = "missing" /\ r.fleet = d.fleet
    BY <1>1, <1>5, Becomes DEF ActionTypes, Activities
  <2> HIDE DEF r
  <2>3. d' \in DriveStates /\ d'.activity = "missing" /\ d'.fleet = d.fleet
    BY <2>1, <2>2, OfferIs
  <2>4. QED
    BY <1>1, <1>2, <1>5, <2>3, Around
<1>6. CASE d # None /\ disk.here
  <2> DEFINE r == IF d.activity = "formatting" THEN d ELSE LooksAgain(d)
             a == IF r.activity = "missing" THEN "idle" ELSE r.activity
             x == [r EXCEPT !.activity = a]
  <2>1. d' = Offer(x)
    BY <1>6 DEF Rescan
  <2>2. r \in DriveStates /\ r.activity = d.activity /\ r.fleet = d.fleet
    BY <1>1, <1>6, LooksIs DEF ActionTypes
  <2> HIDE DEF r
  <2>3. a \in Activities /\ a # "missing" /\ (a = d.activity \/ (d.activity = "missing" /\ a = "idle"))
    BY <2>2 DEF DriveStates, Activities
  <2> HIDE DEF a
  <2>4. x \in DriveStates /\ x.activity = a /\ x.fleet = r.fleet
    BY <2>2, <2>3, Becomes
  <2> HIDE DEF x
  <2>5. d' \in DriveStates /\ d'.activity = a /\ d'.fleet = d.fleet
    BY <2>1, <2>2, <2>4, OfferIs
  <2>6. d' # None /\ ~Missing(d')
    BY <2>3, <2>5, RecordIs DEF Missing
  <2>7. QED
    BY <1>1, <1>2, <1>6, <2>3, <2>5, <2>6, Around DEF Missing
<1>7. QED
  BY <1>3, <1>4, <1>5, <1>6

LEMMA HealthJudged == ASSUME ActsInv, JudgeHealth PROVE ActsInv'
<1>1. PICK h \in Verdicts : d' = [d EXCEPT !.health = h]
  BY DEF JudgeHealth
<1>2. d # None /\ disk.changes > 0 /\ disk' = [disk EXCEPT !.changes = disk.changes - 1] /\ UNCHANGED <<ask, test, shown, excused>>
  BY DEF JudgeHealth
<1>3. d \in DriveStates /\ disk \in DiskStates
  BY <1>2 DEF ActsInv, ActionTypes
<1>4. d' \in DriveStates /\ d'.activity = d.activity /\ d'.fleet = d.fleet
  <2> DEFINE r == d
             x == d'
  <2>1. r \in DriveStates /\ RecordOf(r) /\ x = [r EXCEPT !.health = h]
    BY <1>1, <1>3, RecordIs
  <2> HIDE DEF r, x
  <2>2. x \in DriveStates
    BY <2>1 DEF DriveStates, Verdicts
  <2>3. x.activity = r.activity /\ x.fleet = r.fleet
    BY <2>1 DEF RecordOf
  <2>4. QED
    BY <2>2, <2>3 DEF r, x
<1>5. disk' \in DiskStates /\ disk'.here = disk.here /\ disk'.slab = disk.slab /\ disk'.mounted = disk.mounted
  BY <1>2, <1>3, OneChangeLess
<1>6. d' # None
  BY <1>4, RecordIs
<1>7. QED
  BY <1>2, <1>4, <1>5, <1>6, Around DEF Missing

LEMMA DiskChanged == ASSUME ActsInv, ChangeDisk PROVE ActsInv'
<1>1. disk.changes > 0 /\ disk \in DiskStates /\ UNCHANGED <<d, ask, test, shown>> /\ excused' = (excused \/ Pending)
  BY DEF ChangeDisk, ActsInv, ActionTypes
<1>2. disk' \in DiskStates
  <2> DEFINE c == disk.changes - 1
             m == ~disk.mounted
             h == ~disk.here
  <2>1. c \in Nat
    BY <1>1 DEF DiskStates
  <2>2. m \in BOOLEAN /\ h \in BOOLEAN
    OBVIOUS
  <2>3. \/ \E s \in {"fs", "data", "raid"} : disk' = [disk EXCEPT !.slab = s, !.changes = c]
        \/ disk' = [disk EXCEPT !.mounted = m, !.changes = c]
        \/ disk' = [disk EXCEPT !.here = h, !.changes = c]
    BY DEF ChangeDisk
  <2> HIDE DEF c, m, h
  <2>4. ASSUME NEW s \in {"fs", "data", "raid"}, disk' = [disk EXCEPT !.slab = s, !.changes = c]
        PROVE  disk' \in DiskStates
    BY <1>1, <2>1, <2>4 DEF DiskStates
  <2>5. CASE disk' = [disk EXCEPT !.mounted = m, !.changes = c]
    BY <1>1, <2>1, <2>2, <2>5 DEF DiskStates
  <2>6. CASE disk' = [disk EXCEPT !.here = h, !.changes = c]
    BY <1>1, <2>1, <2>2, <2>6 DEF DiskStates
  <2>7. QED
    BY <2>3, <2>4, <2>5, <2>6
<1>3. ~excused' => ~excused /\ \A q \in Asks : ~Under(q)
  BY <1>1 DEF Pending, Under
<1>4. ActionTypes' /\ AskKinds'
  BY <1>1, <1>2 DEF ActsInv, ActionTypes, AskKinds, Under
<1>5. ASSUME ~excused'
      PROVE  OneAtATime' /\ AwayIsGone' /\ FreeStill' /\ ActivityIs'
  <2>1. \A q \in Asks : ~Under(q)'
    BY <1>1, <1>3, <1>5 DEF Under
  <2>2. ActivityIs'
    BY <1>1, <1>3, <1>5 DEF ActsInv, ActivityIs
  <2>3. QED
    BY <2>1, <2>2 DEF OneAtATime, AwayIsGone, FreeStill
<1>6. QED
  BY <1>4, <1>5 DEF ActsInv

LEMMA DaemonRestarts == ASSUME ActsInv, RestartDaemon PROVE ActsInv'
<1>1. /\ disk.restarts > 0 /\ disk' = [disk EXCEPT !.restarts = disk.restarts - 1]
      /\ d' = (IF d = None THEN None ELSE [d EXCEPT !.activity = IF d.activity = "testing" THEN "idle" ELSE d.activity])
      /\ test' = [q \in Asks |-> NoTest] /\ shown' = None
      /\ ask' = [q \in Asks |-> IF ask[q].pc = "go" \/ test[q].state = "running"
                                THEN [ask[q] EXCEPT !.pc = "over"] ELSE ask[q]]
      /\ UNCHANGED excused
  BY DEF RestartDaemon
<1>2. ActionTypes /\ AskKinds /\ disk \in DiskStates
  BY DEF ActsInv, ActionTypes
<1>3. disk' \in DiskStates /\ disk'.here = disk.here /\ disk'.slab = disk.slab /\ disk'.mounted = disk.mounted
  BY <1>1, <1>2, OneRestartLess
<1>4. /\ d' = None <=> d = None
      /\ d' # None => /\ d' \in DriveStates /\ d'.fleet = d.fleet
                      /\ d'.activity = IF d.activity = "testing" THEN "idle" ELSE d.activity
  <2> DEFINE a == IF d.activity = "testing" THEN "idle" ELSE d.activity
  <2>1. CASE d = None
    BY <1>1, <2>1
  <2>2. CASE d # None
    <3>1. d \in DriveStates
      BY <1>2, <2>2 DEF ActionTypes
    <3>2. a \in Activities
      BY <3>1 DEF DriveStates, Activities
    <3>3. d' = IF d = None THEN None ELSE [d EXCEPT !.activity = a]
      BY <1>1
    <3> HIDE DEF a
    <3>4. (d' = None <=> d = None) /\ (d' # None => d' \in DriveStates /\ d'.activity = a /\ d'.fleet = d.fleet)
      BY <1>2, <3>2, <3>3, Marked
    <3>5. QED
      BY <3>4 DEF a
  <2>3. QED
    BY <2>1, <2>2
<1>5. \A q \in Asks : /\ ask'[q] \in [pc : {"none", "go", "works", "over"}, what : Wanted \union {"none"}]
                      /\ ask'[q].pc = (IF ask[q].pc = "go" \/ test[q].state = "running" THEN "over" ELSE ask[q].pc)
                      /\ ask'[q].what = ask[q].what
  <2>1. ASSUME NEW q \in Asks
        PROVE  /\ ask'[q] \in [pc : {"none", "go", "works", "over"}, what : Wanted \union {"none"}]
               /\ ask'[q].pc = (IF ask[q].pc = "go" \/ test[q].state = "running" THEN "over" ELSE ask[q].pc)
               /\ ask'[q].what = ask[q].what
    <3> DEFINE k == ask[q]
               x == [k EXCEPT !.pc = "over"]
    <3>1. k \in [pc : {"none", "go", "works", "over"}, what : Wanted \union {"none"}]
      BY <1>2 DEF ActionTypes
    <3>2. ask'[q] = IF k.pc = "go" \/ test[q].state = "running" THEN x ELSE k
      BY <1>1
    <3> HIDE DEF k
    <3>3. x \in [pc : {"none", "go", "works", "over"}, what : Wanted \union {"none"}] /\ x.pc = "over" /\ x.what = k.what
      BY <3>1
    <3> HIDE DEF x
    <3>4. QED
      BY <3>1, <3>2, <3>3 DEF k
  <2>2. QED
    BY <2>1
<1>6. ask' \in [Asks -> [pc : {"none", "go", "works", "over"}, what : Wanted \union {"none"}]]
  BY <1>1, <1>5
<1>7. TestShape(NoTest) /\ NoTest.state = "none"
  BY DEF TestShape, NoTest
<1>8. ActionTypes'
  BY <1>1, <1>3, <1>4, <1>6, <1>7 DEF ActionTypes
<1>9. \A q \in Asks : /\ Under(q)' => ask[q].pc = "works" /\ ask[q].what = "format" /\ Under(q)
                      /\ ask'[q].pc = "works" => Under(q)'
  <2>1. SUFFICES ASSUME NEW q \in Asks, Under(q)'
                 PROVE  ask[q].pc = "works" /\ ask[q].what = "format"
    BY DEF Under
  <2>2. ask[q].pc = "works" /\ test[q].state # "running"
    BY <1>5, <2>1 DEF Under
  <2>3. QED
    BY <1>2, <2>2 DEF AskKinds
<1>10. AskKinds'
  BY <1>1, <1>5, <1>7, <1>9 DEF AskKinds, Tests
<1>11. ASSUME ~excused
       PROVE  OneAtATime' /\ AwayIsGone' /\ FreeStill' /\ ActivityIs'
  <2>1. OneAtATime /\ AwayIsGone /\ FreeStill /\ ActivityIs
    BY <1>11 DEF ActsInv
  <2>2. OneAtATime'
    BY <1>9, <2>1 DEF OneAtATime
  <2>3. AwayIsGone'
    BY <1>3, <1>4, <1>5, <1>9, <2>1 DEF AwayIsGone, Missing
  <2>4. FreeStill'
    BY <1>3, <1>4, <1>5, <1>9, <2>1 DEF FreeStill
  <2>5. ActivityIs'
    <3>1. SUFFICES ASSUME d # None, d'.activity = "idle", NEW q \in Asks, ask'[q].pc = "works"
                   PROVE  FALSE
      BY <1>4 DEF ActivityIs
    <3>2. ask[q].pc = "works" /\ ask[q].what = "format" /\ Under(q)
      BY <1>9, <3>1
    <3>3. test[q].state # "running"
      BY <1>2, <3>2 DEF AskKinds, Tests
    <3>4. d.activity # "testing"
      BY <1>11, <3>1, <3>2, <3>3, NoTestRuns
    <3>5. d.activity = "idle"
      BY <1>4, <3>1, <3>4
    <3>6. QED
      BY <2>1, <3>1, <3>2, <3>5 DEF ActivityIs
  <2>6. QED
    BY <2>2, <2>3, <2>4, <2>5
<1>12. QED
  BY <1>1, <1>8, <1>10, <1>11 DEF ActsInv

LEMMA NextActions == ActsInv /\ [ANext]_actvars => ActsInv'
<1> SUFFICES ASSUME ActsInv, [ANext]_actvars
             PROVE  ActsInv'
  OBVIOUS
<1>1. ASSUME NEW q \in Asks, NEW a \in Wanted, AtOnce(q, a) \/ Take(q, a) \/ Refused(q, a)
      PROVE  ActsInv'
  BY <1>1, Answered, RequestTaken, RequestRefused
<1>2. ASSUME NEW q \in Asks, JoinOrLeave(q) \/ StartTest(q) \/ StartFormat(q) \/ ReadRegion(q) \/ EndTest(q) \/ EndFormat(q)
      PROVE  ActsInv'
  BY <1>2, InOrOut, TestBegins, FormatStarts, RegionRead, TestOver, FormatOver
<1>3. CASE Rescan \/ JudgeHealth \/ ChangeDisk \/ RestartDaemon
  BY <1>3, Rescanned, HealthJudged, DiskChanged, DaemonRestarts
<1>4. CASE UNCHANGED actvars
  <2> USE <1>4 DEF actvars
  <2>1. ActionTypes' /\ AskKinds'
    BY DEF ActsInv, ActionTypes, AskKinds, Under
  <2>2. ~excused => OneAtATime' /\ AwayIsGone' /\ FreeStill' /\ ActivityIs'
    BY DEF ActsInv, OneAtATime, AwayIsGone, FreeStill, ActivityIs, Under, Missing
  <2>3. QED
    BY <2>1, <2>2 DEF ActsInv
<1>5. QED
  BY <1>1, <1>2, <1>3, <1>4 DEF ANext

\* A card offers what the handlers take, no test or format writes to a drive
\* somebody holds, and a drive's activity and its tests tell what was done
\* (components.rs, api/mod.rs, drivetest.rs), for any requests and records.
THEOREM ActionsHold == ASpec => []ActionsOK
<1>1. QED
  BY InitActions, NextActions, ActionsAreOK, PTL DEF ASpec

-----------------------------------------------------------------------------
(* What the node and the engine tell each other, proved for any drives, any    *)
(* listings and any number of lost answers, joins, leaves and moves.           *)

RecIs(r) == r = [member |-> r.member, here |-> r.here, place |-> r.place, oc |-> r.oc, labels |-> r.labels,
                 pushedOc |-> r.pushedOc, usage |-> r.usage]
EngIs(e) == e = [open |-> e.open, labels |-> e.labels, oc |-> e.oc, routes |-> e.routes, listing |-> e.listing]
LoopIs(l) == l = [pc |-> l.pc, slabs |-> l.slabs, listed |-> l.listed, todo |-> l.todo, job |-> l.job,
                  found |-> l.found, crossed |-> l.crossed, paused |-> l.paused]
ReqIs(q) == q = [pc |-> q.pc, place |-> q.place, overtaken |-> q.overtaken]

RecTypes ==
  /\ rec = [dr \in Drives |-> rec[dr]]
  /\ \A dr \in Drives : /\ RecIs(rec[dr])
                        /\ rec[dr].place \in Places \union {None}
                        /\ rec[dr].oc \in Settings \union {0}
EngTypes ==
  /\ EngIs(eng) /\ eng.labels = [dr \in Drives |-> eng.labels[dr]] /\ eng.oc = [dr \in Drives |-> eng.oc[dr]]
  /\ eng.open \subseteq Drives /\ eng.listing \in DOMAIN Listings
LoopTypes ==
  /\ LoopIs(loop) /\ loop.todo \subseteq Jobs /\ loop.job \in Jobs \union {None}
  /\ loop.pc \in {"labels heard", "price heard", "retired"} => loop.job # None
OtherTypes ==
  /\ req = [dr \in Drives |-> req[dr]] /\ \A dr \in Drives : ReqIs(req[dr])
  /\ stale = [dr \in Drives |-> stale[dr]]
ToldTypes == RecTypes /\ EngTypes /\ LoopTypes /\ OtherTypes

\* What the engine holds, by where an answer is: heard and not yet noted, or a
\* join's; and a drive that is being retired is noted when it is.
AtWork(dr, heard) == loop.pc = heard /\ loop.job.drive = dr /\ loop.found
Retiring(dr) == loop.pc = "retired" /\ loop.job.drive = dr
LabelsHeld(dr) ==
  "labels" \notin stale[dr] /\ rec[dr].labels # None /\ req[dr].pc # "joins" /\ ~AtWork(dr, "labels heard") /\ ~Retiring(dr) =>
    eng.labels[dr] = rec[dr].labels
JoinHeld(dr) == req[dr].pc = "joins" /\ ~req[dr].overtaken => eng.labels[dr] = req[dr].place
LabelsSent(dr) == AtWork(dr, "labels heard") /\ ~loop.crossed => eng.labels[dr] = loop.job.value
OcHeld(dr) ==
  "oc" \notin stale[dr] /\ rec[dr].pushedOc # None /\ ~AtWork(dr, "price heard") /\ ~Retiring(dr) =>
    eng.oc[dr] = rec[dr].pushedOc
OcSent(dr) == AtWork(dr, "price heard") /\ ~loop.crossed => eng.oc[dr] = loop.job.value
DriveHeld(dr) == LabelsHeld(dr) /\ JoinHeld(dr) /\ LabelsSent(dr) /\ OcHeld(dr) /\ OcSent(dr)
AllHeld == \A dr \in Drives : DriveHeld(dr)

\* The labels under way are of the place of record: a drive moves only in a scan.
PlacesSent ==
  /\ loop.pc \in {"label", "labels heard"} => \A job \in loop.todo : job.value = rec[job.drive].place
  /\ loop.pc = "labels heard" => loop.job.value = rec[loop.job.drive].place

\* The usage of all drives is of one listing of slabs.
OnDrive(dr, slabs) == {s.id : s \in {t \in slabs : SlabOn(t.ref, Names[dr])}}
UsageIs(u) == u = [slabs |-> u.slabs, inSlabs |-> u.inSlabs, used |-> u.used, outside |-> u.outside, free |-> u.free,
                   committed |-> u.committed, promisable |-> u.promisable, headroom |-> u.headroom, at |-> u.at,
                   volumes |-> u.volumes, volumesAt |-> u.volumesAt]
UsageOf(dr, oc, u) ==
  /\ UsageIs(u)
  /\ u.promisable = u.inSlabs * Factor(oc)
  /\ u.volumes # None => u.volumes = VolumesOn(Names[dr], Listings[u.volumesAt].volumes)
UsageOK ==
  /\ \A dr \in Drives : rec[dr].usage # None => UsageOf(dr, rec[dr].oc, rec[dr].usage)
  /\ \E i \in DOMAIN Listings : \A dr \in Drives :
        rec[dr].usage # None => rec[dr].usage.slabs = OnDrive(dr, Listings[i].slabs)
SlabsRead == loop.pc = "volumes" => \E i \in DOMAIN Listings : loop.slabs = Listings[i].slabs

PushInv == ToldTypes /\ AllHeld /\ PlacesSent /\ UsageOK /\ SlabsRead

\* A usage priced anew, a usage computed, and one refreshed.
LEMMA PricedAgain ==
  ASSUME NEW u, NEW oc, UsageIs(u)
  PROVE  LET p == Priced(u, oc)
         IN  /\ UsageIs(p) /\ p.slabs = u.slabs /\ p.promisable = p.inSlabs * Factor(oc)
             /\ p.volumes = u.volumes /\ p.volumesAt = u.volumesAt
<1> DEFINE b == u.inSlabs * Factor(oc)
           h == IF u.committed = None THEN None ELSE Below(b, u.committed)
           p == Priced(u, oc)
<1>1. p = [u EXCEPT !.promisable = b, !.headroom = h]
  BY DEF Priced
<1>2. b = u.inSlabs * Factor(oc)
  OBVIOUS
<1> HIDE DEF b, h, p
<1>3. p = [slabs |-> u.slabs, inSlabs |-> u.inSlabs, used |-> u.used, outside |-> u.outside, free |-> u.free,
           committed |-> u.committed, promisable |-> b, headroom |-> h, at |-> u.at,
           volumes |-> u.volumes, volumesAt |-> u.volumesAt]
  BY <1>1 DEF UsageIs
<1>4. UsageIs(p) /\ p.slabs = u.slabs /\ p.promisable = p.inSlabs * Factor(oc)
      /\ p.volumes = u.volumes /\ p.volumesAt = u.volumesAt
  BY <1>2, <1>3 DEF UsageIs
<1>5. QED
  BY <1>4 DEF p

LEMMA CalcIs ==
  ASSUME NEW dr, NEW oc, NEW slabs, NEW now
  PROVE  LET u == Compute(Names[dr], oc, slabs, now)
         IN  UsageIs(u) /\ u.slabs = OnDrive(dr, slabs) /\ u.promisable = u.inSlabs * Factor(oc) /\ u.volumes = None
<1> DEFINE mine == {s \in slabs : SlabOn(s.ref, Names[dr])}
           c == IF \E s \in mine : s.committed = None THEN None ELSE CommittedBytes(mine)
           in == SlabBytes(mine)
           use == AllocatedBytes(mine)
           out == Below(Names[dr].capacity, in)
           fr == Below(Names[dr].capacity, use)
           ids == {s.id : s \in mine}
           raw == [slabs |-> ids, inSlabs |-> in, used |-> use, outside |-> out, free |-> fr, committed |-> c,
                   promisable |-> 0, headroom |-> None, at |-> now, volumes |-> None, volumesAt |-> None]
<1>1. Compute(Names[dr], oc, slabs, now) = Priced(raw, oc)
  BY DEF Compute
<1>2. ids = OnDrive(dr, slabs)
  BY DEF OnDrive
<1> HIDE DEF mine, c, in, use, out, fr, ids
<1>3. UsageIs(raw) /\ raw.slabs = ids /\ raw.volumes = None
  BY DEF UsageIs
<1> HIDE DEF raw
<1>4. QED
  BY <1>1, <1>2, <1>3, PricedAgain

LEMMA RefreshIs ==
  ASSUME NEW dr, NEW oc, NEW slabs, NEW volumes, NEW last, NEW i,
         last # None => UsageOf(dr, oc, last),
         volumes # None => volumes = Listings[i].volumes
  PROVE  /\ UsageOf(dr, oc, Refresh(Names[dr], oc, slabs, volumes, last, i))
         /\ Refresh(Names[dr], oc, slabs, volumes, last, i).slabs = OnDrive(dr, slabs)
<1> DEFINE u == Compute(Names[dr], oc, slabs, i)
           on == VolumesOn(Names[dr], volumes)
           since == IF on = None THEN None ELSE i
           w == Refresh(Names[dr], oc, slabs, volumes, last, i)
<1>1. UsageIs(u) /\ u.slabs = OnDrive(dr, slabs) /\ u.promisable = u.inSlabs * Factor(oc) /\ u.volumes = None
  BY CalcIs
<1>2. /\ volumes # None => w = [u EXCEPT !.volumes = on, !.volumesAt = since]
      /\ volumes = None /\ last = None => w = u
      /\ volumes = None /\ last # None => w = [u EXCEPT !.volumes = last.volumes, !.volumesAt = last.volumesAt]
  BY DEF Refresh
<1>3. on # None => since = i
  OBVIOUS
<1>4. volumes # None => on = VolumesOn(Names[dr], Listings[i].volumes)
  OBVIOUS
<1> HIDE DEF u, on, since, w
<1>5. ASSUME NEW v, NEW t, w = [u EXCEPT !.volumes = v, !.volumesAt = t], v # None => v = VolumesOn(Names[dr], Listings[t].volumes)
      PROVE  UsageOf(dr, oc, w) /\ w.slabs = OnDrive(dr, slabs)
  <2>1. w = [slabs |-> u.slabs, inSlabs |-> u.inSlabs, used |-> u.used, outside |-> u.outside, free |-> u.free,
             committed |-> u.committed, promisable |-> u.promisable, headroom |-> u.headroom, at |-> u.at,
             volumes |-> v, volumesAt |-> t]
    BY <1>1, <1>5 DEF UsageIs
  <2>2. UsageIs(w) /\ w.slabs = u.slabs /\ w.promisable = u.promisable /\ w.inSlabs = u.inSlabs /\ w.volumes = v /\ w.volumesAt = t
    BY <2>1 DEF UsageIs
  <2>3. QED
    BY <1>1, <1>5, <2>2 DEF UsageOf
<1>6. UsageOf(dr, oc, w) /\ w.slabs = OnDrive(dr, slabs)
  <2>1. CASE volumes # None
    <3>1. on # None => on = VolumesOn(Names[dr], Listings[since].volumes)
      BY <1>3, <1>4, <2>1
    <3>2. QED
      BY <1>2, <1>5, <2>1, <3>1
  <2>2. CASE volumes = None /\ last # None
    BY <1>2, <1>5, <2>2 DEF UsageOf
  <2>3. CASE volumes = None /\ last = None
    BY <1>1, <1>2, <2>3 DEF UsageOf
  <2>4. QED
    BY <2>1, <2>2, <2>3
<1>7. QED
  BY <1>6 DEF w

LEMMA JobOf ==
  ASSUME NEW dr \in Drives, NEW v, v \in Places \union Settings \union {None, 0}
  PROVE  Job(dr, v) \in Jobs /\ Job(dr, v).drive = dr /\ Job(dr, v).value = v /\ Job(dr, v) # None
  BY ListingsAssumption DEF Job, Jobs

LEMMA JobHas == ASSUME NEW job \in Jobs PROVE job.drive \in Drives /\ job # None
  BY ListingsAssumption DEF Jobs

\* A record with another field.
LEMMA RecWith ==
  ASSUME NEW r, RecIs(r), NEW v
  PROVE  /\ LET n == [r EXCEPT !.labels = v]
            IN  RecIs(n) /\ n.labels = v /\ n.place = r.place /\ n.oc = r.oc /\ n.pushedOc = r.pushedOc /\ n.usage = r.usage
         /\ LET n == [r EXCEPT !.pushedOc = v]
            IN  RecIs(n) /\ n.pushedOc = v /\ n.place = r.place /\ n.oc = r.oc /\ n.labels = r.labels /\ n.usage = r.usage
         /\ LET n == [r EXCEPT !.member = v]
            IN  RecIs(n) /\ n.labels = r.labels /\ n.place = r.place /\ n.oc = r.oc /\ n.pushedOc = r.pushedOc /\ n.usage = r.usage
         /\ LET n == [r EXCEPT !.usage = v]
            IN  RecIs(n) /\ n.usage = v /\ n.labels = r.labels /\ n.place = r.place /\ n.oc = r.oc /\ n.pushedOc = r.pushedOc
  BY DEF RecIs

\* What stays when nothing it depends on changes.
Awaits == {"labels heard", "price heard", "retired"}
LEMMA HeldFrame ==
  ASSUME NEW dr \in Drives, DriveHeld(dr),
         rec'[dr].labels = rec[dr].labels, rec'[dr].pushedOc = rec[dr].pushedOc,
         eng'.labels[dr] = eng.labels[dr], eng'.oc[dr] = eng.oc[dr],
         req'[dr] = req[dr], stale'[dr] = stale[dr],
         \/ loop.pc \notin Awaits /\ loop'.pc \notin Awaits
         \/ loop'.pc = loop.pc /\ loop'.job = loop.job /\ loop'.found = loop.found /\ (loop'.crossed \/ ~loop.crossed)
         \/ loop'.pc = loop.pc /\ loop'.job = loop.job /\ loop'.found = loop.found /\ loop'.crossed = loop.crossed
         \/ loop.pc \notin Awaits /\ loop'.job.drive # dr
         \/ loop'.pc \notin Awaits /\ loop.job.drive # dr
  PROVE  DriveHeld(dr)'
<1>1. \/ AtWork(dr, "labels heard")' = AtWork(dr, "labels heard") /\ (loop'.crossed \/ ~loop.crossed) /\ loop'.job = loop.job
         /\ AtWork(dr, "price heard")' = AtWork(dr, "price heard") /\ Retiring(dr)' = Retiring(dr)
      \/ AtWork(dr, "labels heard")' = AtWork(dr, "labels heard") /\ loop'.crossed = loop.crossed /\ loop'.job = loop.job
         /\ AtWork(dr, "price heard")' = AtWork(dr, "price heard") /\ Retiring(dr)' = Retiring(dr)
      \/ /\ ~AtWork(dr, "labels heard") /\ ~AtWork(dr, "price heard") /\ ~Retiring(dr)
         /\ ~AtWork(dr, "labels heard")' /\ ~AtWork(dr, "price heard")' /\ ~Retiring(dr)'
  BY DEF AtWork, Retiring, Awaits
<1>2. LabelsHeld(dr)' /\ OcHeld(dr)'
  BY <1>1 DEF DriveHeld, LabelsHeld, OcHeld
<1>3. LabelsSent(dr)' /\ OcSent(dr)'
  BY <1>1 DEF DriveHeld, LabelsSent, OcSent
<1>4. JoinHeld(dr)'
  BY DEF DriveHeld, JoinHeld
<1>5. QED
  BY <1>2, <1>3, <1>4 DEF DriveHeld

LEMMA UsageFrame ==
  ASSUME UsageOK, \A dr \in Drives : rec'[dr].usage = rec[dr].usage /\ rec'[dr].oc = rec[dr].oc
  PROVE  UsageOK'
<1>1. \A dr \in Drives : rec'[dr].usage # None => UsageOf(dr, rec'[dr].oc, rec'[dr].usage)
  BY DEF UsageOK
<1>2. PICK i \in DOMAIN Listings : \A dr \in Drives :
          rec[dr].usage # None => rec[dr].usage.slabs = OnDrive(dr, Listings[i].slabs)
  BY DEF UsageOK
<1>3. \A dr \in Drives : rec'[dr].usage # None => rec'[dr].usage.slabs = OnDrive(dr, Listings[i].slabs)
  BY <1>2
<1>4. (\A dr \in Drives : rec[dr].usage # None => UsageOf(dr, rec[dr].oc, rec[dr].usage))'
  BY <1>1 DEF UsageOf, UsageIs
<1>5. QED
  BY <1>3, <1>4 DEF UsageOK, OnDrive

LEMMA PlacesFrame ==
  ASSUME ToldTypes, PlacesSent, \A dr \in Drives : rec'[dr].place = rec[dr].place,
         \/ loop'.pc \notin {"label", "labels heard"}
         \/ loop'.pc = "label" /\ loop.pc \in {"label", "labels heard"} /\ loop'.todo \subseteq loop.todo
         \/ loop'.pc = loop.pc /\ loop'.todo = loop.todo /\ loop'.job = loop.job
         \/ loop'.pc = "labels heard" /\ loop.pc = "label" /\ loop'.todo \subseteq loop.todo /\ loop'.job \in loop.todo
  PROVE  PlacesSent'
<1>1. \A job \in loop.todo : job.drive \in Drives
  BY JobHas DEF ToldTypes, LoopTypes
<1>2. loop.pc = "labels heard" => loop.job.drive \in Drives
  BY JobHas DEF ToldTypes, LoopTypes
<1>3. CASE loop'.pc \notin {"label", "labels heard"}
  BY <1>3 DEF PlacesSent
<1>4. CASE loop'.pc = "label" /\ loop.pc \in {"label", "labels heard"} /\ loop'.todo \subseteq loop.todo
  BY <1>1, <1>4 DEF PlacesSent
<1>5. CASE loop'.pc = loop.pc /\ loop'.todo = loop.todo /\ loop'.job = loop.job
  BY <1>1, <1>2, <1>5 DEF PlacesSent
<1>6. CASE loop'.pc = "labels heard" /\ loop.pc = "label" /\ loop'.todo \subseteq loop.todo /\ loop'.job \in loop.todo
  BY <1>1, <1>6 DEF PlacesSent
<1>7. QED
  BY <1>3, <1>4, <1>5, <1>6

\* A loop that goes on.
LEMMA LoopWith ==
  ASSUME NEW l, LoopIs(l), NEW p
  PROVE  LET n == [l EXCEPT !.pc = p]
         IN  LoopIs(n) /\ n.pc = p /\ n.slabs = l.slabs /\ n.listed = l.listed /\ n.todo = l.todo /\ n.job = l.job
             /\ n.found = l.found /\ n.crossed = l.crossed
  BY DEF LoopIs

-----------------------------------------------------------------------------
LEMMA InitPush == PInit => PushInv
<1> SUFFICES ASSUME PInit
             PROVE  PushInv
  OBVIOUS
<1> DEFINE r0(c, dr) == [member |-> dr \in c.fleet, here |-> TRUE, place |-> None, oc |-> 0,
                         labels |-> None, pushedOc |-> None, usage |-> None]
<1>1. PICK c \in Courses :
        /\ rec = [dr \in Drives |-> [member |-> dr \in c.fleet, here |-> TRUE, place |-> None, oc |-> 0,
                                     labels |-> None, pushedOc |-> None, usage |-> None]]
        /\ eng = [open |-> c.fleet, labels |-> [dr \in Drives |-> None], oc |-> [dr \in Drives |-> None],
                  routes |-> c.routes, listing |-> 1]
  BY DEF PInit
<1>2. loop = AtRest /\ req = [dr \in Drives |-> NoReq] /\ stale = [dr \in Drives |-> {}]
  BY DEF PInit
<1>3. loop.pc = "rest" /\ loop.todo = {} /\ loop.job = None /\ LoopIs(loop)
  BY <1>2 DEF AtRest, LoopIs
<1>4. \A dr \in Drives : RecIs(rec[dr]) /\ rec[dr].place = None /\ rec[dr].oc = 0 /\ rec[dr].labels = None
                         /\ rec[dr].pushedOc = None /\ rec[dr].usage = None
  BY <1>1 DEF RecIs
<1>5. RecTypes
  BY <1>1, <1>4 DEF RecTypes
<1>6. EngTypes
  <2>1. 1 \in DOMAIN Listings
    BY ListingsAssumption
  <2>2. c.fleet \subseteq Drives
    BY ListingsAssumption
  <2>3. QED
    BY <1>1, <2>1, <2>2 DEF EngTypes, EngIs
<1>7. LoopTypes
  BY <1>3 DEF LoopTypes
<1>8. OtherTypes
  <2>1. \A dr \in Drives : ReqIs(req[dr])
    BY <1>2 DEF NoReq, ReqIs
  <2>2. QED
    BY <1>2, <2>1 DEF OtherTypes
<1>9. AllHeld
  <2>1. SUFFICES ASSUME NEW dr \in Drives
                 PROVE  DriveHeld(dr)
    BY DEF AllHeld
  <2>2. req[dr].pc = "none"
    BY <1>2 DEF NoReq
  <2>3. QED
    BY <1>3, <1>4, <2>2 DEF DriveHeld, LabelsHeld, JoinHeld, LabelsSent, OcHeld, OcSent, AtWork
<1>10. PlacesSent
  BY <1>3 DEF PlacesSent
<1>11. UsageOK
  <2>1. 1 \in DOMAIN Listings
    BY ListingsAssumption
  <2>2. QED
    BY <1>4, <2>1 DEF UsageOK
<1>12. SlabsRead
  BY <1>3 DEF SlabsRead
<1>13. QED
  BY <1>5, <1>6, <1>7, <1>8, <1>9, <1>10, <1>11, <1>12 DEF PushInv, ToldTypes

LEMMA PlacedAt ==
  ASSUME NEW r, RecIs(r), NEW h, NEW y
  PROVE  [[r EXCEPT !.here = h] EXCEPT !.place = y] =
           [member |-> r.member, here |-> h, place |-> y, oc |-> r.oc, labels |-> r.labels,
            pushedOc |-> r.pushedOc, usage |-> r.usage]
<1> DEFINE m == [r EXCEPT !.here = h]
<1>1. m = [member |-> r.member, here |-> h, place |-> r.place, oc |-> r.oc, labels |-> r.labels,
           pushedOc |-> r.pushedOc, usage |-> r.usage]
  BY DEF RecIs
<1> HIDE DEF m
<1>2. [m EXCEPT !.place = y] = [member |-> r.member, here |-> h, place |-> y, oc |-> r.oc, labels |-> r.labels,
                                pushedOc |-> r.pushedOc, usage |-> r.usage]
  BY <1>1
<1>3. QED
  BY <1>2 DEF m

LEMMA ScanPush == ASSUME PushInv, Scan PROVE PushInv'
<1>1. loop.pc = "rest" /\ loop' = [loop EXCEPT !.pc = "slabs"] /\ UNCHANGED <<eng, req, stale>>
  BY DEF Scan, At
<1>2. LoopIs(loop') /\ loop'.pc = "slabs" /\ loop'.todo = loop.todo /\ loop'.job = loop.job
  BY <1>1, LoopWith DEF PushInv, ToldTypes, LoopTypes
<1>3. RecTypes' /\ \A dr \in Drives : /\ rec'[dr].labels = rec[dr].labels /\ rec'[dr].pushedOc = rec[dr].pushedOc
                                      /\ rec'[dr].usage = rec[dr].usage /\ rec'[dr].oc = rec[dr].oc
  <2>1. CASE UNCHANGED rec
    BY <2>1 DEF PushInv, ToldTypes, RecTypes
  <2>2. ASSUME NEW x \in Drives, NEW h \in BOOLEAN, NEW p \in Places,
               rec' = [rec EXCEPT ![x].here = h, ![x].place = IF h THEN p ELSE rec[x].place]
        PROVE  RecTypes' /\ \A dr \in Drives : /\ rec'[dr].labels = rec[dr].labels /\ rec'[dr].pushedOc = rec[dr].pushedOc
                                               /\ rec'[dr].usage = rec[dr].usage /\ rec'[dr].oc = rec[dr].oc
    <3> DEFINE r == rec[x]
               y == IF h THEN p ELSE r.place
               n == [member |-> r.member, here |-> h, place |-> y, oc |-> r.oc, labels |-> r.labels,
                     pushedOc |-> r.pushedOc, usage |-> r.usage]
    <3>1. RecIs(r) /\ r.place \in Places \union {None} /\ r.oc \in Settings \union {0}
          /\ rec = [dr \in Drives |-> rec[dr]]
      BY DEF PushInv, ToldTypes, RecTypes
    <3>2. y \in Places \union {None}
      BY <3>1
    <3>3. rec' = [dr \in Drives |-> rec'[dr]] /\ \A dr \in Drives : rec'[dr] = IF dr = x THEN n ELSE rec[dr]
      <4> DEFINE q == [rec EXCEPT ![x].here = h]
      <4>0. rec' = [q EXCEPT ![x].place = y]
        BY <2>2
      <4>3. q = [rec EXCEPT ![x] = [r EXCEPT !.here = h]] /\ q[x] = [r EXCEPT !.here = h] /\ q = [dr \in Drives |-> q[dr]]
        BY <3>1
      <4> HIDE DEF q, y
      <4>4. rec' = [q EXCEPT ![x] = [[r EXCEPT !.here = h] EXCEPT !.place = y]]
        BY <4>0, <4>3
      <4>5. [[r EXCEPT !.here = h] EXCEPT !.place = y] = n
        BY <3>1, PlacedAt
      <4> HIDE DEF n
      <4>6. rec' = [q EXCEPT ![x] = n]
        BY <4>4, <4>5
      <4>7. \A dr \in Drives : dr # x => q[dr] = rec[dr]
        BY <4>3
      <4>8. QED
        BY <4>3, <4>6, <4>7
    <3>4. RecIs(n) /\ n.place = y /\ n.oc = r.oc /\ n.labels = r.labels /\ n.pushedOc = r.pushedOc /\ n.usage = r.usage
      BY DEF RecIs
    <3> HIDE DEF n, y
    <3>5. QED
      BY <3>1, <3>2, <3>3, <3>4 DEF PushInv, ToldTypes, RecTypes
  <2>3. QED
    BY <2>1, <2>2 DEF Scan
<1>4. ToldTypes'
  BY <1>1, <1>2, <1>3 DEF PushInv, ToldTypes, EngTypes, LoopTypes, OtherTypes
<1>5. AllHeld'
  BY <1>1, <1>2, <1>3, HeldFrame DEF PushInv, AllHeld, Awaits
<1>6. UsageOK'
  BY <1>3, UsageFrame DEF PushInv
<1>7. PlacesSent' /\ SlabsRead'
  BY <1>2 DEF PlacesSent, SlabsRead
<1>8. QED
  BY <1>4, <1>5, <1>6, <1>7 DEF PushInv

\* A step that changes nothing but the loop, from where no answer is awaited to
\* where none is.
LEMMA LoopGoesOn ==
  ASSUME PushInv, UNCHANGED <<rec, eng, req, stale>>, LoopIs(loop'), loop'.todo \subseteq Jobs, loop'.job = loop.job,
         loop.pc \notin Awaits, loop'.pc \notin Awaits,
         loop'.pc = "label" => \A job \in loop'.todo : job.value = rec[job.drive].place,
         loop'.pc = "volumes" => \E i \in DOMAIN Listings : loop'.slabs = Listings[i].slabs
  PROVE  PushInv'
<1>1. ToldTypes'
  BY DEF PushInv, ToldTypes, RecTypes, EngTypes, LoopTypes, OtherTypes, Awaits
<1>2. AllHeld'
  BY HeldFrame DEF PushInv, AllHeld
<1>3. UsageOK'
  BY UsageFrame DEF PushInv
<1>4. PlacesSent'
  BY DEF PlacesSent, Awaits
<1>5. SlabsRead'
  BY DEF SlabsRead
<1>6. QED
  BY <1>1, <1>2, <1>3, <1>4, <1>5 DEF PushInv

LEMMA ListSlabsPush == ASSUME PushInv, ListSlabs PROVE PushInv'
<1>1. loop.pc = "slabs" /\ UNCHANGED <<rec, eng, req, stale>> /\ LoopIs(loop) /\ loop.todo \subseteq Jobs
      /\ eng.listing \in DOMAIN Listings
  BY DEF ListSlabs, PushInv, ToldTypes, LoopTypes, EngTypes
<1>2. CASE loop' = [loop EXCEPT !.pc = "volumes", !.slabs = Slabs]
  <2>1. LoopIs(loop') /\ loop'.pc = "volumes" /\ loop'.slabs = Slabs /\ loop'.todo = loop.todo /\ loop'.job = loop.job
    BY <1>1, <1>2 DEF LoopIs
  <2>2. QED
    BY <1>1, <2>1, LoopGoesOn DEF Awaits, Slabs
<1>3. CASE loop' = [loop EXCEPT !.pc = "list"]
  BY <1>1, <1>3, LoopWith, LoopGoesOn DEF Awaits
<1>4. QED
  BY <1>2, <1>3 DEF ListSlabs, At

LEMMA ListDrivesPush == ASSUME PushInv, ListDrives PROVE PushInv'
<1>1. loop.pc = "list" /\ UNCHANGED <<rec, eng, req, stale>> /\ LoopIs(loop) /\ loop.todo \subseteq Jobs
  BY DEF ListDrives, PushInv, ToldTypes, LoopTypes
<1>2. CASE loop' = [loop EXCEPT !.pc = "adopt", !.listed = eng.open]
  <2>1. LoopIs(loop') /\ loop'.pc = "adopt" /\ loop'.todo = loop.todo /\ loop'.job = loop.job
    BY <1>1, <1>2 DEF LoopIs
  <2>2. QED
    BY <1>1, <2>1, LoopGoesOn DEF Awaits
<1>3. CASE loop' = [loop EXCEPT !.pc = "labels"]
  BY <1>1, <1>3, LoopWith, LoopGoesOn DEF Awaits
<1>4. QED
  BY <1>2, <1>3 DEF ListDrives, At

LEMMA SyncLabelsPush == ASSUME PushInv, SyncLabels PROVE PushInv'
<1> DEFINE due == {Job(dr, rec[dr].place) : dr \in {e \in Drives :
                rec[e].member /\ rec[e].here /\ rec[e].labels # rec[e].place}}
<1>1. loop.pc = "labels" /\ loop' = [loop EXCEPT !.pc = "label", !.todo = due] /\ UNCHANGED <<rec, eng, req, stale>>
      /\ LoopIs(loop)
  BY DEF SyncLabels, PushInv, ToldTypes, LoopTypes
<1>2. \A dr \in Drives : Job(dr, rec[dr].place) \in Jobs /\ Job(dr, rec[dr].place).drive = dr
                         /\ Job(dr, rec[dr].place).value = rec[dr].place
  BY JobOf DEF PushInv, ToldTypes, RecTypes
<1>3. due \subseteq Jobs /\ \A job \in due : job.value = rec[job.drive].place
  BY <1>2
<1> HIDE DEF due
<1>4. LoopIs(loop') /\ loop'.pc = "label" /\ loop'.todo = due /\ loop'.job = loop.job
  BY <1>1 DEF LoopIs
<1>5. QED
  BY <1>1, <1>3, <1>4, LoopGoesOn DEF Awaits

LEMMA SyncOvercommitPush == ASSUME PushInv, SyncOvercommit PROVE PushInv'
<1> DEFINE due == IF loop.paused THEN {} ELSE
            {Job(dr, rec[dr].oc) : dr \in {e \in Drives :
                /\ rec[e].here
                /\ rec[e].member \/ HoldsSlabs(rec[e])
                /\ rec[e].pushedOc # rec[e].oc}}
<1>1. loop.pc = "overcommit" /\ loop' = [loop EXCEPT !.pc = "price", !.todo = due] /\ UNCHANGED <<rec, eng, req, stale>>
      /\ LoopIs(loop)
  BY DEF SyncOvercommit, PushInv, ToldTypes, LoopTypes
<1>2. \A dr \in Drives : Job(dr, rec[dr].oc) \in Jobs
  BY JobOf DEF PushInv, ToldTypes, RecTypes
<1>3. due \subseteq Jobs
  BY <1>2
<1> HIDE DEF due
<1>4. LoopIs(loop') /\ loop'.pc = "price" /\ loop'.todo = due /\ loop'.job = loop.job
  BY <1>1 DEF LoopIs
<1>5. QED
  BY <1>1, <1>3, <1>4, LoopGoesOn DEF Awaits

LEMMA AllSentPush == ASSUME PushInv, AllSent PROVE PushInv'
<1>1. loop.pc \in {"label", "price"} /\ loop.todo = {} /\ LoopIs(loop) /\ UNCHANGED <<rec, eng, req, stale>>
  BY DEF AllSent, PushInv, ToldTypes, LoopTypes
<1> DEFINE p == IF loop.pc = "label" THEN "overcommit" ELSE "drains"
<1>2. loop' = [loop EXCEPT !.pc = p] /\ p \in {"overcommit", "drains"}
  BY DEF AllSent, At
<1> HIDE DEF p
<1>3. LoopIs(loop') /\ loop'.pc = p /\ loop'.todo = loop.todo /\ loop'.job = loop.job
  BY <1>1, <1>2, LoopWith
<1>4. QED
  BY <1>1, <1>2, <1>3, LoopGoesOn DEF Awaits

LEMMA RetryPush == ASSUME PushInv, RetryAgain PROVE PushInv'
<1>1. loop' = [loop EXCEPT !.paused = FALSE] /\ UNCHANGED <<rec, eng, req, stale>> /\ LoopIs(loop)
  BY DEF RetryAgain, PushInv, ToldTypes, LoopTypes
<1>2. LoopIs(loop') /\ loop'.pc = loop.pc /\ loop'.todo = loop.todo /\ loop'.job = loop.job
      /\ loop'.found = loop.found /\ loop'.crossed = loop.crossed /\ loop'.slabs = loop.slabs
  BY <1>1 DEF LoopIs
<1>3. ToldTypes'
  BY <1>1, <1>2 DEF PushInv, ToldTypes, RecTypes, EngTypes, LoopTypes, OtherTypes
<1>4. AllHeld'
  BY <1>1, <1>2, HeldFrame DEF PushInv, AllHeld
<1>5. UsageOK'
  BY <1>1, UsageFrame DEF PushInv
<1>6. PlacesSent'
  BY <1>1, <1>2, PlacesFrame DEF PushInv
<1>7. SlabsRead'
  BY <1>2 DEF PushInv, SlabsRead
<1>8. QED
  BY <1>3, <1>4, <1>5, <1>6, <1>7 DEF PushInv

LEMMA ReconcilePush == ASSUME PushInv, Reconcile PROVE PushInv'
<1>1. /\ loop.pc = "adopt" /\ UNCHANGED <<eng, req, stale>> /\ LoopIs(loop)
      /\ rec' = [dr \in Drives |-> [rec[dr] EXCEPT !.member = dr \in loop.listed]]
      /\ loop' = [loop EXCEPT !.pc = "labels", !.listed = {}]
  BY DEF Reconcile, PushInv, ToldTypes, LoopTypes
<1>2. LoopIs(loop') /\ loop'.pc = "labels" /\ loop'.todo = loop.todo /\ loop'.job = loop.job
  BY <1>1 DEF LoopIs
<1>3. ASSUME NEW dr \in Drives
      PROVE  /\ RecIs(rec'[dr]) /\ rec'[dr].labels = rec[dr].labels /\ rec'[dr].pushedOc = rec[dr].pushedOc
             /\ rec'[dr].usage = rec[dr].usage /\ rec'[dr].oc = rec[dr].oc /\ rec'[dr].place = rec[dr].place
  <2>1. rec'[dr] = [rec[dr] EXCEPT !.member = dr \in loop.listed]
    BY <1>1
  <2>2. RecIs(rec[dr])
    BY DEF PushInv, ToldTypes, RecTypes
  <2> DEFINE b == dr \in loop.listed
             r == rec[dr]
  <2>3. rec'[dr] = [r EXCEPT !.member = b]
    BY <2>1
  <2> HIDE DEF b, r
  <2>4. RecIs(r)
    BY <2>2 DEF r
  <2> DEFINE n == [r EXCEPT !.member = b]
  <2>5. RecIs(n) /\ n.labels = r.labels /\ n.place = r.place /\ n.oc = r.oc /\ n.pushedOc = r.pushedOc /\ n.usage = r.usage
    BY <2>4, RecWith
  <2>6. rec'[dr] = n
    BY <2>3
  <2> HIDE DEF n
  <2>7. QED
    BY <2>5, <2>6 DEF r
<1>4. RecTypes'
  BY <1>1, <1>3 DEF PushInv, ToldTypes, RecTypes
<1>5. ToldTypes'
  BY <1>1, <1>2, <1>4 DEF PushInv, ToldTypes, EngTypes, LoopTypes, OtherTypes
<1>6. AllHeld'
  BY <1>1, <1>2, <1>3, HeldFrame DEF PushInv, AllHeld, Awaits
<1>7. UsageOK'
  BY <1>3, UsageFrame DEF PushInv
<1>8. PlacesSent' /\ SlabsRead'
  BY <1>2 DEF PlacesSent, SlabsRead
<1>9. QED
  BY <1>5, <1>6, <1>7, <1>8 DEF PushInv

LEMMA ListVolumesPush == ASSUME PushInv, ListVolumes PROVE PushInv'
<1>1. PICK volumes \in {Listings[eng.listing].volumes, None} :
          rec' = [dr \in Drives |-> [rec[dr] EXCEPT !.usage =
                    Refresh(Names[dr], rec[dr].oc, loop.slabs, volumes, @, eng.listing)]]
  BY DEF ListVolumes
<1>2. loop.pc = "volumes" /\ loop' = [loop EXCEPT !.pc = "list", !.slabs = {}] /\ UNCHANGED <<eng, req, stale>> /\ LoopIs(loop)
  BY DEF ListVolumes, PushInv, ToldTypes, LoopTypes
<1>3. LoopIs(loop') /\ loop'.pc = "list" /\ loop'.todo = loop.todo /\ loop'.job = loop.job
  BY <1>2 DEF LoopIs
<1>4. ASSUME NEW dr \in Drives
      PROVE  /\ RecIs(rec'[dr]) /\ rec'[dr].labels = rec[dr].labels /\ rec'[dr].pushedOc = rec[dr].pushedOc
             /\ rec'[dr].oc = rec[dr].oc /\ rec'[dr].place = rec[dr].place
             /\ UsageOf(dr, rec[dr].oc, rec'[dr].usage) /\ rec'[dr].usage.slabs = OnDrive(dr, loop.slabs)
  <2> DEFINE r == rec[dr]
             o == r.oc
             last == r.usage
             now == eng.listing
             sl == loop.slabs
             u == Refresh(Names[dr], o, sl, volumes, last, now)
             n == [r EXCEPT !.usage = u]
  <2>1. rec'[dr] = n
    BY <1>1
  <2>2. RecIs(r)
    BY DEF PushInv, ToldTypes, RecTypes
  <2>3. last # None => UsageOf(dr, o, last)
    BY DEF PushInv, UsageOK
  <2>4. volumes # None => volumes = Listings[now].volumes
    OBVIOUS
  <2> HIDE DEF r, o, last, now, sl
  <2>5. UsageOf(dr, o, u) /\ u.slabs = OnDrive(dr, sl)
    BY <2>3, <2>4, RefreshIs
  <2> HIDE DEF u
  <2>6. RecIs(n) /\ n.usage = u /\ n.labels = r.labels /\ n.place = r.place /\ n.oc = r.oc /\ n.pushedOc = r.pushedOc
    BY <2>2 DEF RecIs
  <2> HIDE DEF n
  <2>7. QED
    BY <2>1, <2>5, <2>6 DEF r, o, sl
<1>5. RecTypes'
  BY <1>1, <1>4 DEF PushInv, ToldTypes, RecTypes
<1>6. ToldTypes'
  BY <1>2, <1>3, <1>5 DEF PushInv, ToldTypes, EngTypes, LoopTypes, OtherTypes
<1>7. AllHeld'
  BY <1>2, <1>3, <1>4, HeldFrame DEF PushInv, AllHeld, Awaits
<1>8. UsageOK'
  <2>1. PICK i \in DOMAIN Listings : loop.slabs = Listings[i].slabs
    BY <1>2 DEF PushInv, SlabsRead
  <2>2. \A dr \in Drives : rec'[dr].usage.slabs = OnDrive(dr, Listings[i].slabs)
    BY <1>4, <2>1
  <2>3. (\A dr \in Drives : rec[dr].usage # None => UsageOf(dr, rec[dr].oc, rec[dr].usage))'
    BY <1>4 DEF UsageOf, UsageIs
  <2>4. QED
    BY <2>2, <2>3 DEF UsageOK, OnDrive
<1>9. PlacesSent' /\ SlabsRead'
  BY <1>3 DEF PlacesSent, SlabsRead
<1>10. QED
  BY <1>6, <1>7, <1>8, <1>9 DEF PushInv

\* A step that leaves the records as they are.
LEMMA RecordsStay ==
  ASSUME PushInv, UNCHANGED rec, EngTypes', LoopTypes', OtherTypes', AllHeld', PlacesSent', SlabsRead'
  PROVE  PushInv'
<1>1. RecTypes'
  BY DEF PushInv, ToldTypes, RecTypes
<1>2. UsageOK'
  BY UsageFrame DEF PushInv
<1>3. QED
  BY <1>1, <1>2 DEF PushInv, ToldTypes

\* The engine with other labels, or another setting, of a drive.
LEMMA EngWith ==
  ASSUME NEW e, EngIs(e), NEW x, NEW v
  PROVE  /\ [e EXCEPT !["labels"][x] = v] = [open |-> e.open, labels |-> [e.labels EXCEPT ![x] = v], oc |-> e.oc,
                                             routes |-> e.routes, listing |-> e.listing]
         /\ [e EXCEPT !["oc"][x] = v] = [open |-> e.open, labels |-> e.labels, oc |-> [e.oc EXCEPT ![x] = v],
                                         routes |-> e.routes, listing |-> e.listing]
<1>1. [e EXCEPT !["labels"][x] = v] = [e EXCEPT !.labels[x] = v] /\ [e EXCEPT !["oc"][x] = v] = [e EXCEPT !.oc[x] = v]
  BY Zenon
<1>2. [e EXCEPT !.labels[x] = v] = [open |-> e.open, labels |-> [e.labels EXCEPT ![x] = v], oc |-> e.oc,
                                    routes |-> e.routes, listing |-> e.listing]
  BY DEF EngIs
<1>3. [e EXCEPT !.oc[x] = v] = [open |-> e.open, labels |-> e.labels, oc |-> [e.oc EXCEPT ![x] = v],
                                routes |-> e.routes, listing |-> e.listing]
  BY DEF EngIs
<1>4. QED
  BY <1>1, <1>2, <1>3

LEMMA Lost ==
  ASSUME NEW l, LoopIs(l), NEW job
  PROVE  LET n == [l EXCEPT !.todo = @ \ {job}]
         IN  LoopIs(n) /\ n.pc = l.pc /\ n.todo = l.todo \ {job} /\ n.job = l.job
<1> DEFINE n == [l EXCEPT !.todo = @ \ {job}]
           m1 == [l EXCEPT !.todo = l.todo \ {job}]
<1>1. n = m1
  OBVIOUS
<1> HIDE DEF n
<1>2. m1 = [pc |-> l.pc, slabs |-> l.slabs, listed |-> l.listed, todo |-> l.todo \ {job},
            job |-> l.job, found |-> l.found, crossed |-> l.crossed, paused |-> l.paused]
  BY DEF LoopIs
<1> HIDE DEF m1
<1>3. LoopIs(n) /\ n.pc = l.pc /\ n.todo = l.todo \ {job} /\ n.job = l.job
  BY <1>1, <1>2 DEF LoopIs
<1>4. QED
  BY <1>3 DEF n

LEMMA ReqWith ==
  ASSUME OtherTypes, NEW x \in Drives, NEW o, req' = [req EXCEPT ![x].overtaken = o]
  PROVE  /\ req' = [dr \in Drives |-> req'[dr]] /\ \A dr \in Drives : ReqIs(req'[dr])
         /\ \A dr \in Drives \ {x} : req'[dr] = req[dr]
         /\ req'[x].pc = req[x].pc /\ req'[x].place = req[x].place /\ req'[x].overtaken = o
<1> DEFINE q == req[x]
           n == [q EXCEPT !.overtaken = o]
<1>1. req' = [req EXCEPT ![x] = n] /\ req = [dr \in Drives |-> req[dr]] /\ ReqIs(q)
  BY DEF OtherTypes
<1> HIDE DEF q
<1>2. n = [pc |-> q.pc, place |-> q.place, overtaken |-> o]
  BY <1>1 DEF ReqIs
<1> HIDE DEF n
<1>3. ReqIs(n) /\ n.pc = q.pc /\ n.place = q.place /\ n.overtaken = o
  BY <1>2 DEF ReqIs
<1>4. req' = [dr \in Drives |-> req'[dr]] /\ req'[x] = n /\ \A dr \in Drives \ {x} : req'[dr] = req[dr]
  BY <1>1
<1>5. \A dr \in Drives : ReqIs(req'[dr])
  BY <1>3, <1>4 DEF OtherTypes
<1>6. QED
  BY <1>3, <1>4, <1>5 DEF q

LEMMA StaleWith ==
  ASSUME OtherTypes, NEW x \in Drives, NEW s, stale' = [stale EXCEPT ![x] = s]
  PROVE  /\ stale' = [dr \in Drives |-> stale'[dr]] /\ stale'[x] = s
         /\ \A dr \in Drives \ {x} : stale'[dr] = stale[dr]
  BY DEF OtherTypes

\* A job is sent: what the engine then holds, and what is waited for.
SentAs(what, known, heard, job) ==
  LET x == job.drive
  IN
    /\ job \in Jobs /\ x \in Drives
    /\ EngTypes' /\ LoopTypes' /\ OtherTypes'
    /\ \A dr \in Drives \ {x} : /\ eng'.labels[dr] = eng.labels[dr] /\ eng'.oc[dr] = eng.oc[dr]
                                 /\ req'[dr] = req[dr] /\ stale'[dr] = stale[dr]
    /\ what = "labels" => eng'.oc[x] = eng.oc[x] /\ eng'.labels[x] = IF x \in known THEN job.value ELSE eng.labels[x]
    /\ what = "oc" => eng'.labels[x] = eng.labels[x] /\ eng'.oc[x] = IF x \in known THEN job.value ELSE eng.oc[x]
    /\ req'[x].pc = req[x].pc /\ req'[x].place = req[x].place
    /\ req'[x].overtaken = (req[x].overtaken \/ (what = "labels" /\ req[x].pc = "joins"))
    /\ loop'.todo \subseteq loop.todo
    /\ \/ /\ loop'.pc = heard /\ loop'.job = job /\ ~loop'.crossed /\ loop'.found = (x \in known)
          /\ stale'[x] = stale[x]
       \/ /\ loop'.pc = loop.pc /\ loop'.job = loop.job
          /\ (eng' = eng /\ stale'[x] = stale[x]) \/ stale'[x] = stale[x] \union {what}

LEMMA Sent ==
  ASSUME PushInv, NEW what \in {"labels", "oc"}, NEW known, NEW heard, PushJob(what, known, heard), loop.pc \notin Awaits
  PROVE  \E job \in loop.todo : SentAs(what, known, heard, job)
<1>1. PICK job \in loop.todo : LET x == job.drive IN
           /\ eng' = IF x \in known THEN [eng EXCEPT ![what][x] = job.value] ELSE eng
           /\ req' = [req EXCEPT ![x].overtaken = @ \/ (what = "labels" /\ req[x].pc = "joins")]
           /\ \/ /\ loop' = [loop EXCEPT !.pc = heard, !.todo = @ \ {job}, !.job = job, !.crossed = FALSE,
                                         !.found = x \in known]
                 /\ UNCHANGED stale
              \/ /\ loop' = [loop EXCEPT !.todo = @ \ {job}]
                 /\ stale' = IF eng' = eng THEN stale ELSE [stale EXCEPT ![x] = @ \union {what}]
  BY Zenon DEF PushJob, Spend
<1> DEFINE x == job.drive
<1>2. job \in Jobs /\ x \in Drives
  BY JobHas DEF PushInv, ToldTypes, LoopTypes
<1>3. EngTypes
  BY DEF PushInv, ToldTypes
<1>4. EngIs(eng)
  BY <1>3 DEF EngTypes
\* What the engine holds.
<1> DEFINE engSent ==
      /\ EngTypes'
      /\ \A dr \in Drives \ {x} : eng'.labels[dr] = eng.labels[dr] /\ eng'.oc[dr] = eng.oc[dr]
      /\ what = "labels" => eng'.oc[x] = eng.oc[x] /\ eng'.labels[x] = IF x \in known THEN job.value ELSE eng.labels[x]
      /\ what = "oc" => eng'.labels[x] = eng.labels[x] /\ eng'.oc[x] = IF x \in known THEN job.value ELSE eng.oc[x]
<1>5. ASSUME x \notin known
      PROVE  engSent
  <2>1. eng' = eng
    BY <1>1, <1>5
  <2>2. EngTypes'
    BY <1>3, <2>1 DEF EngTypes
  <2>3. QED
    BY <1>2, <1>5, <2>1, <2>2
<1>6. ASSUME x \in known, what = "labels"
      PROVE  engSent
  <2>1. eng' = [eng EXCEPT !["labels"][x] = job.value]
    BY <1>1, <1>6, Zenon
  <2>2. eng' = [open |-> eng.open, labels |-> [eng.labels EXCEPT ![x] = job.value], oc |-> eng.oc,
                routes |-> eng.routes, listing |-> eng.listing]
    BY <1>4, <2>1, EngWith, Zenon
  <2>3. EngTypes'
    BY <1>2, <1>3, <2>2 DEF EngTypes, EngIs
  <2>4. eng'.oc = eng.oc /\ eng'.labels[x] = job.value /\ (\A dr \in Drives \ {x} : eng'.labels[dr] = eng.labels[dr])
    BY <1>2, <1>3, <2>2 DEF EngTypes
  <2>5. QED
    BY <1>2, <1>6, <2>3, <2>4
<1>7. ASSUME x \in known, what = "oc"
      PROVE  engSent
  <2>1. eng' = [eng EXCEPT !["oc"][x] = job.value]
    BY <1>1, <1>7, Zenon
  <2>2. eng' = [open |-> eng.open, labels |-> eng.labels, oc |-> [eng.oc EXCEPT ![x] = job.value],
                routes |-> eng.routes, listing |-> eng.listing]
    BY <1>4, <2>1, EngWith, Zenon
  <2>3. EngTypes'
    BY <1>2, <1>3, <2>2 DEF EngTypes, EngIs
  <2>4. eng'.labels = eng.labels /\ eng'.oc[x] = job.value /\ (\A dr \in Drives \ {x} : eng'.oc[dr] = eng.oc[dr])
    BY <1>2, <1>3, <2>2 DEF EngTypes
  <2>5. QED
    BY <1>2, <1>7, <2>3, <2>4
<1>8. engSent
  BY <1>5, <1>6, <1>7
\* What becomes of a join.
<1> DEFINE b == what = "labels" /\ req[x].pc = "joins"
           o == req[x].overtaken \/ b
<1>9. /\ req' = [dr \in Drives |-> req'[dr]] /\ \A dr \in Drives : ReqIs(req'[dr])
      /\ \A dr \in Drives \ {x} : req'[dr] = req[dr]
      /\ req'[x].pc = req[x].pc /\ req'[x].place = req[x].place /\ req'[x].overtaken = (req[x].overtaken \/ b)
  <2>1. req' = [req EXCEPT ![x].overtaken = o] /\ o = (req[x].overtaken \/ b)
    BY <1>1
  <2>2. x \in Drives /\ OtherTypes
    BY <1>2 DEF PushInv, ToldTypes
  <2> HIDE DEF x, b, o
  <2>3. QED
    BY <2>1, <2>2, ReqWith
\* An answer, or none.
<1>10. ASSUME loop' = [loop EXCEPT !.pc = heard, !.todo = @ \ {job}, !.job = job, !.crossed = FALSE, !.found = x \in known]
       PROVE  LoopTypes' /\ loop'.todo \subseteq loop.todo /\ loop'.pc = heard /\ loop'.job = job /\ ~loop'.crossed
              /\ loop'.found = (x \in known)
  <2> DEFINE no == FALSE
             f == x \in known
             m1 == [loop EXCEPT !.pc = heard]
             m2 == [m1 EXCEPT !.todo = loop.todo \ {job}]
             m3 == [m2 EXCEPT !.job = job]
             m4 == [m3 EXCEPT !.crossed = no]
             m5 == [m4 EXCEPT !.found = f]
  <2>1. loop' = m5 /\ LoopIs(loop)
    BY <1>10 DEF PushInv, ToldTypes, LoopTypes
  <2> HIDE DEF no, f
  <2>2. m1 = [pc |-> heard, slabs |-> loop.slabs, listed |-> loop.listed, todo |-> loop.todo,
              job |-> loop.job, found |-> loop.found, crossed |-> loop.crossed, paused |-> loop.paused]
    BY <2>1 DEF LoopIs
  <2> HIDE DEF m1
  <2>3. m2 = [pc |-> heard, slabs |-> loop.slabs, listed |-> loop.listed, todo |-> loop.todo \ {job},
              job |-> loop.job, found |-> loop.found, crossed |-> loop.crossed, paused |-> loop.paused]
    BY <2>2
  <2> HIDE DEF m2
  <2>4. m3 = [pc |-> heard, slabs |-> loop.slabs, listed |-> loop.listed, todo |-> loop.todo \ {job},
              job |-> job, found |-> loop.found, crossed |-> loop.crossed, paused |-> loop.paused]
    BY <2>3
  <2> HIDE DEF m3
  <2>5. m4 = [pc |-> heard, slabs |-> loop.slabs, listed |-> loop.listed, todo |-> loop.todo \ {job},
              job |-> job, found |-> loop.found, crossed |-> no, paused |-> loop.paused]
    BY <2>4
  <2> HIDE DEF m4
  <2>6. m5 = [pc |-> heard, slabs |-> loop.slabs, listed |-> loop.listed, todo |-> loop.todo \ {job},
              job |-> job, found |-> f, crossed |-> no, paused |-> loop.paused]
    BY <2>5
  <2> HIDE DEF m5
  <2>7. LoopIs(loop') /\ loop'.pc = heard /\ loop'.todo = loop.todo \ {job} /\ loop'.job = job /\ loop'.crossed = no
        /\ loop'.found = f
    BY <2>1, <2>6 DEF LoopIs
  <2>8. LoopTypes'
    BY <1>2, <2>7, JobHas DEF PushInv, ToldTypes, LoopTypes
  <2>9. QED
    BY <1>10, <2>7, <2>8 DEF no, f
<1>11. ASSUME loop' = [loop EXCEPT !.todo = @ \ {job}]
       PROVE  LoopTypes' /\ loop'.todo \subseteq loop.todo /\ loop'.pc = loop.pc /\ loop'.job = loop.job
  <2>1. LoopIs(loop)
    BY DEF PushInv, ToldTypes, LoopTypes
  <2>2. LoopIs(loop') /\ loop'.pc = loop.pc /\ loop'.todo = loop.todo \ {job} /\ loop'.job = loop.job
    BY <1>11, <2>1, Lost
  <2>3. QED
    BY <2>2 DEF PushInv, ToldTypes, LoopTypes, Awaits
<1>12. ASSUME stale' = IF eng' = eng THEN stale ELSE [stale EXCEPT ![x] = @ \union {what}]
       PROVE  /\ stale' = [dr \in Drives |-> stale'[dr]] /\ \A dr \in Drives \ {x} : stale'[dr] = stale[dr]
              /\ (eng' = eng /\ stale'[x] = stale[x]) \/ stale'[x] = stale[x] \union {what}
  <2>1. OtherTypes
    BY DEF PushInv, ToldTypes
  <2>2. CASE eng' = eng
    BY <1>12, <2>1, <2>2 DEF OtherTypes
  <2>3. CASE eng' # eng
    BY <1>2, <1>12, <2>1, <2>3 DEF OtherTypes
  <2>4. QED
    BY <2>2, <2>3
<1> HIDE DEF b, x
<1>13. CASE loop' = [loop EXCEPT !.pc = heard, !.todo = @ \ {job}, !.job = job, !.crossed = FALSE, !.found = x \in known]
            /\ UNCHANGED stale
  <2>1. OtherTypes' /\ stale'[x] = stale[x] /\ \A dr \in Drives \ {x} : stale'[dr] = stale[dr]
    BY <1>9, <1>13 DEF PushInv, ToldTypes, OtherTypes
  <2>2. SentAs(what, known, heard, job)
    BY <1>2, <1>8, <1>9, <1>10, <1>13, <2>1 DEF SentAs, x, b
  <2>3. QED
    BY <2>2
<1>14. CASE loop' = [loop EXCEPT !.todo = @ \ {job}]
            /\ stale' = IF eng' = eng THEN stale ELSE [stale EXCEPT ![x] = @ \union {what}]
  <2>1. OtherTypes'
    BY <1>9, <1>12, <1>14 DEF PushInv, ToldTypes, OtherTypes
  <2>2. SentAs(what, known, heard, job)
    BY <1>2, <1>8, <1>9, <1>11, <1>12, <1>14, <2>1 DEF SentAs, x, b
  <2>3. QED
    BY <2>2
<1>15. QED
  BY <1>1, <1>13, <1>14 DEF x

LEMMA SendLabelsPush == ASSUME PushInv, SendLabels PROVE PushInv'
<1>1. loop.pc = "label" /\ PushJob("labels", eng.open, "labels heard") /\ UNCHANGED rec
  BY DEF SendLabels
<1>2. PICK job \in loop.todo : SentAs("labels", eng.open, "labels heard", job)
  BY <1>1, Sent DEF Awaits
<1> DEFINE x == job.drive
<1>3. /\ job \in Jobs /\ x \in Drives
      /\ EngTypes' /\ LoopTypes' /\ OtherTypes'
      /\ \A dr \in Drives \ {x} : /\ eng'.labels[dr] = eng.labels[dr] /\ eng'.oc[dr] = eng.oc[dr]
                                  /\ req'[dr] = req[dr] /\ stale'[dr] = stale[dr]
      /\ eng'.oc[x] = eng.oc[x] /\ eng'.labels[x] = IF x \in eng.open THEN job.value ELSE eng.labels[x]
      /\ req'[x].pc = req[x].pc /\ req'[x].place = req[x].place
      /\ req'[x].overtaken = (req[x].overtaken \/ req[x].pc = "joins")
      /\ loop'.todo \subseteq loop.todo
      /\ \/ /\ loop'.pc = "labels heard" /\ loop'.job = job /\ ~loop'.crossed /\ loop'.found = (x \in eng.open)
            /\ stale'[x] = stale[x]
         \/ /\ loop'.pc = loop.pc /\ loop'.job = loop.job
            /\ (eng' = eng /\ stale'[x] = stale[x]) \/ stale'[x] = stale[x] \union {"labels"}
  BY <1>2 DEF SentAs
<1> HIDE DEF x
<1>4. \A dr \in Drives \ {x} : DriveHeld(dr)'
  <2>1. loop.pc \notin Awaits /\ (loop'.job.drive = x \/ loop'.pc \notin Awaits)
    BY <1>1, <1>3 DEF Awaits, x
  <2>2. QED
    BY <1>1, <1>3, <2>1, HeldFrame DEF PushInv, AllHeld
<1>5. DriveHeld(x)'
  <2>1. DriveHeld(x) /\ x \in Drives /\ loop.pc = "label" /\ rec' = rec
    BY <1>1, <1>3 DEF PushInv, AllHeld
  <2>2. LabelsHeld(x)'
    <3>1. CASE loop'.pc = "labels heard" /\ loop'.job = job /\ loop'.found = (x \in eng.open) /\ stale'[x] = stale[x]
      BY <1>3, <2>1, <3>1 DEF DriveHeld, LabelsHeld, AtWork, Retiring, x
    <3>2. CASE loop'.pc = loop.pc /\ ((eng' = eng /\ stale'[x] = stale[x]) \/ stale'[x] = stale[x] \union {"labels"})
      BY <1>3, <2>1, <3>2 DEF DriveHeld, LabelsHeld, AtWork, Retiring
    <3>3. QED
      BY <1>3, <3>1, <3>2
  <2>3. LabelsSent(x)'
    BY <1>3, <2>1 DEF LabelsSent, AtWork, x
  <2>4. JoinHeld(x)'
    BY <1>3 DEF JoinHeld
  <2>5. OcHeld(x)' /\ OcSent(x)'
    BY <1>3, <2>1 DEF DriveHeld, OcHeld, OcSent, AtWork, Retiring
  <2>6. QED
    BY <2>2, <2>3, <2>4, <2>5 DEF DriveHeld
<1>6. AllHeld'
  BY <1>4, <1>5 DEF AllHeld
<1>7. PlacesSent'
  BY <1>1, <1>3, PlacesFrame DEF PushInv
<1>8. SlabsRead'
  BY <1>1, <1>3 DEF SlabsRead
<1>9. QED
  BY <1>1, <1>3, <1>6, <1>7, <1>8, RecordsStay

LEMMA SendOvercommitPush == ASSUME PushInv, SendOvercommit PROVE PushInv'
<1> DEFINE known == {dr \in Drives : eng.routes /\ (dr \in eng.open \/ HasSlab(dr))}
<1>1. loop.pc = "price" /\ PushJob("oc", known, "price heard") /\ UNCHANGED rec
  BY DEF SendOvercommit
<1> HIDE DEF known
<1>2. PICK job \in loop.todo : SentAs("oc", known, "price heard", job)
  BY <1>1, Sent DEF Awaits
<1> DEFINE x == job.drive
<1>3. /\ job \in Jobs /\ x \in Drives
      /\ EngTypes' /\ LoopTypes' /\ OtherTypes'
      /\ \A dr \in Drives \ {x} : /\ eng'.labels[dr] = eng.labels[dr] /\ eng'.oc[dr] = eng.oc[dr]
                                  /\ req'[dr] = req[dr] /\ stale'[dr] = stale[dr]
      /\ eng'.labels[x] = eng.labels[x] /\ eng'.oc[x] = IF x \in known THEN job.value ELSE eng.oc[x]
      /\ req'[x].pc = req[x].pc /\ req'[x].place = req[x].place
      /\ req'[x].overtaken = (req[x].overtaken \/ ("oc" = "labels" /\ req[x].pc = "joins"))
      /\ \/ /\ loop'.pc = "price heard" /\ loop'.job = job /\ ~loop'.crossed /\ loop'.found = (x \in known)
            /\ stale'[x] = stale[x]
         \/ /\ loop'.pc = loop.pc /\ loop'.job = loop.job
            /\ (eng' = eng /\ stale'[x] = stale[x]) \/ stale'[x] = stale[x] \union {"oc"}
  BY <1>2 DEF SentAs
<1> HIDE DEF x
<1>4. \A dr \in Drives \ {x} : DriveHeld(dr)'
  <2>1. loop.pc \notin Awaits /\ (loop'.job.drive = x \/ loop'.pc \notin Awaits)
    BY <1>1, <1>3 DEF Awaits, x
  <2>2. QED
    BY <1>1, <1>3, <2>1, HeldFrame DEF PushInv, AllHeld
<1>5. DriveHeld(x)'
  <2>1. DriveHeld(x) /\ x \in Drives /\ loop.pc = "price" /\ rec' = rec
    BY <1>1, <1>3 DEF PushInv, AllHeld
  <2>2. OcHeld(x)'
    <3>1. CASE loop'.pc = "price heard" /\ loop'.job = job /\ loop'.found = (x \in known) /\ stale'[x] = stale[x]
      BY <1>3, <2>1, <3>1 DEF DriveHeld, OcHeld, AtWork, Retiring, x
    <3>2. CASE loop'.pc = loop.pc /\ ((eng' = eng /\ stale'[x] = stale[x]) \/ stale'[x] = stale[x] \union {"oc"})
      BY <1>3, <2>1, <3>2 DEF DriveHeld, OcHeld, AtWork, Retiring
    <3>3. QED
      BY <1>3, <3>1, <3>2
  <2>3. OcSent(x)'
    BY <1>3, <2>1 DEF OcSent, AtWork, x
  <2>4. JoinHeld(x)'
    BY <1>3, <2>1 DEF DriveHeld, JoinHeld
  <2>5. LabelsHeld(x)' /\ LabelsSent(x)'
    BY <1>3, <2>1 DEF DriveHeld, LabelsHeld, LabelsSent, AtWork, Retiring
  <2>6. QED
    BY <2>2, <2>3, <2>4, <2>5 DEF DriveHeld
<1>6. AllHeld'
  BY <1>4, <1>5 DEF AllHeld
<1>7. PlacesSent' /\ SlabsRead'
  BY <1>1, <1>3 DEF PlacesSent, SlabsRead
<1>8. QED
  BY <1>1, <1>3, <1>6, <1>7, RecordsStay

\* A record that changes.
LEMMA OneRec ==
  ASSUME RecTypes, NEW x \in Drives, NEW n, RecIs(n), n.place = rec[x].place, n.oc \in Settings \union {0},
         rec' = [rec EXCEPT ![x] = n]
  PROVE  RecTypes' /\ rec'[x] = n /\ \A dr \in Drives \ {x} : rec'[dr] = rec[dr]
<1>1. rec' = [dr \in Drives |-> rec'[dr]] /\ rec'[x] = n /\ \A dr \in Drives \ {x} : rec'[dr] = rec[dr]
  BY DEF RecTypes
<1>2. QED
  BY <1>1 DEF RecTypes

\* The drive the engine was told of under an open answer.
LEMMA CrossedIs ==
  ASSUME LoopIs(loop), NEW x, loop' = Crossed(x)
  PROVE  /\ LoopIs(loop') /\ loop'.pc = loop.pc /\ loop'.slabs = loop.slabs /\ loop'.todo = loop.todo /\ loop'.job = loop.job
         /\ loop'.found = loop.found
         /\ loop'.crossed = (loop.crossed \/ (loop.job # None /\ loop.job.drive = x))
<1> DEFINE f == loop.crossed \/ (loop.job # None /\ (loop.job # None => loop.job.drive = x))
<1>1. loop' = [loop EXCEPT !.crossed = f]
  BY DEF Crossed
<1>2. f = (loop.crossed \/ (loop.job # None /\ loop.job.drive = x))
  OBVIOUS
<1> HIDE DEF f
<1>3. loop' = [pc |-> loop.pc, slabs |-> loop.slabs, listed |-> loop.listed, todo |-> loop.todo, job |-> loop.job,
               found |-> loop.found, crossed |-> f, paused |-> loop.paused]
  BY <1>1 DEF LoopIs
<1>4. QED
  BY <1>2, <1>3 DEF LoopIs

\* The engine has closed a drive.
LEMMA ClosedIs ==
  ASSUME EngTypes, NEW x \in Drives, eng' = Closed(x)
  PROVE  EngTypes' /\ \A dr \in Drives \ {x} : eng'.labels[dr] = eng.labels[dr] /\ eng'.oc[dr] = eng.oc[dr]
<1> DEFINE o == eng.open \ {x}
           ls == [eng.labels EXCEPT ![x] = None]
           cs == [eng.oc EXCEPT ![x] = None]
           m1 == [eng EXCEPT !.open = o]
           m2 == [m1 EXCEPT !.labels = ls]
           m3 == [m2 EXCEPT !.oc = cs]
<1>1. EngIs(eng) /\ eng.labels = [dr \in Drives |-> eng.labels[dr]] /\ eng.oc = [dr \in Drives |-> eng.oc[dr]]
      /\ eng.open \subseteq Drives /\ eng.listing \in DOMAIN Listings
  BY DEF EngTypes
<1>2. m1 = [open |-> o, labels |-> eng.labels, oc |-> eng.oc, routes |-> eng.routes, listing |-> eng.listing]
  BY <1>1 DEF EngIs
<1> HIDE DEF o
<1>3. eng' = [[m1 EXCEPT !.labels[x] = None] EXCEPT !.oc[x] = None]
  BY DEF Closed, o
<1> HIDE DEF m1
<1>4. [m1 EXCEPT !.labels[x] = None] = m2
  BY <1>2
<1> HIDE DEF ls
<1>5. m2 = [open |-> o, labels |-> ls, oc |-> eng.oc, routes |-> eng.routes, listing |-> eng.listing]
  BY <1>2
<1> HIDE DEF m2
<1>6. [m2 EXCEPT !.oc[x] = None] = m3
  BY <1>5
<1> HIDE DEF cs
<1>7. m3 = [open |-> o, labels |-> ls, oc |-> cs, routes |-> eng.routes, listing |-> eng.listing]
  BY <1>5
<1>8. eng' = m3
  BY <1>3, <1>4, <1>6
<1> HIDE DEF m3
<1> USE DEF o, ls, cs
<1>9. eng'.labels = ls /\ eng'.oc = cs /\ eng'.open = o /\ eng'.listing = eng.listing /\ EngIs(eng')
  BY <1>7, <1>8 DEF EngIs
<1>10. eng'.labels = [dr \in Drives |-> eng'.labels[dr]] /\ eng'.oc = [dr \in Drives |-> eng'.oc[dr]]
       /\ \A dr \in Drives \ {x} : eng'.labels[dr] = eng.labels[dr] /\ eng'.oc[dr] = eng.oc[dr]
  BY <1>1, <1>9
<1>11. QED
  BY <1>1, <1>9, <1>10 DEF EngTypes

\* A join under way is overtaken.
LEMMA OvertakesIs ==
  ASSUME OtherTypes, NEW x \in Drives, Overtakes(x)
  PROVE  /\ req' = [dr \in Drives |-> req'[dr]] /\ \A dr \in Drives : ReqIs(req'[dr])
         /\ \A dr \in Drives \ {x} : req'[dr] = req[dr]
         /\ req'[x].pc = req[x].pc /\ (req[x].pc = "joins" => req'[x].overtaken)
<1> DEFINE o == req[x].overtaken \/ req[x].pc = "joins"
<1>1. req' = [req EXCEPT ![x].overtaken = o] /\ (req[x].pc = "joins" => o)
  BY DEF Overtakes
<1> HIDE DEF o
<1>2. QED
  BY <1>1, ReqWith

LEMMA HearLabelsPush == ASSUME PushInv, HearLabels PROVE PushInv'
<1>11. loop.job.drive \in Drives /\ loop.job \in Jobs
  BY JobHas DEF HearLabels, PushInv, ToldTypes, LoopTypes
<1>12. PICK x \in Drives : x = loop.job.drive
  BY <1>11
<1>13. PICK v : v = loop.job.value
  OBVIOUS
<1>14. PICK out : out = IF loop.crossed THEN stale[x] \union {"labels"} ELSE stale[x] \ {"labels"}
  OBVIOUS
<1>1. /\ loop.pc = "labels heard" /\ loop' = [loop EXCEPT !.pc = "label", !.job = None] /\ UNCHANGED <<eng, req>>
      /\ LoopIs(loop) /\ loop.todo \subseteq Jobs /\ RecTypes /\ OtherTypes /\ DriveHeld(x)
  BY DEF HearLabels, PushInv, ToldTypes, LoopTypes, AllHeld
<1>2. LoopIs(loop') /\ loop'.pc = "label" /\ loop'.todo = loop.todo /\ loop'.job = None
  <2>1. LoopIs(loop) /\ loop' = [loop EXCEPT !.pc = "label", !.job = None]
    BY <1>1
  <2>2. QED
    BY <2>1 DEF LoopIs
<1>3. LoopTypes' /\ EngTypes'
  BY <1>1, <1>2 DEF PushInv, ToldTypes, LoopTypes, EngTypes
<1>4. SlabsRead'
  BY <1>2 DEF SlabsRead
<1>10. loop.pc = "labels heard" /\ eng' = eng /\ req' = req /\ DriveHeld(x) /\ x \in Drives
  BY <1>1
<1>5. \A dr \in Drives \ {x} : loop.job.drive # dr
  BY <1>12
<1>6. ASSUME RecTypes', OtherTypes', \A dr \in Drives \ {x} : rec'[dr] = rec[dr] /\ stale'[dr] = stale[dr],
             rec'[x].place = rec[x].place, rec'[x].usage = rec[x].usage, rec'[x].oc = rec[x].oc, DriveHeld(x)'
      PROVE  PushInv'
  <2>1. \A dr \in Drives \ {x} : DriveHeld(dr)'
    <3>1. SUFFICES ASSUME NEW dr \in Drives, dr # x
                   PROVE  DriveHeld(dr)'
      OBVIOUS
    <3>2. DriveHeld(dr) /\ loop.job.drive # dr /\ loop'.pc \notin Awaits
      BY <1>2, <1>5, <3>1 DEF PushInv, AllHeld, Awaits
    <3>3. QED
      BY <1>6, <1>10, <3>1, <3>2, HeldFrame
  <2>2. AllHeld'
    BY <1>6, <2>1 DEF AllHeld
  <2>3. \A dr \in Drives : rec'[dr].place = rec[dr].place /\ rec'[dr].usage = rec[dr].usage /\ rec'[dr].oc = rec[dr].oc
    BY <1>6
  <2>4. UsageOK'
    BY <2>3, UsageFrame DEF PushInv
  <2>5. PlacesSent'
    BY <1>1, <1>2, <2>3, PlacesFrame DEF PushInv
  <2>6. QED
    BY <1>3, <1>4, <1>6, <2>2, <2>4, <2>5 DEF PushInv, ToldTypes
<1>7. CASE ~loop.found
  <2>1. UNCHANGED <<rec, stale>>
    BY <1>7 DEF HearLabels
  <2>2. RecTypes' /\ OtherTypes'
    BY <1>1, <2>1 DEF RecTypes, OtherTypes
  <2>3. DriveHeld(x)'
    <3>1. LabelsHeld(x)' /\ OcHeld(x)'
      BY <1>2, <1>7, <1>10, <2>1 DEF DriveHeld, LabelsHeld, OcHeld, AtWork, Retiring
    <3>2. LabelsSent(x)' /\ OcSent(x)' /\ JoinHeld(x)'
      BY <1>2, <1>10, <2>1 DEF DriveHeld, LabelsSent, OcSent, JoinHeld, AtWork
    <3>3. QED
      BY <3>1, <3>2 DEF DriveHeld
  <2>4. QED
    BY <1>6, <2>1, <2>2, <2>3
<1>8. CASE loop.found
  <2> DEFINE n == [rec[x] EXCEPT !.labels = v]
  <2>1. rec' = [rec EXCEPT ![x] = n] /\ stale' = [stale EXCEPT ![x] = out]
    BY <1>8, <1>12, <1>13, <1>14 DEF HearLabels, Told
  <2>2. RecIs(n) /\ n.labels = v /\ n.place = rec[x].place /\ n.oc = rec[x].oc /\ n.pushedOc = rec[x].pushedOc
        /\ n.usage = rec[x].usage
    <3> DEFINE r == rec[x]
    <3>1. RecIs(r)
      BY <1>1, <1>10 DEF RecTypes
    <3> HIDE DEF r
    <3>2. RecIs([r EXCEPT !.labels = v]) /\ [r EXCEPT !.labels = v].labels = v /\ [r EXCEPT !.labels = v].place = r.place
          /\ [r EXCEPT !.labels = v].oc = r.oc /\ [r EXCEPT !.labels = v].pushedOc = r.pushedOc
          /\ [r EXCEPT !.labels = v].usage = r.usage
      BY <3>1, RecWith
    <3>3. QED
      BY <3>2 DEF r
  <2>3. rec[x].oc \in Settings \union {0}
    BY <1>1, <1>10 DEF RecTypes
  <2> HIDE DEF n
  <2>4. RecTypes' /\ rec'[x] = n /\ \A dr \in Drives \ {x} : rec'[dr] = rec[dr]
    BY <1>1, <1>10, <2>1, <2>2, <2>3, OneRec
  <2>5. (loop.crossed => "labels" \in out) /\ ("oc" \in out <=> "oc" \in stale[x])
    BY <1>14
  <2>6. stale' = [dr \in Drives |-> stale'[dr]] /\ stale'[x] = out /\ \A dr \in Drives \ {x} : stale'[dr] = stale[dr]
    BY <1>1, <1>10, <2>1, StaleWith
  <2>7. OtherTypes'
    BY <1>1, <2>6 DEF OtherTypes
  <2>8. LabelsHeld(x)'
    BY <1>2, <1>8, <1>10, <2>2, <1>12, <1>13, <2>4, <2>5, <2>6 DEF DriveHeld, LabelsHeld, LabelsSent, AtWork
  <2>9. OcHeld(x)'
    BY <1>2, <1>10, <2>2, <2>4, <2>5, <2>6 DEF DriveHeld, OcHeld, AtWork, Retiring
  <2>10. JoinHeld(x)' /\ LabelsSent(x)' /\ OcSent(x)'
    BY <1>2, <1>10 DEF DriveHeld, JoinHeld, LabelsSent, OcSent, AtWork
  <2>11. DriveHeld(x)'
    BY <2>8, <2>9, <2>10 DEF DriveHeld
  <2>12. QED
    BY <1>6, <2>2, <2>4, <2>6, <2>7, <2>11
<1>9. QED
  BY <1>7, <1>8

LEMMA HearOvercommitPush == ASSUME PushInv, HearOvercommit PROVE PushInv'
<1>11. loop.job.drive \in Drives /\ loop.job \in Jobs
  BY JobHas DEF HearOvercommit, PushInv, ToldTypes, LoopTypes
<1>12. PICK x \in Drives : x = loop.job.drive
  BY <1>11
<1>13. PICK v : v = loop.job.value
  OBVIOUS
<1>14. PICK out : out = IF loop.crossed THEN stale[x] \union {"oc"} ELSE stale[x] \ {"oc"}
  OBVIOUS
<1>1. /\ loop.pc = "price heard" /\ UNCHANGED <<eng, req>>
      /\ LoopIs(loop) /\ loop.todo \subseteq Jobs /\ RecTypes /\ OtherTypes /\ DriveHeld(x)
  BY DEF HearOvercommit, PushInv, ToldTypes, LoopTypes, AllHeld
<1>2. LoopIs(loop') /\ loop'.pc \in {"price", "drains"} /\ loop'.todo \subseteq loop.todo /\ loop'.job = None
  <2>1. CASE loop.found
    <3>1. loop' = [loop EXCEPT !.pc = "price", !.job = None]
      BY <2>1 DEF HearOvercommit
    <3>2. QED
      BY <1>1, <3>1 DEF LoopIs
  <2>2. CASE ~loop.found
    <3>1. loop' = [loop EXCEPT !.pc = "drains", !.job = None, !.todo = {}, !.paused = TRUE]
      BY <2>2 DEF HearOvercommit
    <3>2. QED
      BY <1>1, <3>1 DEF LoopIs
  <2>3. QED
    BY <2>1, <2>2
<1>3. LoopTypes' /\ EngTypes'
  BY <1>1, <1>2 DEF PushInv, ToldTypes, LoopTypes, EngTypes
<1>4. SlabsRead'
  BY <1>2 DEF SlabsRead
<1>10. loop.pc = "price heard" /\ eng' = eng /\ req' = req /\ DriveHeld(x) /\ x \in Drives
  BY <1>1
<1>5. \A dr \in Drives \ {x} : loop.job.drive # dr
  BY <1>12
<1>6. ASSUME RecTypes', OtherTypes', \A dr \in Drives \ {x} : rec'[dr] = rec[dr] /\ stale'[dr] = stale[dr],
             rec'[x].place = rec[x].place, rec'[x].usage = rec[x].usage, rec'[x].oc = rec[x].oc, DriveHeld(x)'
      PROVE  PushInv'
  <2>1. \A dr \in Drives \ {x} : DriveHeld(dr)'
    <3>1. SUFFICES ASSUME NEW dr \in Drives, dr # x
                   PROVE  DriveHeld(dr)'
      OBVIOUS
    <3>2. DriveHeld(dr) /\ loop.job.drive # dr /\ loop'.pc \notin Awaits
      BY <1>2, <1>5, <3>1 DEF PushInv, AllHeld, Awaits
    <3>3. QED
      BY <1>6, <1>10, <3>1, <3>2, HeldFrame
  <2>2. AllHeld'
    BY <1>6, <2>1 DEF AllHeld
  <2>3. \A dr \in Drives : rec'[dr].place = rec[dr].place /\ rec'[dr].usage = rec[dr].usage /\ rec'[dr].oc = rec[dr].oc
    BY <1>6
  <2>4. UsageOK'
    BY <2>3, UsageFrame DEF PushInv
  <2>5. PlacesSent'
    BY <1>2 DEF PlacesSent
  <2>6. QED
    BY <1>3, <1>4, <1>6, <2>2, <2>4, <2>5 DEF PushInv, ToldTypes
<1>7. CASE ~loop.found
  <2>1. UNCHANGED <<rec, stale>>
    BY <1>7 DEF HearOvercommit
  <2>2. RecTypes' /\ OtherTypes'
    BY <1>1, <2>1 DEF RecTypes, OtherTypes
  <2>3. DriveHeld(x)'
    <3>1. LabelsHeld(x)' /\ OcHeld(x)'
      BY <1>2, <1>7, <1>10, <2>1 DEF DriveHeld, LabelsHeld, OcHeld, AtWork, Retiring
    <3>2. LabelsSent(x)' /\ OcSent(x)' /\ JoinHeld(x)'
      BY <1>2, <1>10, <2>1 DEF DriveHeld, LabelsSent, OcSent, JoinHeld, AtWork
    <3>3. QED
      BY <3>1, <3>2 DEF DriveHeld
  <2>4. QED
    BY <1>6, <2>1, <2>2, <2>3
<1>8. CASE loop.found
  <2> DEFINE n == [rec[x] EXCEPT !.pushedOc = v]
  <2>1. rec' = [rec EXCEPT ![x] = n] /\ stale' = [stale EXCEPT ![x] = out]
    BY <1>8, <1>12, <1>13, <1>14 DEF HearOvercommit, Told
  <2>2. RecIs(n) /\ n.pushedOc = v /\ n.place = rec[x].place /\ n.oc = rec[x].oc /\ n.labels = rec[x].labels
        /\ n.usage = rec[x].usage
    <3> DEFINE r == rec[x]
    <3>1. RecIs(r)
      BY <1>1, <1>10 DEF RecTypes
    <3> HIDE DEF r
    <3>2. RecIs([r EXCEPT !.pushedOc = v]) /\ [r EXCEPT !.pushedOc = v].pushedOc = v /\ [r EXCEPT !.pushedOc = v].place = r.place
          /\ [r EXCEPT !.pushedOc = v].oc = r.oc /\ [r EXCEPT !.pushedOc = v].labels = r.labels
          /\ [r EXCEPT !.pushedOc = v].usage = r.usage
      BY <3>1, RecWith
    <3>3. QED
      BY <3>2 DEF r
  <2>3. rec[x].oc \in Settings \union {0}
    BY <1>1, <1>10 DEF RecTypes
  <2> HIDE DEF n
  <2>4. RecTypes' /\ rec'[x] = n /\ \A dr \in Drives \ {x} : rec'[dr] = rec[dr]
    BY <1>1, <1>10, <2>1, <2>2, <2>3, OneRec
  <2>5. (loop.crossed => "oc" \in out) /\ ("labels" \in out <=> "labels" \in stale[x])
    BY <1>14
  <2>6. stale' = [dr \in Drives |-> stale'[dr]] /\ stale'[x] = out /\ \A dr \in Drives \ {x} : stale'[dr] = stale[dr]
    BY <1>1, <1>10, <2>1, StaleWith
  <2>7. OtherTypes'
    BY <1>1, <2>6 DEF OtherTypes
  <2>8. OcHeld(x)'
    BY <1>2, <1>8, <1>10, <1>12, <1>13, <2>2, <2>4, <2>5, <2>6 DEF DriveHeld, OcHeld, OcSent, AtWork
  <2>9. LabelsHeld(x)'
    BY <1>2, <1>10, <2>2, <2>4, <2>5, <2>6 DEF DriveHeld, LabelsHeld, AtWork, Retiring
  <2>10. JoinHeld(x)' /\ LabelsSent(x)' /\ OcSent(x)'
    BY <1>2, <1>10 DEF DriveHeld, JoinHeld, LabelsSent, OcSent, AtWork
  <2>11. DriveHeld(x)'
    BY <2>8, <2>9, <2>10 DEF DriveHeld
  <2>12. QED
    BY <1>6, <2>2, <2>4, <2>6, <2>7, <2>11
<1>9. QED
  BY <1>7, <1>8

\* A step that leaves what is said of the usage, where drives are and the jobs.
LEMMA UsageAndPlacesStay ==
  ASSUME PushInv, \A dr \in Drives : rec'[dr].place = rec[dr].place /\ rec'[dr].usage = rec[dr].usage /\ rec'[dr].oc = rec[dr].oc,
         loop'.pc = loop.pc, loop'.todo = loop.todo, loop'.job = loop.job, loop'.slabs = loop.slabs
  PROVE  UsageOK' /\ PlacesSent' /\ SlabsRead'
<1>1. UsageOK'
  BY UsageFrame DEF PushInv
<1>2. PlacesSent'
  BY PlacesFrame DEF PushInv
<1>3. SlabsRead'
  BY DEF PushInv, SlabsRead
<1>4. QED
  BY <1>1, <1>2, <1>3

LEMMA RetirePush == ASSUME PushInv, Retire PROVE PushInv'
<1>1. loop.pc = "drains" /\ UNCHANGED <<rec, stale>> /\ LoopIs(loop) /\ loop.todo \subseteq Jobs /\ loop.job \in Jobs \union {None}
      /\ EngTypes /\ OtherTypes
  BY DEF Retire, PushInv, ToldTypes, LoopTypes
<1>2. CASE At("rest") /\ UNCHANGED <<eng, req, left>>
  <2>1. LoopIs(loop') /\ loop'.pc = "rest" /\ loop'.todo = loop.todo /\ loop'.job = loop.job
    BY <1>1, <1>2, LoopWith DEF At
  <2>2. QED
    BY <1>1, <1>2, <2>1, LoopGoesOn DEF Awaits
<1>3. CASE ~(At("rest") /\ UNCHANGED <<eng, req, left>>)
  <2>1. PICK x \in eng.open : eng' = Closed(x) /\ Overtakes(x) /\ loop' = [loop EXCEPT !.pc = "retired", !.job = Job(x, None)]
    BY <1>3 DEF Retire
  <2>2. x \in Drives
    BY <1>1 DEF EngTypes
  <2>3. PICK job \in Jobs : job = Job(x, None) /\ job.drive = x
    BY <2>2, JobOf
  <2>4. LoopIs(loop') /\ loop'.pc = "retired" /\ loop'.todo = loop.todo /\ loop'.job = job
    BY <1>1, <2>1, <2>3 DEF LoopIs
  <2>5. EngTypes' /\ \A dr \in Drives \ {x} : eng'.labels[dr] = eng.labels[dr] /\ eng'.oc[dr] = eng.oc[dr]
    BY <1>1, <2>1, <2>2, ClosedIs
  <2>6. /\ req' = [dr \in Drives |-> req'[dr]] /\ \A dr \in Drives : ReqIs(req'[dr])
        /\ \A dr \in Drives \ {x} : req'[dr] = req[dr]
        /\ req'[x].pc = req[x].pc /\ (req[x].pc = "joins" => req'[x].overtaken)
    BY <1>1, <2>1, <2>2, OvertakesIs
  <2>7. LoopTypes' /\ OtherTypes'
    <3>1. job # None
      BY JobHas
    <3>2. LoopTypes'
      BY <1>1, <2>4, <3>1 DEF LoopTypes
    <3>3. OtherTypes'
      BY <1>1, <2>6 DEF OtherTypes
    <3>4. QED
      BY <3>2, <3>3
  <2>8. ASSUME NEW dr \in Drives, dr # x
        PROVE  DriveHeld(dr)'
    <3>1. loop.pc \notin Awaits /\ loop'.job.drive # dr /\ DriveHeld(dr)
      BY <1>1, <2>3, <2>4, <2>8 DEF Awaits, PushInv, AllHeld
    <3>2. QED
      BY <1>1, <2>5, <2>6, <2>8, <3>1, HeldFrame
  <2>9. DriveHeld(x)'
    <3>1. Retiring(x)' /\ ~AtWork(x, "labels heard")' /\ ~AtWork(x, "price heard")'
      BY <2>3, <2>4 DEF Retiring, AtWork
    <3>2. JoinHeld(x)'
      BY <2>6 DEF JoinHeld
    <3>3. QED
      BY <3>1, <3>2 DEF DriveHeld, LabelsHeld, LabelsSent, OcHeld, OcSent
  <2>10. AllHeld'
    BY <2>8, <2>9 DEF AllHeld
  <2>11. PlacesSent' /\ SlabsRead'
    BY <2>4 DEF PlacesSent, SlabsRead
  <2>12. QED
    BY <1>1, <2>5, <2>7, <2>10, <2>11, RecordsStay
<1>4. QED
  BY <1>2, <1>3

LEMMA RetiredPush == ASSUME PushInv, Retired PROVE PushInv'
<1>1. loop.job.drive \in Drives
  BY JobHas DEF Retired, PushInv, ToldTypes, LoopTypes
<1>2. PICK x \in Drives : x = loop.job.drive
  BY <1>1
<1> DEFINE r == rec[x]
           n == [member |-> FALSE, here |-> r.here, place |-> r.place, oc |-> r.oc, labels |-> None, pushedOc |-> None,
                 usage |-> r.usage]
<1>3. /\ loop.pc = "retired" /\ LoopIs(loop) /\ loop.todo \subseteq Jobs /\ UNCHANGED <<eng, req>>
      /\ rec' = [rec EXCEPT ![x].member = FALSE, ![x].labels = None, ![x].pushedOc = None]
      /\ stale' = [stale EXCEPT ![x] = {}]
      /\ loop' = [loop EXCEPT !.pc = "rest", !.job = None]
      /\ RecTypes /\ OtherTypes /\ EngTypes
  BY <1>2 DEF Retired, PushInv, ToldTypes, LoopTypes
<1>4. LoopIs(loop') /\ loop'.pc = "rest" /\ loop'.todo = loop.todo /\ loop'.job = None
  BY <1>3 DEF LoopIs
<1>5. RecIs(r) /\ r.oc \in Settings \union {0} /\ rec = [dr \in Drives |-> rec[dr]]
  BY <1>3 DEF RecTypes
<1>6. rec' = [dr \in Drives |-> rec'[dr]] /\ rec'[x] = n /\ \A dr \in Drives \ {x} : rec'[dr] = rec[dr]
  <2> DEFINE no == FALSE
             m1 == [rec EXCEPT ![x].member = no]
             m2 == [m1 EXCEPT ![x].labels = None]
  <2>1. rec' = [m2 EXCEPT ![x].pushedOc = None]
    BY <1>3
  <2> HIDE DEF no
  <2>2. m1 = [dr \in Drives |-> m1[dr]] /\ m1[x] = [r EXCEPT !.member = no] /\ \A dr \in Drives \ {x} : m1[dr] = rec[dr]
    BY <1>5
  <2>3. m1[x] = [member |-> no, here |-> r.here, place |-> r.place, oc |-> r.oc, labels |-> r.labels,
                 pushedOc |-> r.pushedOc, usage |-> r.usage]
    BY <1>5, <2>2 DEF RecIs
  <2> HIDE DEF m1
  <2>4. m2 = [dr \in Drives |-> m2[dr]] /\ m2[x] = [m1[x] EXCEPT !.labels = None] /\ \A dr \in Drives \ {x} : m2[dr] = m1[dr]
    BY <2>2
  <2>5. m2[x] = [member |-> no, here |-> r.here, place |-> r.place, oc |-> r.oc, labels |-> None,
                 pushedOc |-> r.pushedOc, usage |-> r.usage]
    BY <2>3, <2>4
  <2> HIDE DEF m2
  <2>6. rec' = [dr \in Drives |-> rec'[dr]] /\ rec'[x] = [m2[x] EXCEPT !.pushedOc = None] /\ \A dr \in Drives \ {x} : rec'[dr] = m2[dr]
    BY <2>1, <2>4
  <2>7. rec'[x] = [member |-> no, here |-> r.here, place |-> r.place, oc |-> r.oc, labels |-> None,
                   pushedOc |-> None, usage |-> r.usage]
    BY <2>5, <2>6
  <2>8. QED
    BY <2>2, <2>4, <2>6, <2>7 DEF no
<1>7. RecIs(n) /\ n.place = r.place /\ n.oc = r.oc /\ n.labels = None /\ n.pushedOc = None /\ n.usage = r.usage
  BY DEF RecIs
<1> HIDE DEF n
<1>8. RecTypes'
  BY <1>3, <1>5, <1>6, <1>7 DEF RecTypes
<1>9. stale' = [dr \in Drives |-> stale'[dr]] /\ \A dr \in Drives \ {x} : stale'[dr] = stale[dr]
  BY <1>3, StaleWith
<1>10. ToldTypes'
  BY <1>3, <1>4, <1>8, <1>9 DEF ToldTypes, EngTypes, LoopTypes, OtherTypes
<1>11. ASSUME NEW dr \in Drives, dr # x
       PROVE  DriveHeld(dr)'
  <2>1. loop'.pc \notin Awaits /\ loop.job.drive # dr /\ DriveHeld(dr) /\ rec'[dr] = rec[dr] /\ stale'[dr] = stale[dr]
    BY <1>2, <1>4, <1>6, <1>9, <1>11 DEF Awaits, PushInv, AllHeld
  <2>2. QED
    BY <1>3, <2>1, HeldFrame
<1>12. DriveHeld(x)'
  <2>1. JoinHeld(x)
    BY DEF PushInv, AllHeld, DriveHeld
  <2>2. JoinHeld(x)'
    BY <1>3, <2>1 DEF JoinHeld
  <2>3. QED
    BY <1>4, <1>6, <1>7, <2>2 DEF DriveHeld, LabelsHeld, LabelsSent, OcHeld, OcSent, AtWork
<1>13. AllHeld'
  BY <1>11, <1>12 DEF AllHeld
<1>14. UsageOK'
  <2>1. \A dr \in Drives : rec'[dr].usage = rec[dr].usage /\ rec'[dr].oc = rec[dr].oc
    BY <1>6, <1>7 DEF r
  <2>2. QED
    BY <2>1, UsageFrame DEF PushInv
<1>15. PlacesSent' /\ SlabsRead'
  BY <1>4 DEF PlacesSent, SlabsRead
<1>16. QED
  BY <1>10, <1>13, <1>14, <1>15 DEF PushInv

LEMMA SetOvercommitPush == ASSUME PushInv, NEW x \in Drives, NEW v \in Settings, SetOvercommit(x, v) PROVE PushInv'
<1> DEFINE r == rec[x]
           last == r.usage
           u == IF last = None THEN None ELSE Priced(last, v)
           n == [member |-> r.member, here |-> r.here, place |-> r.place, oc |-> v, labels |-> r.labels,
                 pushedOc |-> r.pushedOc, usage |-> u]
<1>1. UNCHANGED <<eng, loop, req, stale>> /\ rec' = [rec EXCEPT ![x].oc = v, ![x].usage = IF @ = None THEN None ELSE Priced(@, v)]
      /\ RecTypes /\ EngTypes /\ LoopTypes /\ OtherTypes
  BY DEF SetOvercommit, PushInv, ToldTypes
<1>2. RecIs(r) /\ r.place \in Places \union {None} /\ rec = [dr \in Drives |-> rec[dr]]
  BY <1>1 DEF RecTypes
<1>3. rec' = [dr \in Drives |-> rec'[dr]] /\ rec'[x] = n /\ \A dr \in Drives \ {x} : rec'[dr] = rec[dr]
  <2> DEFINE m1 == [rec EXCEPT ![x].oc = v]
  <2>1. rec' = [m1 EXCEPT ![x].usage = IF @ = None THEN None ELSE Priced(@, v)]
    BY <1>1
  <2>2. m1 = [dr \in Drives |-> m1[dr]] /\ m1[x] = [r EXCEPT !.oc = v] /\ \A dr \in Drives \ {x} : m1[dr] = rec[dr]
    BY <1>2
  <2>3. m1[x] = [member |-> r.member, here |-> r.here, place |-> r.place, oc |-> v, labels |-> r.labels,
                 pushedOc |-> r.pushedOc, usage |-> last]
    BY <1>2, <2>2 DEF RecIs
  <2> HIDE DEF m1, r
  <2>4. m1[x].usage = last
    BY <2>3
  <2>5. rec' = [m1 EXCEPT ![x].usage = u]
    BY <2>1, <2>4
  <2> HIDE DEF u
  <2>6. rec' = [dr \in Drives |-> rec'[dr]] /\ rec'[x] = [m1[x] EXCEPT !.usage = u] /\ \A dr \in Drives \ {x} : rec'[dr] = m1[dr]
    BY <2>2, <2>5
  <2>7. rec'[x] = n
    BY <2>3, <2>6
  <2>8. QED
    BY <2>2, <2>6, <2>7
<1>4. u # None => last # None /\ UsageOf(x, v, u) /\ u.slabs = last.slabs
  <2>1. SUFFICES ASSUME last # None
                 PROVE  UsageOf(x, v, Priced(last, v)) /\ Priced(last, v).slabs = last.slabs
    OBVIOUS
  <2>2. UsageOf(x, r.oc, last)
    BY <2>1 DEF PushInv, UsageOK
  <2> DEFINE p == Priced(last, v)
  <2> HIDE DEF last
  <2>3. UsageIs(p) /\ p.slabs = last.slabs /\ p.promisable = p.inSlabs * Factor(v)
        /\ p.volumes = last.volumes /\ p.volumesAt = last.volumesAt
    BY <2>2, PricedAgain DEF UsageOf
  <2> HIDE DEF p
  <2>4. UsageOf(x, v, p) /\ p.slabs = last.slabs
    BY <2>2, <2>3 DEF UsageOf
  <2>5. QED
    BY <2>4 DEF p
<1> HIDE DEF u
<1>5. RecIs(n) /\ n.place = r.place /\ n.oc = v /\ n.labels = r.labels /\ n.pushedOc = r.pushedOc /\ n.usage = u
  BY DEF RecIs
<1> HIDE DEF n
<1>6. RecTypes'
  BY <1>1, <1>2, <1>3, <1>5 DEF RecTypes
<1>7. ToldTypes'
  BY <1>1, <1>6 DEF ToldTypes, EngTypes, LoopTypes, OtherTypes
<1>8. AllHeld'
  <2>1. \A dr \in Drives : rec'[dr].labels = rec[dr].labels /\ rec'[dr].pushedOc = rec[dr].pushedOc
    BY <1>3, <1>5
  <2>2. QED
    BY <1>1, <2>1, HeldFrame DEF PushInv, AllHeld
<1>9. UsageOK'
  <2>1. PICK i \in DOMAIN Listings : \A dr \in Drives :
            rec[dr].usage # None => rec[dr].usage.slabs = OnDrive(dr, Listings[i].slabs)
    BY DEF PushInv, UsageOK
  <2>2. \A dr \in Drives : rec'[dr].usage # None => rec'[dr].usage.slabs = OnDrive(dr, Listings[i].slabs)
    BY <1>3, <1>4, <1>5, <2>1
  <2>3. \A dr \in Drives : rec'[dr].usage # None => UsageOf(dr, rec'[dr].oc, rec'[dr].usage)
    BY <1>3, <1>4, <1>5 DEF PushInv, UsageOK
  <2>4. (\A dr \in Drives : rec[dr].usage # None => UsageOf(dr, rec[dr].oc, rec[dr].usage))'
    BY <2>3 DEF UsageOf, UsageIs
  <2>5. QED
    BY <2>2, <2>4 DEF UsageOK, OnDrive
<1>10. PlacesSent'
  <2>1. \A dr \in Drives : rec'[dr].place = rec[dr].place
    BY <1>3, <1>5
  <2>2. QED
    BY <1>1, <2>1, PlacesFrame DEF PushInv
<1>11. SlabsRead'
  BY <1>1 DEF PushInv, SlabsRead
<1>12. QED
  BY <1>7, <1>8, <1>9, <1>10, <1>11 DEF PushInv

\* A record of a request that takes the place of another.
LEMMA OtherReq ==
  ASSUME OtherTypes, NEW x \in Drives, NEW q, ReqIs(q), req' = [req EXCEPT ![x] = q]
  PROVE  /\ req' = [dr \in Drives |-> req'[dr]] /\ \A dr \in Drives : ReqIs(req'[dr])
         /\ req'[x] = q /\ \A dr \in Drives \ {x} : req'[dr] = req[dr]
<1>1. req' = [dr \in Drives |-> req'[dr]] /\ req'[x] = q /\ \A dr \in Drives \ {x} : req'[dr] = req[dr]
  BY DEF OtherTypes
<1>2. QED
  BY <1>1 DEF OtherTypes

LEMMA JoinPush == ASSUME PushInv, NEW x \in Drives, Join(x) PROVE PushInv'
<1> DEFINE p == rec[x].place
           q == [NoReq EXCEPT !.pc = "joins", !.place = p]
           o == eng.open \union {x}
           ls == [eng.labels EXCEPT ![x] = p]
           m1 == [eng EXCEPT !.open = o]
           no == FALSE
<1>1. /\ req[x].pc = "none" /\ UNCHANGED <<rec, loop, stale>>
      /\ eng' = [eng EXCEPT !.open = @ \union {x}, !.labels[x] = p] /\ req' = [req EXCEPT ![x] = q]
      /\ EngTypes /\ LoopTypes /\ OtherTypes /\ DriveHeld(x) /\ PlacesSent
  BY DEF Join, PushInv, ToldTypes, AllHeld
<1>2. /\ EngIs(eng) /\ eng.labels = [dr \in Drives |-> eng.labels[dr]] /\ eng.oc = [dr \in Drives |-> eng.oc[dr]]
      /\ eng.open \subseteq Drives /\ eng.listing \in DOMAIN Listings
  BY <1>1 DEF EngTypes
<1>3. q = [pc |-> "joins", place |-> p, overtaken |-> FALSE]
  <2> DEFINE j == [NoReq EXCEPT !.pc = "joins"]
  <2>1. NoReq = [pc |-> "none", place |-> None, overtaken |-> no]
    BY DEF NoReq
  <2> HIDE DEF p, no
  <2>2. j = [pc |-> "joins", place |-> None, overtaken |-> no]
    BY <2>1
  <2>3. q = [j EXCEPT !.place = p]
    OBVIOUS
  <2> HIDE DEF j, q
  <2>4. q = [pc |-> "joins", place |-> p, overtaken |-> no]
    BY <2>2, <2>3
  <2>5. QED
    BY <2>4 DEF no
<1>4. eng' = [open |-> o, labels |-> ls, oc |-> eng.oc, routes |-> eng.routes, listing |-> eng.listing]
  <2>1. eng' = [m1 EXCEPT !.labels[x] = p]
    BY <1>1
  <2> HIDE DEF o, p
  <2>2. m1 = [open |-> o, labels |-> eng.labels, oc |-> eng.oc, routes |-> eng.routes, listing |-> eng.listing]
    BY <1>2 DEF EngIs
  <2> HIDE DEF m1
  <2>3. [m1 EXCEPT !.labels[x] = p] = [m1 EXCEPT !.labels = ls]
    BY <2>2
  <2> HIDE DEF ls
  <2>4. [m1 EXCEPT !.labels = ls] = [open |-> o, labels |-> ls, oc |-> eng.oc, routes |-> eng.routes, listing |-> eng.listing]
    BY <2>2
  <2>5. QED
    BY <2>1, <2>3, <2>4
<1> HIDE DEF q, m1, no
<1>5. EngIs(eng') /\ eng'.open = o /\ eng'.labels = ls /\ eng'.oc = eng.oc /\ eng'.listing = eng.listing
  BY <1>4 DEF EngIs
<1>6. eng'.labels = [dr \in Drives |-> eng'.labels[dr]] /\ eng'.labels[x] = p
      /\ \A dr \in Drives \ {x} : eng'.labels[dr] = eng.labels[dr]
  BY <1>2, <1>5
<1>7. EngTypes'
  BY <1>2, <1>5, <1>6 DEF EngTypes
<1>8. ReqIs(q) /\ q.pc = "joins" /\ q.place = p
  BY <1>3 DEF ReqIs
<1>9. /\ req' = [dr \in Drives |-> req'[dr]] /\ \A dr \in Drives : ReqIs(req'[dr])
      /\ req'[x] = q /\ \A dr \in Drives \ {x} : req'[dr] = req[dr]
  BY <1>1, <1>8, OtherReq
<1>10. LoopTypes' /\ OtherTypes'
  BY <1>1, <1>9 DEF LoopTypes, OtherTypes
<1>11. ASSUME NEW dr \in Drives, dr # x
       PROVE  DriveHeld(dr)'
  <2>1. DriveHeld(dr) /\ eng'.oc[dr] = eng.oc[dr] /\ eng'.labels[dr] = eng.labels[dr] /\ req'[dr] = req[dr]
    BY <1>5, <1>6, <1>9, <1>11 DEF PushInv, AllHeld
  <2>2. QED
    BY <1>1, <2>1, HeldFrame
<1>12. DriveHeld(x)'
  <2>1. LabelsHeld(x)' /\ JoinHeld(x)'
    BY <1>6, <1>8, <1>9 DEF LabelsHeld, JoinHeld
  <2>2. LabelsSent(x)'
    BY <1>1, <1>6 DEF LabelsSent, AtWork, PlacesSent
  <2>3. OcHeld(x)' /\ OcSent(x)'
    BY <1>1, <1>5 DEF DriveHeld, OcHeld, OcSent, AtWork, Retiring
  <2>4. QED
    BY <2>1, <2>2, <2>3 DEF DriveHeld
<1>13. AllHeld'
  BY <1>11, <1>12 DEF AllHeld
<1>14. PlacesSent' /\ SlabsRead'
  BY <1>1 DEF PushInv, PlacesSent, SlabsRead
<1>15. QED
  BY <1>1, <1>7, <1>10, <1>13, <1>14, RecordsStay

LEMMA JoinedPush == ASSUME PushInv, NEW x \in Drives, Joined(x) PROVE PushInv'
<1> DEFINE r == rec[x]
           p == req[x].place
           n == [member |-> TRUE, here |-> r.here, place |-> r.place, oc |-> r.oc, labels |-> p, pushedOc |-> None,
                 usage |-> r.usage]
           s == IF req[x].overtaken THEN {"labels"} ELSE {}
<1>1. /\ req[x].pc = "joins" /\ UNCHANGED <<eng, loop>>
      /\ rec' = [rec EXCEPT ![x].member = TRUE, ![x].labels = p, ![x].pushedOc = None]
      /\ stale' = [stale EXCEPT ![x] = s] /\ req' = [req EXCEPT ![x] = NoReq]
      /\ RecTypes /\ EngTypes /\ LoopTypes /\ OtherTypes /\ DriveHeld(x)
  BY DEF Joined, PushInv, ToldTypes, AllHeld
<1>2. RecIs(r) /\ r.oc \in Settings \union {0} /\ rec = [dr \in Drives |-> rec[dr]]
  BY <1>1 DEF RecTypes
<1>3. "labels" \notin s => ~req[x].overtaken
  OBVIOUS
<1>4. rec' = [rec EXCEPT ![x] = n]
  <2> DEFINE yes == TRUE
             m1 == [rec EXCEPT ![x].member = yes]
             m2 == [m1 EXCEPT ![x].labels = p]
  <2>1. rec' = [m2 EXCEPT ![x].pushedOc = None]
    BY <1>1
  <2> HIDE DEF yes, p
  <2>2. m1 = [dr \in Drives |-> m1[dr]] /\ m1[x] = [r EXCEPT !.member = yes] /\ \A dr \in Drives \ {x} : m1[dr] = rec[dr]
    BY <1>2
  <2>3. m1[x] = [member |-> yes, here |-> r.here, place |-> r.place, oc |-> r.oc, labels |-> r.labels,
                 pushedOc |-> r.pushedOc, usage |-> r.usage]
    BY <1>2, <2>2 DEF RecIs
  <2> HIDE DEF m1
  <2>4. m2 = [dr \in Drives |-> m2[dr]] /\ m2[x] = [m1[x] EXCEPT !.labels = p] /\ \A dr \in Drives \ {x} : m2[dr] = m1[dr]
    BY <2>2
  <2>5. m2[x] = [member |-> yes, here |-> r.here, place |-> r.place, oc |-> r.oc, labels |-> p,
                 pushedOc |-> r.pushedOc, usage |-> r.usage]
    BY <2>3, <2>4
  <2> HIDE DEF m2
  <2>6. rec' = [dr \in Drives |-> rec'[dr]] /\ rec'[x] = [m2[x] EXCEPT !.pushedOc = None] /\ \A dr \in Drives \ {x} : rec'[dr] = m2[dr]
    BY <2>1, <2>4
  <2>7. rec'[x] = [member |-> yes, here |-> r.here, place |-> r.place, oc |-> r.oc, labels |-> p,
                   pushedOc |-> None, usage |-> r.usage]
    BY <2>5, <2>6
  <2>8. rec'[x] = n
    BY <2>7 DEF yes
  <2> HIDE DEF n
  <2>9. QED
    BY <1>2, <2>2, <2>4, <2>6, <2>8
<1>5. RecIs(n) /\ n.place = r.place /\ n.oc = r.oc /\ n.labels = p /\ n.pushedOc = None /\ n.usage = r.usage
  BY DEF RecIs
<1> HIDE DEF n
<1>6. RecTypes' /\ rec'[x] = n /\ \A dr \in Drives \ {x} : rec'[dr] = rec[dr]
  BY <1>1, <1>2, <1>4, <1>5, OneRec
<1> HIDE DEF s
<1>7. stale' = [dr \in Drives |-> stale'[dr]] /\ stale'[x] = s /\ \A dr \in Drives \ {x} : stale'[dr] = stale[dr]
  BY <1>1, StaleWith
<1>8. ReqIs(NoReq) /\ NoReq.pc = "none"
  BY DEF ReqIs, NoReq
<1>9. /\ req' = [dr \in Drives |-> req'[dr]] /\ \A dr \in Drives : ReqIs(req'[dr])
      /\ req'[x] = NoReq /\ \A dr \in Drives \ {x} : req'[dr] = req[dr]
  BY <1>1, <1>8, OtherReq
<1>10. ToldTypes'
  BY <1>1, <1>6, <1>7, <1>9 DEF ToldTypes, EngTypes, LoopTypes, OtherTypes
<1>11. ASSUME NEW dr \in Drives, dr # x
       PROVE  DriveHeld(dr)'
  <2>1. DriveHeld(dr) /\ rec'[dr] = rec[dr] /\ stale'[dr] = stale[dr] /\ req'[dr] = req[dr]
    BY <1>6, <1>7, <1>9, <1>11 DEF PushInv, AllHeld
  <2>2. QED
    BY <1>1, <2>1, HeldFrame
<1>12. DriveHeld(x)'
  <2>1. LabelsHeld(x)'
    BY <1>1, <1>3, <1>5, <1>6, <1>7 DEF DriveHeld, LabelsHeld, JoinHeld
  <2>2. JoinHeld(x)'
    BY <1>8, <1>9 DEF JoinHeld
  <2>3. LabelsSent(x)' /\ OcSent(x)'
    BY <1>1 DEF DriveHeld, LabelsSent, OcSent, AtWork
  <2>4. OcHeld(x)'
    BY <1>5, <1>6 DEF OcHeld
  <2>5. QED
    BY <2>1, <2>2, <2>3, <2>4 DEF DriveHeld
<1>13. AllHeld'
  BY <1>11, <1>12 DEF AllHeld
<1>14. \A dr \in Drives : rec'[dr].place = rec[dr].place /\ rec'[dr].usage = rec[dr].usage /\ rec'[dr].oc = rec[dr].oc
  BY <1>5, <1>6
<1>15. UsageOK' /\ PlacesSent' /\ SlabsRead'
  BY <1>1, <1>14, UsageAndPlacesStay
<1>16. QED
  BY <1>10, <1>13, <1>15 DEF PushInv

LEMMA LeftPush == ASSUME PushInv, NEW x \in Drives, Left(x) PROVE PushInv'
<1> DEFINE no == FALSE
           n == [rec[x] EXCEPT !.member = no]
<1>1. /\ req[x].pc = "leaves" /\ UNCHANGED <<eng, loop, stale>>
      /\ rec' = [rec EXCEPT ![x].member = FALSE] /\ req' = [req EXCEPT ![x] = NoReq]
      /\ RecTypes /\ EngTypes /\ LoopTypes /\ OtherTypes /\ DriveHeld(x)
  BY DEF Left, PushInv, ToldTypes, AllHeld
<1>2. rec' = [rec EXCEPT ![x] = n]
  BY <1>1
<1> HIDE DEF no
<1>3. RecIs(rec[x]) /\ rec[x].oc \in Settings \union {0}
  BY <1>1 DEF RecTypes
<1>4. RecIs(n) /\ n.labels = rec[x].labels /\ n.place = rec[x].place /\ n.oc = rec[x].oc /\ n.pushedOc = rec[x].pushedOc
      /\ n.usage = rec[x].usage
  BY <1>3, RecWith
<1> HIDE DEF n
<1>5. RecTypes' /\ rec'[x] = n /\ \A dr \in Drives \ {x} : rec'[dr] = rec[dr]
  BY <1>1, <1>2, <1>3, <1>4, OneRec
<1>6. ReqIs(NoReq) /\ NoReq.pc = "none"
  BY DEF ReqIs, NoReq
<1>7. /\ req' = [dr \in Drives |-> req'[dr]] /\ \A dr \in Drives : ReqIs(req'[dr])
      /\ req'[x] = NoReq /\ \A dr \in Drives \ {x} : req'[dr] = req[dr]
  BY <1>1, <1>6, OtherReq
<1>8. ToldTypes'
  BY <1>1, <1>5, <1>7 DEF ToldTypes, EngTypes, LoopTypes, OtherTypes
<1>9. ASSUME NEW dr \in Drives, dr # x
      PROVE  DriveHeld(dr)'
  <2>1. DriveHeld(dr) /\ rec'[dr] = rec[dr] /\ req'[dr] = req[dr]
    BY <1>5, <1>7, <1>9 DEF PushInv, AllHeld
  <2>2. QED
    BY <1>1, <2>1, HeldFrame
<1>10. DriveHeld(x)'
  <2>1. LabelsHeld(x)'
    BY <1>1, <1>4, <1>5 DEF DriveHeld, LabelsHeld, AtWork, Retiring
  <2>2. JoinHeld(x)'
    BY <1>6, <1>7 DEF JoinHeld
  <2>3. LabelsSent(x)' /\ OcSent(x)'
    BY <1>1 DEF DriveHeld, LabelsSent, OcSent, AtWork
  <2>4. OcHeld(x)'
    BY <1>1, <1>4, <1>5 DEF DriveHeld, OcHeld, AtWork, Retiring
  <2>5. QED
    BY <2>1, <2>2, <2>3, <2>4 DEF DriveHeld
<1>11. AllHeld'
  BY <1>9, <1>10 DEF AllHeld
<1>12. \A dr \in Drives : rec'[dr].place = rec[dr].place /\ rec'[dr].usage = rec[dr].usage /\ rec'[dr].oc = rec[dr].oc
  BY <1>4, <1>5
<1>13. UsageOK' /\ PlacesSent' /\ SlabsRead'
  BY <1>1, <1>12, UsageAndPlacesStay
<1>14. QED
  BY <1>8, <1>11, <1>13 DEF PushInv

\* Whatever else the engine does to a drive it closes, what it is told of it is lost.
LEMMA ClosedByOther ==
  ASSUME PushInv, NEW x \in Drives, eng' = Closed(x), loop' = Crossed(x), UNCHANGED rec,
         stale' = [stale EXCEPT ![x] = {"labels", "oc"}],
         req' = [dr \in Drives |-> req'[dr]], \A dr \in Drives : ReqIs(req'[dr]),
         \A dr \in Drives \ {x} : req'[dr] = req[dr], req'[x].pc = "joins" => req'[x].overtaken
  PROVE  PushInv'
<1>1. EngTypes /\ LoopTypes /\ OtherTypes /\ LoopIs(loop) /\ loop.todo \subseteq Jobs
  BY DEF PushInv, ToldTypes, LoopTypes
<1>2. EngTypes' /\ \A dr \in Drives \ {x} : eng'.labels[dr] = eng.labels[dr] /\ eng'.oc[dr] = eng.oc[dr]
  BY <1>1, ClosedIs
<1>3. /\ LoopIs(loop') /\ loop'.pc = loop.pc /\ loop'.slabs = loop.slabs /\ loop'.todo = loop.todo /\ loop'.job = loop.job
      /\ loop'.found = loop.found
      /\ loop'.crossed = (loop.crossed \/ (loop.job # None /\ loop.job.drive = x))
  BY <1>1, CrossedIs
<1>4. stale' = [dr \in Drives |-> stale'[dr]] /\ stale'[x] = {"labels", "oc"}
      /\ \A dr \in Drives \ {x} : stale'[dr] = stale[dr]
  BY <1>1, StaleWith
<1>5. LoopTypes' /\ OtherTypes'
  BY <1>1, <1>3, <1>4 DEF LoopTypes, OtherTypes
<1>6. ASSUME NEW dr \in Drives, dr # x
      PROVE  DriveHeld(dr)'
  <2>1. DriveHeld(dr) /\ eng'.labels[dr] = eng.labels[dr] /\ eng'.oc[dr] = eng.oc[dr] /\ req'[dr] = req[dr]
        /\ stale'[dr] = stale[dr]
    BY <1>2, <1>4, <1>6 DEF PushInv, AllHeld
  <2>2. QED
    BY <1>3, <2>1, HeldFrame
<1>7. DriveHeld(x)'
  <2>1. LabelsHeld(x)' /\ OcHeld(x)'
    BY <1>4 DEF LabelsHeld, OcHeld
  <2>2. JoinHeld(x)'
    BY DEF JoinHeld
  <2>3. AtWork(x, "labels heard")' \/ AtWork(x, "price heard")' => loop.job # None /\ loop.job.drive = x
    BY <1>1, <1>3 DEF AtWork, LoopTypes
  <2>4. LabelsSent(x)' /\ OcSent(x)'
    BY <1>3, <2>3 DEF LabelsSent, OcSent
  <2>5. QED
    BY <2>1, <2>2, <2>4 DEF DriveHeld
<1>8. AllHeld'
  BY <1>6, <1>7 DEF AllHeld
<1>9. UsageOK' /\ PlacesSent' /\ SlabsRead'
  BY <1>3, UsageAndPlacesStay
<1>10. QED
  BY <1>2, <1>5, <1>8, <1>9, RecordsStay

LEMMA LeavePush == ASSUME PushInv, NEW x \in Drives, Leave(x) PROVE PushInv'
<1> DEFINE q == [req[x] EXCEPT !.pc = "leaves"]
<1>1. /\ eng' = Closed(x) /\ loop' = Crossed(x) /\ stale' = [stale EXCEPT ![x] = {"labels", "oc"}]
      /\ UNCHANGED rec /\ OtherTypes /\ ReqIs(req[x])
  BY DEF Leave, PushInv, ToldTypes, OtherTypes
<1>2. req' = [req EXCEPT ![x] = q]
  BY DEF Leave
<1>3. q = [pc |-> "leaves", place |-> req[x].place, overtaken |-> req[x].overtaken]
  BY <1>1 DEF ReqIs
<1>4. ReqIs(q) /\ q.pc = "leaves"
  BY <1>3 DEF ReqIs
<1> HIDE DEF q
<1>5. /\ req' = [dr \in Drives |-> req'[dr]] /\ \A dr \in Drives : ReqIs(req'[dr])
      /\ req'[x] = q /\ \A dr \in Drives \ {x} : req'[dr] = req[dr]
  BY <1>1, <1>2, <1>4, OtherReq
<1>6. QED
  BY <1>1, <1>4, <1>5, ClosedByOther

LEMMA EngineMovesOnPush == ASSUME PushInv, EngineMovesOn PROVE PushInv'
<1>1. EngTypes /\ LoopTypes /\ OtherTypes /\ UNCHANGED rec
  BY DEF EngineMovesOn, PushInv, ToldTypes
<1>2. /\ EngIs(eng) /\ eng.labels = [dr \in Drives |-> eng.labels[dr]] /\ eng.oc = [dr \in Drives |-> eng.oc[dr]]
      /\ eng.open \subseteq Drives /\ eng.listing \in DOMAIN Listings
  BY <1>1 DEF EngTypes
<1>3. ASSUME EngTypes', eng'.labels = eng.labels, eng'.oc = eng.oc, UNCHANGED <<loop, req, stale>>
      PROVE  PushInv'
  <2>1. LoopTypes' /\ OtherTypes' /\ PlacesSent' /\ SlabsRead'
    BY <1>1, <1>3 DEF PushInv, LoopTypes, OtherTypes, PlacesSent, SlabsRead
  <2>2. AllHeld'
    BY <1>1, <1>3, HeldFrame DEF PushInv, AllHeld
  <2>3. QED
    BY <1>1, <1>3, <2>1, <2>2, RecordsStay
<1>4. CASE eng.listing < Len(Listings) /\ eng' = [eng EXCEPT !.listing = @ + 1] /\ UNCHANGED <<loop, req, stale>>
  <2> DEFINE i == eng.listing + 1
  <2>1. i \in DOMAIN Listings
    BY <1>2, <1>4, ListingsAssumption
  <2>2. eng' = [eng EXCEPT !.listing = i]
    BY <1>4
  <2> HIDE DEF i
  <2>3. eng' = [open |-> eng.open, labels |-> eng.labels, oc |-> eng.oc, routes |-> eng.routes, listing |-> i]
    BY <1>2, <2>2 DEF EngIs
  <2>4. EngIs(eng') /\ eng'.open = eng.open /\ eng'.labels = eng.labels /\ eng'.oc = eng.oc /\ eng'.listing = i
    BY <2>3 DEF EngIs
  <2>5. EngTypes'
    BY <1>2, <2>1, <2>4 DEF EngTypes
  <2>6. QED
    BY <1>3, <1>4, <2>4, <2>5
<1>5. CASE eng' = [eng EXCEPT !.routes = TRUE] /\ UNCHANGED <<loop, req, stale>>
  <2> DEFINE yes == TRUE
  <2>1. eng' = [eng EXCEPT !.routes = yes]
    BY <1>5
  <2> HIDE DEF yes
  <2>2. eng' = [open |-> eng.open, labels |-> eng.labels, oc |-> eng.oc, routes |-> yes, listing |-> eng.listing]
    BY <1>2, <2>1 DEF EngIs
  <2>3. EngIs(eng') /\ eng'.open = eng.open /\ eng'.labels = eng.labels /\ eng'.oc = eng.oc /\ eng'.listing = eng.listing
    BY <2>2 DEF EngIs
  <2>4. EngTypes'
    BY <1>2, <2>3 DEF EngTypes
  <2>5. QED
    BY <1>3, <1>5, <2>3, <2>4
<1>6. CASE (\E dr \in Drives \ eng.open : eng' = [eng EXCEPT !.open = @ \union {dr}]) /\ UNCHANGED <<loop, req, stale>>
  <2>1. PICK x \in Drives : eng' = [eng EXCEPT !.open = @ \union {x}]
    BY <1>6
  <2> DEFINE o == eng.open \union {x}
  <2>2. o \subseteq Drives /\ eng' = [eng EXCEPT !.open = o]
    BY <1>2, <2>1
  <2> HIDE DEF o
  <2>3. eng' = [open |-> o, labels |-> eng.labels, oc |-> eng.oc, routes |-> eng.routes, listing |-> eng.listing]
    BY <1>2, <2>2 DEF EngIs
  <2>4. EngIs(eng') /\ eng'.open = o /\ eng'.labels = eng.labels /\ eng'.oc = eng.oc /\ eng'.listing = eng.listing
    BY <2>3 DEF EngIs
  <2>5. EngTypes'
    BY <1>2, <2>2, <2>4 DEF EngTypes
  <2>6. QED
    BY <1>3, <1>6, <2>4, <2>5
<1>7. ASSUME NEW x \in eng.open, eng' = Closed(x), Overtakes(x), loop' = Crossed(x), stale' = [stale EXCEPT ![x] = {"labels", "oc"}]
      PROVE  PushInv'
  <2>1. x \in Drives
    BY <1>2, <1>7
  <2>2. /\ req' = [dr \in Drives |-> req'[dr]] /\ \A dr \in Drives : ReqIs(req'[dr])
        /\ \A dr \in Drives \ {x} : req'[dr] = req[dr]
        /\ req'[x].pc = req[x].pc /\ (req[x].pc = "joins" => req'[x].overtaken)
    BY <1>1, <1>7, <2>1, OvertakesIs
  <2>3. QED
    BY <1>1, <1>7, <2>1, <2>2, ClosedByOther
<1>8. QED
  BY <1>4, <1>5, <1>6, <1>7 DEF EngineMovesOn

LEMMA NextPush == PushInv /\ [PNext]_pvars => PushInv'
<1>1. SUFFICES ASSUME PushInv, [PNext]_pvars
               PROVE  PushInv'
  OBVIOUS
<1>2. CASE LoopStep
  BY <1>1, <1>2, ScanPush, ListSlabsPush, ListVolumesPush, ListDrivesPush, ReconcilePush, SyncLabelsPush, SendLabelsPush,
     HearLabelsPush, SyncOvercommitPush, SendOvercommitPush, HearOvercommitPush, AllSentPush, RetirePush, RetiredPush
     DEF LoopStep
<1>3. CASE RetryAgain \/ EngineMovesOn
  BY <1>1, <1>3, RetryPush, EngineMovesOnPush
<1>4. CASE \E dr \in Drives : Join(dr) \/ Leave(dr) \/ Answer(dr) \/ \E v \in Settings : SetOvercommit(dr, v)
  BY <1>1, <1>4, JoinPush, LeavePush, JoinedPush, LeftPush, SetOvercommitPush DEF Answer
<1>5. CASE UNCHANGED pvars
  <2>1. rec' = rec /\ eng' = eng /\ loop' = loop /\ req' = req /\ stale' = stale
    BY <1>5 DEF pvars
  <2>2. LoopTypes' /\ EngTypes' /\ OtherTypes' /\ PlacesSent' /\ SlabsRead'
    BY <1>1, <2>1 DEF PushInv, ToldTypes, LoopTypes, EngTypes, OtherTypes, PlacesSent, SlabsRead
  <2>3. AllHeld'
    BY <1>1, <2>1, HeldFrame DEF PushInv, AllHeld
  <2>4. QED
    BY <1>1, <2>1, <2>2, <2>3, RecordsStay
<1>6. QED
  BY <1>1, <1>2, <1>3, <1>4, <1>5 DEF PNext

LEMMA PushIsOK == PushInv => PushOK
<1>1. SUFFICES ASSUME PushInv
               PROVE  PushOK
  OBVIOUS
<1>2. HeldAsPushed
  <2>1. ASSUME NEW dr \in Drives
        PROVE  /\ AtWork(dr, "labels heard") \/ Retiring(dr) => Underway(dr, "labels heard")
               /\ AtWork(dr, "price heard") \/ Retiring(dr) => Underway(dr, "price heard")
    BY DEF AtWork, Retiring, Underway
  <2>2. ASSUME NEW dr \in Drives
        PROVE  LabelsHeld(dr) /\ OcHeld(dr)
    BY <1>1 DEF PushInv, AllHeld, DriveHeld
  <2>3. QED
    BY <2>1, <2>2 DEF HeldAsPushed, LabelsHeld, OcHeld
<1>3. UsageIsTold
  <2>1. PICK i \in DOMAIN Listings : \A dr \in Drives :
            rec[dr].usage # None => rec[dr].usage.slabs = OnDrive(dr, Listings[i].slabs)
    BY <1>1 DEF PushInv, UsageOK
  <2>2. SUFFICES ASSUME NEW dr \in Drives, rec[dr].usage # None
                 PROVE  /\ rec[dr].usage.promisable = rec[dr].usage.inSlabs * Factor(rec[dr].oc)
                        /\ rec[dr].usage.volumes # None =>
                             rec[dr].usage.volumes = VolumesOn(Names[dr], Listings[rec[dr].usage.volumesAt].volumes)
                        /\ \A e \in Drives \ {dr} : rec[e].usage # None /\ Names[e].wwn # Names[dr].wwn =>
                             \A s \in AllSlabs :
                                s.ref.wwn # None => ~(s.id \in rec[dr].usage.slabs /\ s.id \in rec[e].usage.slabs)
    BY DEF UsageIsTold
  <2>3. UsageOf(dr, rec[dr].oc, rec[dr].usage)
    BY <1>1, <2>2 DEF PushInv, UsageOK
  <2>4. ASSUME NEW e \in Drives \ {dr}, rec[e].usage # None, Names[e].wwn # Names[dr].wwn, NEW s \in AllSlabs, s.ref.wwn # None,
               s.id \in rec[dr].usage.slabs, s.id \in rec[e].usage.slabs
        PROVE  FALSE
    <3>1. s.id \in OnDrive(dr, Listings[i].slabs) /\ s.id \in OnDrive(e, Listings[i].slabs)
      BY <2>1, <2>2, <2>4
    <3>2. PICK t \in Listings[i].slabs : t.id = s.id /\ SlabOn(t.ref, Names[dr])
      BY <3>1 DEF OnDrive
    <3>3. PICK w \in Listings[i].slabs : w.id = s.id /\ SlabOn(w.ref, Names[e])
      BY <3>1 DEF OnDrive
    <3>4. w = t
      BY <3>2, <3>3, ListingsAssumption
    <3>5. t \in AllSlabs
      BY <3>2, Zenon DEF AllSlabs
    <3>6. t.ref.wwn # None
      BY <2>4, <3>2, <3>5, ListingsAssumption
    <3>7. t.ref.wwn = Names[dr].wwn /\ t.ref.wwn = Names[e].wwn
      BY <3>2, <3>3, <3>4, <3>6 DEF SlabOn
    <3>8. QED
      BY <2>4, <3>7
  <2>5. QED
    BY <2>3, <2>4 DEF UsageOf
<1>4. QED
  BY <1>2, <1>3 DEF PushOK

\* The engine holds the labels and the setting the record says were pushed, and
\* the usage shown is by the setting of record and of one listing (fleet.rs,
\* usage.rs, api/mod.rs), for any answers that are lost and any drives that come
\* and go.
THEOREM PushHolds == PSpec => []PushOK
<1>1. QED
  BY InitPush, NextPush, PushIsOK, PTL DEF PSpec

-----------------------------------------------------------------------------
(* The parts together: each takes its steps or stays as it is.                *)

LEMMA DrivesStarts == DrivesInit => AInit /\ DInit /\ HInit /\ PInit /\ WInit /\ RInit
  BY DEF DrivesInit

LEMMA DrivesSteps == [DrivesNext]_dvs => [ANext]_actvars /\ [DNext]_dvars /\ [HNext]_hvars /\ [PNext]_pvars
                                             /\ [WNext]_wvars /\ [RNext]_rvars
<1> SUFFICES ASSUME [DrivesNext]_dvs
             PROVE  [ANext]_actvars /\ [DNext]_dvars /\ [HNext]_hvars /\ [PNext]_pvars /\ [WNext]_wvars /\ [RNext]_rvars
  OBVIOUS
<1>1. [DNext]_dvars
  BY DEF DrivesNext, dvs
<1>2. [HNext]_hvars
  BY DEF DrivesNext, dvs
<1>3. [WNext]_wvars
  BY DEF DrivesNext, dvs
<1>4. [RNext]_rvars
  BY DEF DrivesNext, dvs
<1>5. [ANext]_actvars
  BY DEF DrivesNext, dvs
<1>6. [PNext]_pvars
  BY DEF DrivesNext, dvs
<1>7. QED
  BY <1>1, <1>2, <1>3, <1>4, <1>5, <1>6

\* The inventory says of a drive where it is, whether it is found by a pass or
\* behind a RAID controller.
THEOREM DrivesAreFound == DrivesSpec => []FoundWhereItIs
<1>1. DiscoveryInv /\ RaidInv => FoundWhereItIs
  BY RaidIsOK DEF DiscoveryInv, FoundWhereItIs
<1>2. QED
  BY <1>1, DrivesStarts, DrivesSteps, InitDiscovery, InitTypes, NextDiscovery, InitRaid, NextRaid, PTL DEF DrivesSpec

\* No change of the disks and no change of an object goes by unnoticed.
THEOREM DrivesMissNothing == DrivesSpec => []NothingMissed
<1>1. HInit => HotplugOK
  BY DEF HInit, HotplugOK
<1>2. WatchInv /\ HotplugOK => NothingMissed
  BY WatchIsOK DEF NothingMissed
<1>3. QED
  BY <1>1, <1>2, DrivesStarts, DrivesSteps, InitHotplug, NextHotplug, NextWakes, InitWatch, NextWatch, PTL DEF DrivesSpec

\* The same of the requests on a drive, whatever the other parts do.
THEOREM DrivesActSafely == DrivesSpec => []ActionsOK
<1>1. QED
  BY DrivesStarts, DrivesSteps, InitActions, NextActions, ActionsAreOK, PTL DEF DrivesSpec

\* What the node and the engine tell each other, whatever the other parts do.
THEOREM DrivesTellTheEngine == DrivesSpec => []PushOK
<1>1. QED
  BY DrivesStarts, DrivesSteps, InitPush, NextPush, PushIsOK, PTL DEF DrivesSpec
=============================================================================
