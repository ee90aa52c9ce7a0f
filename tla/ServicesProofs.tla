--------------------------- MODULE ServicesProofs ---------------------------
(***************************************************************************)
(* Proofs about the services: the state files, what they keep, the         *)
(* journals, the firmware images, the gate of the API and a call to the    *)
(* engine, each for all values of its constants, and their composition.    *)
(***************************************************************************)
EXTENDS Services, Integers, SequenceTheorems, FiniteSetTheorems, TLAPS

(* Each state file is the atomic register it promises to be, proved for any   *)
(* ring, any number of saves, failures, kills and resets: Store implements    *)
(* Register, once for the inventory and once for the events.                  *)
Mains == {"down", "up", "events", "inventory", "exit"}
WritePcs == {"idle", "write", "rename", "dir"}

\* What a file counts by: the number its next save takes.
Number(f) == IF f = "events" THEN log.next ELSE inv

\* The numbers in memory, and the clock ahead of the inventory.
MemoryOK ==
  /\ main \in Mains
  /\ inv \in Nat /\ clock \in Nat /\ clock >= 1 /\ inv <= clock
  /\ log.next \in Nat /\ log.next >= 1 /\ log.ring \in Seq(Nat)

\* A value that is not whole counts as nothing, a whole one as something.
ValueOK(v) ==
  /\ v.n \in Nat /\ v.ring \in Seq(Nat)
  /\ \/ v.what \in Unusable /\ v.n = 0
     \/ v.what = "whole" /\ v.n >= 1

\* The tables are tables of all files.
Shape ==
  /\ file = [f \in Files |-> [now |-> file[f].now, may |-> file[f].may]]
  /\ DOMAIN write = Files

\* What the file reads as is the newest of the values it may become.
FileOK(f) ==
  /\ file[f].now \in file[f].may
  /\ \A v \in file[f].may : ValueOK(v) /\ v.n <= file[f].now.n
  /\ f = "inventory" => file[f].now.n <= clock
  /\ main # "down" => Number(f) >= 1 /\ Number(f) >= file[f].now.n

\* What is about to be written is whole and at least as new, and it reaches
\* the disk before its name does.
WriteOK(f) ==
  /\ write[f].pc \in WritePcs
  /\ main = "down" => write[f].pc = "idle"
  /\ write[f].pc \in {"write", "rename"} =>
       /\ write[f].value.what = "whole" /\ ValueOK(write[f].value)
       /\ file[f].now.n <= write[f].value.n /\ write[f].value.n <= Number(f)
  /\ write[f].pc = "rename" => write[f].synced
  /\ write[f].pc = "dir" => "pc" \in DOMAIN write[f]
  /\ write[f].pc = "rename" => "pc" \in DOMAIN write[f]

StoreInv == MemoryOK /\ Shape /\ \A f \in Files : FileOK(f) /\ WriteOK(f)

-----------------------------------------------------------------------------
(* The event log.                                                          *)

\* The newest of a sequence of numbers are numbers.
LEMMA NewestType ==
  ASSUME NEW ring \in Seq(Nat), NEW k \in Nat
  PROVE  Newest(ring, k) \in Seq(Nat)
<1>1. CASE Len(ring) > k
  <2>1. Len(ring) - k + 1 \in 1 .. Len(ring) + 1 /\ Len(ring) \in Nat
    BY <1>1, LenProperties
  <2>2. \A i \in Len(ring) - k + 1 .. Len(ring) : ring[i] \in Nat
    BY <2>1, ElementOfSeq
  <2>3. SubSeq(ring, Len(ring) - k + 1, Len(ring)) \in Seq(Nat)
    BY <2>1, <2>2, SubSeqProperties
  <2>4. QED
    BY <1>1, <2>3 DEF Newest
<1>2. CASE ~(Len(ring) > k)
  BY <1>2 DEF Newest
<1>3. QED
  BY <1>1, <1>2

\* Events number on from where the log was.
LEMMA PushedType ==
  ASSUME NEW l, l.next \in Nat, l.ring \in Seq(Nat), NEW k \in Nat
  PROVE  /\ Pushed(l, k).next = l.next + k
         /\ Pushed(l, k).ring \in Seq(Nat)
<1>1. [i \in 1 .. k |-> l.next + i - 1] \in Seq(Nat)
  BY IsASeq
<1>2. l.ring \o [i \in 1 .. k |-> l.next + i - 1] \in Seq(Nat)
  BY <1>1, ConcatProperties
<1>3. Newest(l.ring \o [i \in 1 .. k |-> l.next + i - 1], Cap) \in Seq(Nat)
  BY <1>2, NewestType, StoreBounds DEF StoreBounds
<1>4. QED
  BY <1>3 DEF Pushed

\* The greater of two numbers is one of them and at least each.
LEMMA MaxOfTwo ==
  ASSUME NEW a \in Nat, NEW b \in Nat
  PROVE  Max({a, b}) \in Nat /\ Max({a, b}) >= a /\ Max({a, b}) >= b /\ Max({a, b}) \in {a, b}
<1>1. \E x \in {a, b} : \A y \in {a, b} : x >= y
  <2>1. CASE a >= b
    BY <2>1
  <2>2. CASE b >= a
    BY <2>2
  <2>3. QED
    BY <2>1, <2>2
<1>2. Max({a, b}) \in {a, b} /\ \A y \in {a, b} : Max({a, b}) >= y
  BY <1>1 DEF Max
<1>3. QED
  BY <1>2

\* A log restored from a file goes on at or after its number.
LEMMA RestoredType ==
  ASSUME NEW v, v.n \in Nat, v.ring \in Seq(Nat)
  PROVE  /\ Restored(v).next \in Nat /\ Restored(v).next >= 1 /\ Restored(v).next >= v.n
         /\ Restored(v).ring \in Seq(Nat)
<1> DEFINE ring == Newest(v.ring, Cap)
           after == IF ring = <<>> THEN 1 ELSE Last(ring) + 1
<1>1. ring \in Seq(Nat)
  BY NewestType, StoreBounds DEF StoreBounds
<1>2. after \in Nat /\ after >= 1
  <2>1. CASE ring = <<>>
    BY <2>1
  <2>2. CASE ring # <<>>
    <3>1. Len(ring) \in 1 .. Len(ring)
      BY <1>1, <2>2, EmptySeq, LenProperties
    <3>2. Last(ring) \in Nat
      BY <1>1, <3>1, ElementOfSeq DEF Last
    <3>3. QED
      BY <2>2, <3>2
  <2>3. QED
    BY <2>1, <2>2
<1> HIDE DEF ring, after
<1>3. Max({v.n, after}) \in Nat /\ Max({v.n, after}) >= v.n /\ Max({v.n, after}) >= after
  BY <1>2, MaxOfTwo
<1>4. Restored(v) = [next |-> Max({v.n, after}), ring |-> ring]
  BY DEF Restored, ring, after
<1>5. QED
  BY <1>1, <1>2, <1>3, <1>4

\* At most one note per file.
LEMMA NotesType == Notes(Files) \in Nat
<1>1. IsFiniteSet(Files)
  <2>1. IsFiniteSet({"inventory"}) /\ Files = {"inventory"} \union {"events"}
    BY FS_Singleton DEF Files
  <2>2. QED
    BY <2>1, FS_AddElement
<1>2. IsFiniteSet({f \in Files : file[f].now.what \in {"blank", "garbage"}})
  BY <1>1, FS_Subset
<1>3. QED
  BY <1>2, FS_CardinalityType DEF Notes

-----------------------------------------------------------------------------
(* The invariant.                                                          *)

LEMMA InitStore == SInit => StoreInv
<1> SUFFICES ASSUME SInit
             PROVE  StoreInv
  OBVIOUS
<1>1. MemoryOK
  BY EmptySeq DEF SInit, MemoryOK, Mains, NewLog
<1>2. PICK u \in Unusable \union {"whole"} :
        file = [f \in Files |-> LET v == Holding(u, IF u = "whole" THEN 1 ELSE 0, <<>>)
                                IN  [now |-> v, may |-> {v}]]
  BY DEF SInit
<1> DEFINE v == Holding(u, IF u = "whole" THEN 1 ELSE 0, <<>>)
<1>3. ValueOK(v) /\ v.n <= 1
  BY EmptySeq DEF ValueOK, Holding, Unusable
<1>4. ASSUME NEW f \in Files
      PROVE  file[f].now = v /\ file[f].may = {v} /\ write[f] = Idle
  BY <1>2 DEF SInit
<1>5. Shape
  BY <1>2 DEF SInit, Shape
<1>6. ASSUME NEW f \in Files
      PROVE  FileOK(f) /\ WriteOK(f)
  <2> HIDE DEF v
  <2>1. main = "down" /\ clock = 1 /\ v.n \in Nat
    BY <1>3 DEF SInit, ValueOK
  <2>2. FileOK(f)
    BY <1>3, <1>4, <2>1 DEF FileOK
  <2>3. WriteOK(f)
    BY <1>4 DEF WriteOK, Idle, WritePcs
  <2>4. QED
    BY <2>2, <2>3
<1>7. QED
  BY <1>1, <1>5, <1>6 DEF StoreInv

\* A step that leaves a file, its write and its number where they were, or the
\* number higher, leaves it as it is.
LEMMA OtherFile ==
  ASSUME StoreInv, NEW f \in Files, main # "down", main' # "down",
         file'[f] = file[f], write'[f] = write[f], clock' \in Nat, clock' >= clock,
         Number(f)' \in Nat, Number(f)' >= Number(f)
  PROVE  FileOK(f)' /\ WriteOK(f)'
<1>1. FileOK(f) /\ WriteOK(f) /\ clock \in Nat /\ Number(f) \in Nat
  BY DEF StoreInv, MemoryOK, Number
<1>2. file[f].now.n \in Nat
  BY <1>1 DEF FileOK, ValueOK
<1>3. FileOK(f)'
  BY <1>1, <1>2 DEF FileOK, ValueOK
<1>4. write[f].pc \in {"write", "rename"} => write[f].value.n \in Nat
  BY <1>1 DEF WriteOK, ValueOK
<1>5. WriteOK(f)'
  BY <1>1, <1>2, <1>4 DEF WriteOK, ValueOK
<1>6. QED
  BY <1>3, <1>5

\* What a persist starts to write is what memory holds.
LEMMA StartedType ==
  ASSUME StoreInv, NEW f \in Files, main # "down"
  PROVE  /\ ValueOK(Contents(f)) /\ Contents(f).what = "whole" /\ Contents(f).n = Number(f)
         /\ file[f].now.n <= Contents(f).n
<1>1. Number(f) \in Nat /\ Number(f) >= 1 /\ Number(f) >= file[f].now.n
  BY DEF StoreInv, MemoryOK, FileOK, Number
<1>2. Newest(log.ring, PersistTail) \in Seq(Nat) /\ <<>> \in Seq(Nat)
  BY NewestType, EmptySeq, StoreBounds DEF StoreBounds, StoreInv, MemoryOK
<1>3. file[f].now.n \in Nat
  BY DEF StoreInv, FileOK, ValueOK
<1>4. Contents(f).what = "whole" /\ Contents(f).n = Number(f) /\ Contents(f).ring \in Seq(Nat)
  BY <1>2 DEF Contents, Holding, Number
<1>5. QED
  BY <1>1, <1>3, <1>4 DEF ValueOK
-----------------------------------------------------------------------------
(* Each step keeps the invariant.                                          *)

\* Push, Poll, Change and StopBegin touch no file; numbers only grow.
LEMMA MemoryStep ==
  ASSUME StoreInv, main # "down", main' # "down", main' \in Mains,
         UNCHANGED <<file, write>>,
         \/ UNCHANGED <<inv, clock, log>>
         \/ log' = Pushed(log, 1) /\ UNCHANGED <<inv, clock>>
         \/ clock' = clock + 1 /\ inv' = clock + 1 /\ UNCHANGED log
  PROVE  StoreInv'
<1> USE DEF StoreInv, MemoryOK
<1>1. CASE UNCHANGED <<inv, clock, log>>
  <2>1. \A f \in Files : Number(f) \in Nat /\ Number(f)' = Number(f)
    BY <1>1 DEF Number
  <2>2. \A f \in Files : FileOK(f)' /\ WriteOK(f)'
    BY <1>1, <2>1, OtherFile
  <2>3. QED
    BY <1>1, <2>2 DEF Shape
<1>2. CASE log' = Pushed(log, 1) /\ UNCHANGED <<inv, clock>>
  <2>1. log'.next = log.next + 1 /\ log'.ring \in Seq(Nat)
    BY <1>2, PushedType
  <2>2. \A f \in Files : Number(f)' \in Nat /\ Number(f)' >= Number(f)
    BY <1>2, <2>1 DEF Number
  <2>3. \A f \in Files : FileOK(f)' /\ WriteOK(f)'
    BY <1>2, <2>2, OtherFile
  <2>4. QED
    BY <1>2, <2>1, <2>3 DEF Shape
<1>3. CASE clock' = clock + 1 /\ inv' = clock + 1 /\ UNCHANGED log
  <2>1. \A f \in Files : Number(f)' \in Nat /\ Number(f)' >= Number(f)
    BY <1>3 DEF Number
  <2>2. \A f \in Files : FileOK(f)' /\ WriteOK(f)'
    BY <1>3, <2>1, OtherFile
  <2>3. QED
    BY <1>3, <2>2 DEF Shape
<1>4. QED
  BY <1>1, <1>2, <1>3

\* What is said of the memory holds on while it stays, and the shape while a
\* file is replaced by one of the same fields.
LEMMA WriteStep ==
  ASSUME StoreInv, NEW f \in Files, main # "down", main' # "down", main' \in Mains,
         UNCHANGED <<inv, clock, log>>, Shape',
         \A g \in Files \ {f} : file'[g] = file[g] /\ write'[g] = write[g],
         FileOK(f)', WriteOK(f)'
  PROVE  StoreInv'
<1>1. MemoryOK'
  BY DEF StoreInv, MemoryOK
<1>2. ASSUME NEW g \in Files \ {f}
      PROVE  FileOK(g)' /\ WriteOK(g)'
  <2>1. Number(g) \in Nat /\ Number(g)' = Number(g) /\ clock' \in Nat /\ clock' >= clock
    BY DEF StoreInv, MemoryOK, Number
  <2>2. QED
    BY <2>1, OtherFile
<1>3. QED
  BY <1>1, <1>2 DEF StoreInv

\* The start of a write, of a tick's persist or of the last one.
LEMMA StartedStep ==
  ASSUME StoreInv, NEW f \in Files, main # "down", main' # "down", main' \in Mains,
         write' = Started(f), UNCHANGED <<file, inv, clock, log>>
  PROVE  StoreInv'
<1>1. /\ write'[f] = [pc |-> "write", value |-> Contents(f), seq |-> Current(f)]
      /\ \A g \in Files \ {f} : write'[g] = write[g]
      /\ DOMAIN write' = Files
  BY DEF Started, StoreInv, Shape
<1>2. Number(f)' = Number(f) /\ Number(f) \in Nat
  BY DEF Number, StoreInv, MemoryOK
<1>3. FileOK(f)'
  BY <1>2 DEF StoreInv, FileOK, ValueOK
<1>4. WriteOK(f)'
  BY <1>1, <1>2, StartedType DEF WriteOK, WritePcs, ValueOK
<1>5. Shape'
  BY <1>1 DEF StoreInv, Shape
<1>6. QED
  BY <1>1, <1>3, <1>4, <1>5, WriteStep

LEMMA BeginStep ==
  ASSUME StoreInv, NEW f \in Files, Begin(f)
  PROVE  StoreInv'
  BY StartedStep DEF Begin, disk, mem, past, StoreInv, MemoryOK

LEMMA WriteSyncedStep ==
  ASSUME StoreInv, NEW f \in Files, WriteSynced(f)
  PROVE  StoreInv'
<1> USE DEF WriteSynced, disk, mem, past
<1>1. main # "down" /\ main' = main /\ main \in Mains
  BY DEF StoreInv, WriteOK, MemoryOK
<1>2. /\ write'[f] = [pc |-> "rename", synced |-> TRUE, value |-> write[f].value, seq |-> write[f].seq]
      /\ \A g \in Files \ {f} : write'[g] = write[g]
      /\ DOMAIN write' = Files
  BY DEF StoreInv, Shape, SyncAll
<1>3. Number(f)' = Number(f)
  BY DEF Number
<1>4. FileOK(f)'
  BY <1>1, <1>3 DEF StoreInv, FileOK, ValueOK
<1>5. WriteOK(f)'
  BY <1>1, <1>2, <1>3 DEF StoreInv, WriteOK, WritePcs, ValueOK
<1>6. Shape'
  BY <1>2 DEF StoreInv, Shape
<1>7. QED
  BY <1>1, <1>2, <1>4, <1>5, <1>6, WriteStep

\* The new value is the newest of those the file may become.
LEMMA RenameStep ==
  ASSUME StoreInv, NEW f \in Files, Rename(f)
  PROVE  StoreInv'
<1> USE DEF Rename, disk, mem, past
<1> DEFINE new == write[f].value
<1>1. main # "down" /\ main' = main /\ main \in Mains /\ "pc" \in DOMAIN write[f]
  BY DEF StoreInv, WriteOK, MemoryOK
<1>2. ValueOK(new) /\ new.what = "whole" /\ file[f].now.n <= new.n /\ new.n <= Number(f)
  BY DEF StoreInv, WriteOK
<1>3. /\ file'[f] = [now |-> new, may |-> file[f].may \union {new}]
      /\ \A g \in Files \ {f} : file'[g] = file[g]
      /\ file' = [g \in Files |-> IF g = f THEN [now |-> new, may |-> file[f].may \union {new}] ELSE file[g]]
  BY DEF StoreInv, Shape, WriteOK
<1>4. /\ write'[f].pc = "dir" /\ "pc" \in DOMAIN write'[f]
      /\ \A g \in Files \ {f} : write'[g] = write[g]
      /\ DOMAIN write' = Files
  BY <1>1 DEF StoreInv, Shape
<1>5. Number(f)' = Number(f) /\ Number(f) \in Nat /\ new.n \in Nat /\ new.n >= 1
  BY <1>2 DEF Number, StoreInv, MemoryOK, ValueOK, Unusable
<1>6. FileOK(f)'
  <2>1. \A v \in file[f].may \union {new} : ValueOK(v) /\ v.n <= new.n
    BY <1>2, <1>5 DEF StoreInv, FileOK, ValueOK
  <2>2. f = "inventory" => new.n <= clock /\ clock' = clock
    BY <1>2, <1>5 DEF StoreInv, MemoryOK, Number
  <2>3. file'[f].now = new /\ file'[f].may = file[f].may \union {new}
    BY <1>3
  <2> HIDE DEF new
  <2>4. QED
    BY <1>1, <1>2, <1>5, <2>1, <2>2, <2>3 DEF FileOK, ValueOK
<1>7. WriteOK(f)'
  BY <1>1, <1>4 DEF WriteOK, WritePcs
<1>8. Shape'
  <2>1. file'[f] = [now |-> file'[f].now, may |-> file'[f].may]
    BY <1>3
  <2>2. ASSUME NEW g \in Files \ {f}
        PROVE  file'[g] = [now |-> file'[g].now, may |-> file'[g].may]
    <3>1. file[g] = [now |-> file[g].now, may |-> file[g].may]
      BY DEF StoreInv, Shape
    <3>2. QED
      BY <1>3, <3>1
  <2>3. file' = [g \in Files |-> file'[g]]
    BY <1>3, Zenon
  <2>4. QED
    BY <1>4, <2>1, <2>2, <2>3 DEF Shape
<1>9. QED
  BY <1>1, <1>3, <1>4, <1>6, <1>7, <1>8, WriteStep

LEMMA SyncDirStep ==
  ASSUME StoreInv, NEW f \in Files, SyncDir(f)
  PROVE  StoreInv'
<1> USE DEF SyncDir, disk, mem, past
<1>1. main # "down" /\ main' = main /\ main \in Mains
  BY DEF StoreInv, WriteOK, MemoryOK
<1>2. /\ file'[f].now = file[f].now /\ file'[f].may \in {file[f].may, {file[f].now}}
      /\ \A g \in Files \ {f} : file'[g] = file[g]
      /\ file' = [g \in Files |-> [now |-> file'[g].now, may |-> file'[g].may]]
  <2>1. CASE file' = [file EXCEPT ![f].may = {file[f].now}]
    <3>1. /\ file'[f] = [now |-> file[f].now, may |-> {file[f].now}]
          /\ \A g \in Files \ {f} : file'[g] = file[g]
          /\ DOMAIN file' = Files /\ file' = [g \in DOMAIN file' |-> file'[g]]
      <4>1. DOMAIN file = Files /\ DOMAIN file[f] = {"now", "may"}
        BY DEF StoreInv, Shape
      <4>2. file[f] = [now |-> file[f].now, may |-> file[f].may]
        BY DEF StoreInv, Shape
      <4>3. QED
        BY <2>1, <4>1, <4>2
    <3>2. \A g \in Files : file'[g] = [now |-> file'[g].now, may |-> file'[g].may]
      BY <3>1 DEF StoreInv, Shape
    <3>3. QED
      BY <3>1, <3>2
  <2>2. CASE UNCHANGED file
    BY <2>2 DEF StoreInv, Shape
  <2>3. QED
    BY <2>1, <2>2
<1>3. write'[f] = Idle /\ (\A g \in Files \ {f} : write'[g] = write[g]) /\ DOMAIN write' = Files
  BY DEF StoreInv, Shape
<1>4. Number(f)' = Number(f) /\ clock' = clock
  BY DEF Number
<1>5. FileOK(f)'
  BY <1>1, <1>2, <1>4 DEF StoreInv, FileOK, ValueOK
<1>6. WriteOK(f)'
  BY <1>1, <1>3 DEF WriteOK, WritePcs, Idle
<1>7. Shape'
  BY <1>2, <1>3 DEF Shape
<1>8. QED
  BY <1>1, <1>2, <1>3, <1>5, <1>6, <1>7, WriteStep

LEMMA WriteFailsStep ==
  ASSUME StoreInv, NEW f \in Files, WriteFails(f)
  PROVE  StoreInv'
<1> USE DEF WriteFails, disk, mem, past
<1>1. main # "down" /\ main' = main /\ main \in Mains
  BY DEF StoreInv, WriteOK, MemoryOK
<1>2. write'[f] = Idle /\ (\A g \in Files \ {f} : write'[g] = write[g]) /\ DOMAIN write' = Files
  BY DEF StoreInv, Shape
<1>3. Number(f)' = Number(f) /\ clock' = clock /\ file' = file
  BY DEF Number
<1>4. FileOK(f)'
  BY <1>1, <1>3 DEF StoreInv, FileOK, ValueOK
<1>5. WriteOK(f)'
  BY <1>1, <1>2 DEF WriteOK, WritePcs, Idle
<1>6. Shape'
  BY <1>2, <1>3 DEF StoreInv, Shape
<1>7. QED
  BY <1>1, <1>2, <1>3, <1>4, <1>5, <1>6, WriteStep
LEMMA LastPersistStep ==
  ASSUME StoreInv, NEW f \in Files, LastPersist(f)
  PROVE  StoreInv'
<1> USE DEF LastPersist, disk, mem, past
<1>1. main # "down" /\ main' # "down" /\ main' \in Mains
  BY DEF Mains, Files
<1>2. CASE Current(f) = saved[f]
  <2>1. UNCHANGED <<file, write, inv, clock, log>>
    BY <1>2
  <2>2. QED
    BY <1>1, <2>1, MemoryStep
<1>3. CASE Current(f) # saved[f]
  <2>1. write' = Started(f) /\ UNCHANGED <<file, inv, clock, log>>
    BY <1>3
  <2>2. QED
    BY <1>1, <2>1, StartedStep
<1>4. QED
  BY <1>2, <1>3

\* However the process ends, memory is gone and no write goes on; of the files
\* only what is said of them for themselves is left to show.
LEMMA EndedStep ==
  ASSUME StoreInv, Ended, UNCHANGED clock,
         file' = [f \in Files |-> [now |-> file'[f].now, may |-> file'[f].may]],
         \A f \in Files : /\ file'[f].now \in file'[f].may
                          /\ \A v \in file'[f].may : ValueOK(v) /\ v.n <= file'[f].now.n
                          /\ f = "inventory" => file'[f].now.n <= clock
  PROVE  StoreInv'
<1> USE DEF Ended
<1>1. MemoryOK'
  BY EmptySeq DEF StoreInv, MemoryOK, Mains, NewLog
<1>2. Shape'
  BY DEF Shape
<1>3. ASSUME NEW f \in Files
      PROVE  FileOK(f)' /\ WriteOK(f)'
  <2>1. FileOK(f)'
    BY DEF FileOK, ValueOK
  <2>2. WriteOK(f)'
    BY DEF WriteOK, Idle, WritePcs
  <2>3. QED
    BY <2>1, <2>2
<1>4. QED
  BY <1>1, <1>2, <1>3 DEF StoreInv

\* The process exits or is killed: the files stay as they are.
LEMMA EndStep ==
  ASSUME StoreInv, Exit \/ Kill
  PROVE  StoreInv'
<1>1. Ended /\ UNCHANGED <<clock, file>>
  BY DEF Exit, Kill, disk
<1>2. QED
  BY <1>1, EndedStep DEF StoreInv, Shape, FileOK

\* The machine is reset: each file is one of the values it might become.
LEMMA ResetStep ==
  ASSUME StoreInv, Reset
  PROVE  StoreInv'
<1>1. Ended /\ UNCHANGED clock
  BY DEF Reset
<1>2. PICK v \in [Files -> UNION {file[f].may : f \in Files}] :
         /\ \A f \in Files : v[f] \in file[f].may
         /\ file' = [f \in Files |-> [now |-> v[f], may |-> {v[f]}]]
  BY DEF Reset
<1>3. \A f \in Files : file'[f].now = v[f] /\ file'[f].may = {v[f]}
  BY <1>2
<1>4. file' = [f \in Files |-> [now |-> file'[f].now, may |-> file'[f].may]]
  BY <1>2, <1>3
<1>5. ASSUME NEW f \in Files
      PROVE  /\ file'[f].now \in file'[f].may
             /\ \A w \in file'[f].may : ValueOK(w) /\ w.n <= file'[f].now.n
             /\ f = "inventory" => file'[f].now.n <= clock
  <2>1. ValueOK(v[f]) /\ v[f].n <= file[f].now.n /\ file[f].now.n \in Nat /\ clock \in Nat
    BY <1>2 DEF StoreInv, MemoryOK, FileOK, ValueOK
  <2>2. v[f].n \in Nat /\ (f = "inventory" => file[f].now.n <= clock)
    BY <2>1 DEF ValueOK, StoreInv, FileOK
  <2>3. QED
    BY <1>3, <2>1, <2>2
<1>6. QED
  BY <1>1, <1>4, <1>5, EndedStep

\* load_state: memory starts at or above what the files say; what could not be
\* read is moved away, and counted as nothing already.
LEMMA StartStep ==
  ASSUME StoreInv, Start
  PROVE  StoreInv'
<1> DEFINE bad == {f \in Files : Unreadable(file[f].now)}
           gone == Holding("absent", 0, <<>>)
           old == file["events"].now
           kept == IF old.what = "whole" THEN Restored(old) ELSE NewLog
<1>1. PICK out \in SUBSET bad :
        file' = [f \in Files |-> IF f \in out THEN [now |-> gone, may |-> file[f].may \union {gone}] ELSE file[f]]
  BY DEF Start
<1>2. /\ main = "down" /\ main' = "up" /\ UNCHANGED <<write, clock>>
      /\ log' = Pushed(kept, 1 + Notes(Files))
      /\ inv' = Max({file["inventory"].now.n, 1})
  BY DEF Start
<1>3. \A f \in Files : ValueOK(file[f].now) /\ file[f].now.n \in Nat
  BY DEF StoreInv, FileOK, ValueOK
<1>4. /\ kept.next \in Nat /\ kept.next >= 1 /\ kept.ring \in Seq(Nat)
      /\ kept.next >= file["events"].now.n
  <2>1. CASE old.what = "whole"
    BY <1>3, <2>1, RestoredType DEF ValueOK, Files
  <2>2. CASE old.what # "whole"
    BY <1>3, <2>2, EmptySeq DEF ValueOK, Files, NewLog
  <2>3. QED
    BY <2>1, <2>2
<1>5. /\ log'.next \in Nat /\ log'.next >= 1 /\ log'.ring \in Seq(Nat)
      /\ log'.next >= file["events"].now.n
  <2> HIDE DEF kept
  <2>1. 1 + Notes(Files) \in Nat
    BY NotesType
  <2>2. log'.next = kept.next + (1 + Notes(Files)) /\ log'.ring \in Seq(Nat)
    BY <1>2, <1>4, <2>1, PushedType
  <2>3. file["events"].now.n \in Nat
    BY <1>3 DEF Files
  <2>4. QED
    BY <1>4, <2>1, <2>2, <2>3
<1>6. inv' \in Nat /\ inv' >= 1 /\ inv' >= file["inventory"].now.n /\ inv' <= clock
  <2>1. file["inventory"].now.n \in Nat /\ file["inventory"].now.n <= clock /\ clock \in Nat /\ clock >= 1
    BY <1>3 DEF StoreInv, MemoryOK, FileOK, Files
  <2>2. QED
    BY <1>2, <2>1, MaxOfTwo
<1>7. MemoryOK'
  BY <1>2, <1>5, <1>6 DEF StoreInv, MemoryOK, Mains
<1>8. ASSUME NEW f \in Files
      PROVE  /\ file'[f] = [now |-> file'[f].now, may |-> file'[f].may]
             /\ file'[f].now \in file'[f].may
             /\ \A v \in file'[f].may : ValueOK(v) /\ v.n <= file'[f].now.n
             /\ file'[f].now.n \in Nat /\ file'[f].now.n <= file[f].now.n
  <2>1. CASE f \in out
    <3>1. file'[f].now = gone /\ file'[f].may = file[f].may \union {gone} /\ DOMAIN file'[f] = {"now", "may"}
      BY <1>1, <2>1
    <3>2. ValueOK(gone) /\ gone.n = 0
      BY EmptySeq DEF ValueOK, Holding, Unusable
    <3>3. file[f].now.n = 0
      BY <1>3, <2>1 DEF Unreadable, ValueOK, Unusable
    <3>4. \A v \in file[f].may : ValueOK(v) /\ v.n <= 0
      BY <3>3 DEF StoreInv, FileOK
    <3>5. file'[f] = [now |-> file'[f].now, may |-> file'[f].may]
      BY <1>1, <2>1
    <3> HIDE DEF gone
    <3>6. QED
      BY <3>1, <3>2, <3>3, <3>4, <3>5
  <2>2. CASE f \notin out
    <3>1. file'[f] = file[f]
      BY <1>1, <2>2
    <3>2. QED
      BY <1>3, <3>1 DEF StoreInv, Shape, FileOK
  <2>3. QED
    BY <2>1, <2>2
<1>9. Shape'
  <2>1. file' = [f \in Files |-> file'[f]]
    BY <1>1
  <2>2. file' = [f \in Files |-> [now |-> file'[f].now, may |-> file'[f].may]]
    BY <1>8, <2>1
  <2>3. QED
    BY <1>2, <2>2 DEF StoreInv, Shape
<1>10. ASSUME NEW f \in Files
       PROVE  FileOK(f)' /\ WriteOK(f)'
  <2>1. Number(f)' \in Nat /\ Number(f)' >= 1 /\ Number(f)' >= file[f].now.n
    BY <1>5, <1>6 DEF Number, Files
  <2>2. f = "inventory" => file[f].now.n <= clock
    BY DEF StoreInv, FileOK
  <2>3. file[f].now.n \in Nat /\ clock \in Nat
    BY <1>3 DEF StoreInv, MemoryOK
  <2>4. FileOK(f)'
    <3>1. Number(f)' >= file'[f].now.n /\ (f = "inventory" => file'[f].now.n <= clock')
      <4>1. file'[f].now.n \in Nat /\ file'[f].now.n <= file[f].now.n /\ clock' = clock
        BY <1>2, <1>8
      <4> HIDE DEF bad
      <4>2. QED
        BY <2>1, <2>2, <2>3, <4>1
    <3>2. QED
      BY <1>8, <2>1, <3>1 DEF FileOK, ValueOK
  <2>5. WriteOK(f)'
    BY <1>2 DEF StoreInv, WriteOK, WritePcs
  <2>6. QED
    BY <2>4, <2>5
<1>11. QED
  BY <1>7, <1>9, <1>10 DEF StoreInv

LEMMA NextStore ==
  ASSUME StoreInv, [SNext]_svars
  PROVE  StoreInv'
<1>1. CASE Push \/ Poll \/ Change \/ StopBegin
  <2>1. main # "down" /\ main' # "down" /\ main' \in Mains /\ UNCHANGED <<file, write>>
    BY <1>1 DEF Push, Poll, Change, StopBegin, disk, Mains, StoreInv, MemoryOK
  <2>2. \/ UNCHANGED <<inv, clock, log>>
        \/ log' = Pushed(log, 1) /\ UNCHANGED <<inv, clock>>
        \/ clock' = clock + 1 /\ inv' = clock + 1 /\ UNCHANGED log
    BY <1>1 DEF Push, Poll, Change, StopBegin, mem
  <2>3. QED
    BY <2>1, <2>2, MemoryStep
<1>2. CASE \E f \in Files : Work(f) \/ LastPersist(f)
  BY <1>2, BeginStep, WriteSyncedStep, RenameStep, SyncDirStep, WriteFailsStep, LastPersistStep DEF Work
<1>3. CASE Start
  BY <1>3, StartStep
<1>4. CASE Exit \/ Kill
  BY <1>4, EndStep
<1>5. CASE Reset
  BY <1>5, ResetStep
<1>6. CASE UNCHANGED svars
  <2>1. UNCHANGED <<file, main, inv, log, write, clock>>
    BY <1>6 DEF svars, disk, mem
  <2>2. \A f \in Files : FileOK(f)' = FileOK(f) /\ WriteOK(f)' = WriteOK(f)
    BY <2>1 DEF FileOK, WriteOK, Number
  <2>3. QED
    BY <2>1, <2>2 DEF StoreInv, MemoryOK, Shape
<1>7. QED
  BY <1>1, <1>2, <1>3, <1>4, <1>5, <1>6 DEF SNext

(* What a file counts by and what may be found in it fit together in every   *)
(* state: what is read is the newest of what a reset may make of it, and     *)
(* memory is never behind it (inventory.rs write_atomic; events.rs).         *)
THEOREM StoreInvariant == SSpec => []StoreInv
<1>1. SInit => StoreInv
  BY InitStore
<1>2. StoreInv /\ [SNext]_svars => StoreInv'
  BY NextStore
<1>3. QED
  BY <1>1, <1>2, PTL DEF SSpec
-----------------------------------------------------------------------------
(* The files as registers.                                                 *)

\* What a register sees of the values of a file.
Seen(vals) == {[what |-> v.what, n |-> v.n] : v \in vals}

\* A register's step, of the values one holds before and after.
RegisterStep(kept, keptNext) ==
  \/ \E v \in keptNext : /\ v.what = "whole" /\ \A w \in kept : v.n > w.n
                         /\ keptNext = kept \union {v}
  \/ \E v \in kept : keptNext = {v}
  \/ /\ \A v \in kept : v.what \in Unusable
     /\ keptNext = kept \union {[what |-> "absent", n |-> 0]}
  \/ keptNext = kept

\* Before the program ran, a file has one value.
LEMMA FileStarts ==
  ASSUME SInit, NEW f \in Files
  PROVE  \E v \in Seen(file[f].may) :
            /\ Seen(file[f].may) = {v} /\ v.what \in Unusable \union {"whole"} /\ v.n \in Nat
<1>1. PICK u \in Unusable \union {"whole"} :
        file = [g \in Files |-> LET v == Holding(u, IF u = "whole" THEN 1 ELSE 0, <<>>)
                                IN  [now |-> v, may |-> {v}]]
  BY DEF SInit
<1> DEFINE v == Holding(u, IF u = "whole" THEN 1 ELSE 0, <<>>)
<1>2. file[f].may = {v}
  BY <1>1
<1>3. v.what \in Unusable \union {"whole"} /\ v.n \in Nat
  BY DEF Holding
<1> HIDE DEF v
<1>4. Seen(file[f].may) = {[what |-> v.what, n |-> v.n]}
  BY <1>2 DEF Seen
<1> DEFINE w == [what |-> v.what, n |-> v.n]
<1>5. w.what \in Unusable \union {"whole"} /\ w.n \in Nat
  BY <1>3
<1>6. Seen(file[f].may) = {w}
  BY <1>4
<1> HIDE DEF w
<1>7. w \in Seen(file[f].may)
  BY <1>6
<1>8. QED
  BY <1>5, <1>6, <1>7

\* A value that is settled on is one of those there were.
LEMMA SettledStep ==
  ASSUME StoreInv, NEW f \in Files, NEW v \in file[f].may, file'[f].may = {v}
  PROVE  RegisterStep(Seen(file[f].may), Seen(file'[f].may))
<1>1. Seen({v}) = {[what |-> v.what, n |-> v.n]}
  BY DEF Seen
<1>2. [what |-> v.what, n |-> v.n] \in Seen(file[f].may)
  BY DEF Seen
<1>3. QED
  BY <1>1, <1>2 DEF RegisterStep

\* A rename adds the newest value, or one that says the same as the newest.
LEMMA RenamedStep ==
  ASSUME StoreInv, NEW f \in Files, Rename(f)
  PROVE  RegisterStep(Seen(file[f].may), Seen(file'[f].may))
<1> DEFINE new == write[f].value
           as == [what |-> new.what, n |-> new.n]
           latest == file[f].now
<1>1. /\ new.what = "whole" /\ ValueOK(new) /\ latest.n <= new.n
      /\ latest \in file[f].may /\ ValueOK(latest)
      /\ \A v \in file[f].may : ValueOK(v) /\ v.n <= latest.n
  BY DEF StoreInv, FileOK, WriteOK, Rename
<1>2. file'[f].may = file[f].may \union {new}
  BY DEF StoreInv, Shape, WriteOK, Rename
<1> HIDE DEF new, latest
<1>3. Seen(file'[f].may) = Seen(file[f].may) \union {as}
  BY <1>2 DEF Seen
<1>4. CASE latest.n = new.n
  <2>1. latest.what = "whole"
    BY <1>1, <1>4 DEF ValueOK, Unusable
  <2>2. as \in Seen(file[f].may)
    BY <1>1, <1>4, <2>1 DEF Seen
  <2>3. Seen(file'[f].may) = Seen(file[f].may)
    BY <1>3, <2>2
  <2>4. QED
    BY <2>3 DEF RegisterStep
<1>5. CASE latest.n < new.n
  <2>1. \A v \in file[f].may : v.n < new.n
    BY <1>1, <1>5 DEF ValueOK
  <2>2. \A w \in Seen(file[f].may) : as.n > w.n
    BY <1>1, <2>1 DEF Seen, ValueOK
  <2>3. as.what = "whole"
    BY <1>1
  <2>4. QED
    BY <1>3, <2>2, <2>3 DEF RegisterStep
<1>6. QED
  BY <1>1, <1>4, <1>5 DEF ValueOK

\* A file is moved aside only when all it may read as is unusable.
LEMMA MovedStep ==
  ASSUME StoreInv, NEW f \in Files, Unreadable(file[f].now),
         file'[f].may = file[f].may \union {Holding("absent", 0, <<>>)}
  PROVE  RegisterStep(Seen(file[f].may), Seen(file'[f].may))
<1>1. file[f].now.n = 0
  BY DEF StoreInv, FileOK, ValueOK, Unreadable, Unusable
<1>2. \A v \in file[f].may : ValueOK(v) /\ v.n <= 0
  BY <1>1 DEF StoreInv, FileOK
<1>3. \A v \in file[f].may : v.what \in Unusable
  BY <1>2 DEF ValueOK
<1>4. \A v \in Seen(file[f].may) : v.what \in Unusable
  BY <1>3 DEF Seen
<1> DEFINE gone == Holding("absent", 0, <<>>)
<1>5. Seen(file'[f].may) = Seen(file[f].may) \union {[what |-> "absent", n |-> 0]}
  <2>1. gone.what = "absent" /\ gone.n = 0
    BY DEF Holding
  <2> HIDE DEF gone
  <2>2. file'[f].may = file[f].may \union {gone}
    BY DEF gone
  <2>3. QED
    BY <2>1, <2>2 DEF Seen
<1>6. QED
  BY <1>4, <1>5 DEF RegisterStep

\* Whatever the program or the machine does, each file takes a step of its
\* register, or none.
LEMMA FileSteps ==
  ASSUME StoreInv, [SNext]_svars, NEW f \in Files
  PROVE  RegisterStep(Seen(file[f].may), Seen(file'[f].may))
<1>1. ASSUME UNCHANGED file[f]
      PROVE  RegisterStep(Seen(file[f].may), Seen(file'[f].may))
  BY <1>1 DEF RegisterStep
<1>2. CASE Push \/ Poll \/ Change \/ StopBegin \/ Exit \/ Kill
  BY <1>1, <1>2 DEF Push, Poll, Change, StopBegin, Exit, Kill, disk
<1>3. ASSUME NEW g \in Files, Work(g) \/ LastPersist(g)
      PROVE  RegisterStep(Seen(file[f].may), Seen(file'[f].may))
  <2>1. CASE Begin(g) \/ WriteSynced(g) \/ WriteFails(g) \/ LastPersist(g)
    BY <1>1, <2>1 DEF Begin, WriteSynced, WriteFails, LastPersist, disk
  <2>2. CASE Rename(g)
    <3>1. CASE g = f
      BY <2>2, <3>1, RenamedStep
    <3>2. CASE g # f
      <4>1. file'[f] = file[f]
        BY <2>2, <3>2 DEF Rename, StoreInv, Shape
      <4>2. QED
        BY <1>1, <4>1
    <3>3. QED
      BY <3>1, <3>2
  <2>3. CASE SyncDir(g)
    <3>1. CASE UNCHANGED file
      BY <1>1, <3>1
    <3>2. CASE file' = [file EXCEPT ![g].may = {file[g].now}]
      <4>1. g # f => file'[f] = file[f]
        BY <3>2 DEF StoreInv, Shape
      <4>2. g = f => file'[f].may = {file[f].now} /\ file[f].now \in file[f].may
        <5>1. file[f] = [now |-> file[f].now, may |-> file[f].may] /\ DOMAIN file = Files
          BY DEF StoreInv, Shape
        <5>2. QED
          BY <3>2, <5>1 DEF StoreInv, FileOK
      <4>3. QED
        BY <1>1, <4>1, <4>2, SettledStep
    <3>3. QED
      BY <2>3, <3>1, <3>2 DEF SyncDir
  <2>4. QED
    BY <1>3, <2>1, <2>2, <2>3 DEF Work
<1>4. CASE Start
  <2>1. PICK out \in SUBSET {g \in Files : Unreadable(file[g].now)} :
          file' = [g \in Files |-> IF g \in out
                                   THEN [now |-> Holding("absent", 0, <<>>),
                                         may |-> file[g].may \union {Holding("absent", 0, <<>>)}]
                                   ELSE file[g]]
    BY <1>4 DEF Start
  <2>2. CASE f \in out
    BY <2>1, <2>2, MovedStep
  <2>3. CASE f \notin out
    BY <1>1, <2>1, <2>3
  <2>4. QED
    BY <2>2, <2>3
<1>5. CASE Reset
  <2>1. PICK v \in [Files -> UNION {file[g].may : g \in Files}] :
          /\ \A g \in Files : v[g] \in file[g].may
          /\ file' = [g \in Files |-> [now |-> v[g], may |-> {v[g]}]]
    BY <1>5 DEF Reset
  <2>2. v[f] \in file[f].may /\ file'[f].may = {v[f]}
    BY <2>1
  <2>3. QED
    BY <2>2, SettledStep
<1>6. CASE UNCHANGED svars
  BY <1>1, <1>6 DEF svars, disk
<1>7. QED
  BY <1>2, <1>3, <1>4, <1>5, <1>6 DEF SNext

(* Each state file is the register write_atomic promises: found whole or as   *)
(* it was before, and never older than a value that had settled, whatever     *)
(* write fails and wherever the process or the machine stops (inventory.rs,   *)
(* write_atomic and load_state).                                              *)
THEOREM FilesImplementRegister == SSpec => FilesAreRegisters
<1>1. SInit => InventoryFile!RInit /\ EventsFile!RInit
  BY FileStarts DEF InventoryFile!RInit, EventsFile!RInit, Seen, Files
<1>2. StoreInv /\ [SNext]_svars =>
        [InventoryFile!Put \/ InventoryFile!Settle \/ InventoryFile!MoveAside]_{[what |-> v.what, n |-> v.n] : v \in file["inventory"].may}
  BY FileSteps DEF RegisterStep, Seen, Files, InventoryFile!Put, InventoryFile!Settle, InventoryFile!MoveAside
<1>3. StoreInv /\ [SNext]_svars =>
        [EventsFile!Put \/ EventsFile!Settle \/ EventsFile!MoveAside]_{[what |-> v.what, n |-> v.n] : v \in file["events"].may}
  BY FileSteps DEF RegisterStep, Seen, Files, EventsFile!Put, EventsFile!Settle, EventsFile!MoveAside
<1>4. QED
  BY <1>1, <1>2, <1>3, StoreInvariant, PTL DEF SSpec, FilesAreRegisters, InventoryFile!RSpec, EventsFile!RSpec

-----------------------------------------------------------------------------
(* What the state files keep, proved for any ring, any budgets and any number *)
(* of kills and resets: the numbers of events go on, what could not be read   *)
(* is not destroyed, and a graceful stop leaves everything in the files.      *)

\* A ring's numbers are in order, and before the next one.
InOrder(ring, next) == \A i \in 1 .. Len(ring) : ring[i] < next /\ (i > 1 => ring[i - 1] < ring[i])

\* The rings in memory, in the files and on their way.
RingsOK ==
  /\ Len(log.ring) <= Cap /\ InOrder(log.ring, log.next)
  /\ \A v \in file["events"].may : InOrder(v.ring, v.n)
  /\ write["events"].pc \in {"write", "rename"} => InOrder(write["events"].value.ring, write["events"].value.n)

\* The number a file has when it holds everything up to seq.
Counts(f, seq) == IF f = "events" THEN seq + 1 ELSE seq

\* What was noted as written is in the file, and so is what is about to be.
SavesOK(f) ==
  /\ saved[f] \in Nat /\ saved[f] <= Current(f)
  /\ saved[f] > 0 => Counts(f, saved[f]) <= file[f].now.n
  /\ write[f].pc # "idle" => write[f].seq \in Nat /\ write[f].seq <= Current(f)
  /\ write[f].pc \in {"write", "rename"} => write[f].value.n = Counts(f, write[f].seq)
  /\ write[f].pc = "dir" => Counts(f, write[f].seq) <= file[f].now.n

\* Where the last persist is past a file.
Past(f) == IF f = "events" THEN {"inventory", "exit"} ELSE {"exit"}
Stopping == {"events", "inventory", "exit"}

\* What the stop owes is in memory, then on its way or in the file.
OwedOK(f) ==
  /\ owed[f] \in Nat
  /\ main \in Stopping => owed[f] <= Number(f)
  /\ main \in Past(f) => /\ write[f].pc \in {"write", "rename"} => owed[f] <= write[f].value.n
                         /\ write[f].pc = "dir" => owed[f] <= file[f].now.n
                         /\ write[f].pc = "idle" /\ f \notin failed => owed[f] <= file[f].now.n

\* No number given to a client is behind what goes on, in memory or from the file.
GoesOn ==
  /\ poller \in Nat
  /\ main # "down" => log.next >= 2
  /\ ~crashed => /\ main = "down" => poller = 0 \/ poller < file["events"].now.n
                 /\ main # "down" => poller < log.next
                 /\ main \in Stopping => poller < owed["events"]

\* What could not be read and is still there could not be moved aside.
AsideOK(f) ==
  /\ IsFiniteSet(file[f].may)
  /\ main # "down" /\ file[f].now.what = "garbage" => f \in refused

KeptInv ==
  /\ RingsOK /\ GoesOn /\ DOMAIN saved = Files
  /\ \A f \in Files : SavesOK(f) /\ OwedOK(f) /\ AsideOK(f)

-----------------------------------------------------------------------------
\* The newest of a ring in order are in order.
LEMMA NewestInOrder ==
  ASSUME NEW ring \in Seq(Nat), NEW next \in Nat, InOrder(ring, next), NEW k \in Nat
  PROVE  InOrder(Newest(ring, k), next) /\ Len(Newest(ring, k)) <= k
<1>1. CASE Len(ring) > k
  <2> DEFINE cut == Len(ring) - k
             new == SubSeq(ring, cut + 1, Len(ring))
  <2>1. Len(ring) \in Nat /\ cut \in Nat
    BY <1>1, LenProperties
  <2>2. Len(new) = k /\ \A i \in 1 .. k : new[i] = ring[cut + i]
    <3>1. cut + 1 \in 1 .. Len(ring) + 1
      BY <2>1
    <3>2. \A i \in cut + 1 .. Len(ring) : ring[i] \in Nat
      BY <2>1, ElementOfSeq
    <3>3. /\ Len(new) = IF cut + 1 <= Len(ring) THEN Len(ring) - (cut + 1) + 1 ELSE 0
          /\ \A i \in 1 .. Len(ring) - (cut + 1) + 1 : new[i] = ring[cut + 1 + i - 1]
      BY <2>1, <3>1, <3>2, SubSeqProperties
    <3> HIDE DEF new
    <3>4. Len(ring) - (cut + 1) + 1 = k /\ \A i \in 1 .. k : cut + 1 + i - 1 = cut + i
      BY <2>1
    <3> HIDE DEF cut
    <3>5. cut + 1 <= Len(ring) \/ k = 0
      BY <2>1, <3>4
    <3>6. Len(new) = k
      BY <2>1, <3>3, <3>4, <3>5
    <3>7. \A i \in 1 .. k : new[i] = ring[cut + i]
      BY <3>3, <3>4
    <3>8. QED
      BY <3>6, <3>7
  <2>3. Newest(ring, k) = new
    BY <1>1 DEF Newest
  <2> HIDE DEF new
  <2>4. \A i \in 1 .. k : cut + i \in 1 .. Len(ring) /\ (i > 1 => cut + i - 1 = cut + (i - 1) /\ cut + i > 1 /\ i - 1 \in 1 .. k)
    BY <2>1
  <2>5. \A i \in 1 .. k : ring[cut + i] < next /\ (i > 1 => ring[cut + (i - 1)] < ring[cut + i])
    BY <2>4 DEF InOrder
  <2> HIDE DEF cut
  <2>6. \A i \in 1 .. k : new[i] < next /\ (i > 1 => new[i - 1] < new[i])
    BY <2>2, <2>4, <2>5
  <2>7. InOrder(new, next) /\ Len(new) <= k
    BY <2>2, <2>6 DEF InOrder
  <2>8. QED
    BY <2>3, <2>7
<1>2. CASE ~(Len(ring) > k)
  BY <1>2, LenProperties DEF Newest
<1>3. QED
  BY <1>1, <1>2

\* Events pushed onto a log in order leave it in order, and not too long.
LEMMA PushedInOrder ==
  ASSUME NEW l, l.next \in Nat, l.ring \in Seq(Nat), InOrder(l.ring, l.next), NEW k \in Nat
  PROVE  InOrder(Pushed(l, k).ring, l.next + k) /\ Len(Pushed(l, k).ring) <= Cap
<1> DEFINE more == [i \in 1 .. k |-> l.next + i - 1]
           ring == l.ring \o more
           n == Len(l.ring)
<1>1. more \in Seq(Nat) /\ Len(more) = k
  BY IsASeq
<1>2. n \in Nat
  BY LenProperties
<1>3. /\ ring \in Seq(Nat) /\ Len(ring) = n + k
      /\ \A i \in 1 .. n + k : ring[i] = IF i <= n THEN l.ring[i] ELSE more[i - n]
  BY <1>1, ConcatProperties
<1>4. \A i \in 1 .. k : more[i] = l.next + i - 1
  OBVIOUS
<1> HIDE DEF more, ring
<1>5. \A i \in 1 .. n + k : ring[i] \in Nat /\ (i <= n => ring[i] = l.ring[i]) /\ (i > n => ring[i] = l.next + (i - n) - 1)
  <2>1. TAKE i \in 1 .. n + k
  <2>2. CASE i <= n
    BY <1>2, <1>3, <2>2, ElementOfSeq
  <2>3. CASE i > n
    <3>1. i - n \in 1 .. k
      BY <1>2, <2>3
    <3>2. more[i - n] = l.next + (i - n) - 1
      BY <1>4, <3>1
    <3>3. QED
      BY <1>2, <1>3, <2>3, <3>1, <3>2
  <2>4. QED
    BY <1>2, <2>2, <2>3
<1>6. InOrder(ring, l.next + k)
  <2> SUFFICES ASSUME NEW i \in 1 .. n + k
               PROVE  ring[i] < l.next + k /\ (i > 1 => ring[i - 1] < ring[i])
    BY <1>3 DEF InOrder
  <2>1. \A j \in 1 .. n : l.ring[j] \in Nat /\ l.ring[j] < l.next /\ (j > 1 => l.ring[j - 1] < l.ring[j])
    BY ElementOfSeq DEF InOrder
  <2>2. i > 1 => i - 1 \in 1 .. n + k
    BY <1>2
  <2>3. CASE i <= n
    <3>1. ring[i] = l.ring[i] /\ ring[i] < l.next /\ ring[i] \in Nat
      BY <1>2, <1>5, <2>1, <2>3
    <3>2. ASSUME i > 1
          PROVE  ring[i - 1] < ring[i]
      <4>0. i - 1 \in 1 .. n /\ i - 1 <= n
        BY <1>2, <2>3, <3>2
      <4>1. ring[i - 1] = l.ring[i - 1] /\ i - 1 \in 1 .. n
        BY <1>5, <2>2, <3>2, <4>0
      <4>2. QED
        BY <1>2, <2>1, <2>3, <3>1, <3>2, <4>1
    <3>3. QED
      BY <3>1, <3>2
  <2>4. CASE i > n
    <3>1. ring[i] = l.next + (i - n) - 1
      BY <1>5, <2>4
    <3>2. ASSUME i > 1
          PROVE  ring[i - 1] < ring[i]
      <4>1. CASE i - 1 <= n
        <5>1. i - 1 \in 1 .. n /\ ring[i - 1] = l.ring[i - 1]
          BY <1>2, <1>5, <2>2, <3>2, <4>1
        <5>2. ring[i - 1] < l.next /\ ring[i - 1] \in Nat
          BY <2>1, <5>1
        <5>3. QED
          BY <1>2, <2>4, <3>1, <5>2
      <4>2. CASE i - 1 > n
        <5>1. ring[i - 1] = l.next + (i - 1 - n) - 1
          BY <1>5, <2>2, <3>2, <4>2
        <5>2. PICK b \in Nat, a \in Int : b = l.next /\ a = i - 1 - n
          <6>1. l.next \in Nat
            OBVIOUS
          <6>2. i \in Int
            OBVIOUS
          <6>3. i - 1 - n \in Int
            BY <1>2
          <6>4. QED
            BY <6>1, <6>3
        <5>3. i - n = a + 1
          BY <1>2, <5>2
        <5>4. ring[i - 1] = b + a - 1 /\ ring[i] = b + (a + 1) - 1
          BY <3>1, <5>1, <5>2, <5>3
        <5>5. b + a - 1 < b + (a + 1) - 1
          OBVIOUS
        <5>6. QED
          BY <5>4, <5>5
      <4>3. QED
        BY <1>2, <4>1, <4>2
    <3>3. QED
      BY <1>2, <2>4, <3>1, <3>2
  <2>5. QED
    BY <1>2, <2>3, <2>4
<1>7. InOrder(Newest(ring, Cap), l.next + k) /\ Len(Newest(ring, Cap)) <= Cap
  BY <1>3, <1>6, NewestInOrder, StoreBounds DEF StoreBounds
<1>8. QED
  BY <1>7 DEF Pushed, ring, more

\* A log restored from a file in order is in order, and goes on at its number.
LEMMA RestoredInOrder ==
  ASSUME NEW v, v.n \in Nat, v.n >= 1, v.ring \in Seq(Nat), InOrder(v.ring, v.n)
  PROVE  /\ Restored(v).next = v.n
         /\ InOrder(Restored(v).ring, v.n) /\ Len(Restored(v).ring) <= Cap
<1> DEFINE ring == Newest(v.ring, Cap)
           after == IF ring = <<>> THEN 1 ELSE Last(ring) + 1
<1>1. ring \in Seq(Nat) /\ InOrder(ring, v.n) /\ Len(ring) <= Cap
  BY NewestType, NewestInOrder, StoreBounds DEF StoreBounds
<1>2. after \in Nat /\ after <= v.n
  <2>1. CASE ring = <<>>
    BY <2>1
  <2>2. CASE ring # <<>>
    <3>1. Len(ring) \in 1 .. Len(ring)
      BY <1>1, <2>2, EmptySeq, LenProperties
    <3>2. ring[Len(ring)] \in Nat /\ ring[Len(ring)] < v.n
      BY <1>1, <3>1, ElementOfSeq DEF InOrder
    <3>3. after = ring[Len(ring)] + 1
      BY <2>2 DEF Last
    <3> HIDE DEF after, ring
    <3>4. QED
      BY <3>2, <3>3
  <2>3. QED
    BY <2>1, <2>2
<1> HIDE DEF ring, after
<1>3. Max({v.n, after}) \in {v.n, after} /\ Max({v.n, after}) >= v.n
  BY <1>2, MaxOfTwo
<1>4. Max({v.n, after}) = v.n
  BY <1>2, <1>3
<1>5. Restored(v) = [next |-> Max({v.n, after}), ring |-> ring]
  BY DEF Restored, ring, after
<1>6. QED
  BY <1>1, <1>4, <1>5

-----------------------------------------------------------------------------
(* What the program does to a file, its write and the numbers.             *)

\* How a step may change a file.
FileMoves(f) ==
  \/ file'[f] = file[f]
  \/ Rename(f) /\ file'[f].now = write[f].value /\ file'[f].may = file[f].may \union {write[f].value}
  \/ SyncDir(f) /\ file'[f].now = file[f].now /\ file'[f].may = {file[f].now}
  \/ /\ Start /\ Unreadable(file[f].now) /\ f \in aside'
     /\ file'[f].now = Holding("absent", 0, <<>>)
     /\ file'[f].may = file[f].may \union {Holding("absent", 0, <<>>)}
  \/ Reset /\ file'[f].now \in file[f].may /\ file'[f].may = {file'[f].now}

LEMMA FileMovesSo ==
  ASSUME StoreInv, [SNext]_svars, NEW f \in Files
  PROVE  FileMoves(f)
<1>1. ASSUME UNCHANGED file[f]
      PROVE  FileMoves(f)
  BY <1>1 DEF FileMoves
<1>2. CASE Push \/ Poll \/ Change \/ StopBegin \/ Exit \/ Kill
  BY <1>1, <1>2 DEF Push, Poll, Change, StopBegin, Exit, Kill, disk
<1>3. ASSUME NEW g \in Files, Work(g) \/ LastPersist(g)
      PROVE  FileMoves(f)
  <2>1. CASE Begin(g) \/ WriteSynced(g) \/ WriteFails(g) \/ LastPersist(g)
    BY <1>1, <2>1 DEF Begin, WriteSynced, WriteFails, LastPersist, disk
  <2>2. CASE Rename(g)
    <3>1. CASE g = f
      BY <2>2, <3>1 DEF FileMoves, Rename, StoreInv, Shape, WriteOK
    <3>2. CASE g # f
      <4>1. file'[f] = file[f]
        BY <2>2, <3>2 DEF Rename, StoreInv, Shape
      <4>2. QED
        BY <1>1, <4>1
    <3>3. QED
      BY <3>1, <3>2
  <2>3. CASE SyncDir(g)
    <3>1. CASE UNCHANGED file
      BY <1>1, <3>1
    <3>2. CASE file' = [file EXCEPT ![g].may = {file[g].now}]
      <4>1. g # f => file'[f] = file[f]
        BY <3>2 DEF StoreInv, Shape
      <4>2. g = f => file'[f].may = {file[f].now} /\ file'[f].now = file[f].now
        <5>1. file[f] = [now |-> file[f].now, may |-> file[f].may] /\ DOMAIN file = Files
          BY DEF StoreInv, Shape
        <5>2. QED
          BY <3>2, <5>1
      <4>3. QED
        BY <1>1, <2>3, <4>1, <4>2 DEF FileMoves
    <3>3. QED
      BY <2>3, <3>1, <3>2 DEF SyncDir
  <2>4. QED
    BY <1>3, <2>1, <2>2, <2>3 DEF Work
<1>4. CASE Start
  <2>1. PICK out \in SUBSET {g \in Files : Unreadable(file[g].now)} :
          /\ file' = [g \in Files |-> IF g \in out
                                   THEN [now |-> Holding("absent", 0, <<>>),
                                         may |-> file[g].may \union {Holding("absent", 0, <<>>)}]
                                   ELSE file[g]]
          /\ aside' = aside \union out
    BY <1>4 DEF Start
  <2>2. CASE f \in out
    BY <1>4, <2>1, <2>2 DEF FileMoves
  <2>3. CASE f \notin out
    BY <1>1, <2>1, <2>3
  <2>4. QED
    BY <2>2, <2>3
<1>5. CASE Reset
  <2>1. PICK v \in [Files -> UNION {file[g].may : g \in Files}] :
          /\ \A g \in Files : v[g] \in file[g].may
          /\ file' = [g \in Files |-> [now |-> v[g], may |-> {v[g]}]]
    BY <1>5 DEF Reset
  <2>2. v[f] \in file[f].may /\ file'[f].now = v[f] /\ file'[f].may = {v[f]}
    BY <2>1
  <2>3. QED
    BY <1>5, <2>2 DEF FileMoves
<1>6. CASE UNCHANGED svars
  BY <1>1, <1>6 DEF svars, disk
<1>7. QED
  BY <1>2, <1>3, <1>4, <1>5, <1>6 DEF SNext

\* How a step may change the log.
LogMoves ==
  \/ log' = log
  \/ log' = Pushed(log, 1)
  \/ log' = NewLog
  \/ Start

LEMMA LogMovesSo ==
  ASSUME [SNext]_svars
  PROVE  LogMoves
<1>1. CASE \E f \in Files : Work(f) \/ LastPersist(f)
  BY <1>1 DEF Work, Begin, WriteSynced, Rename, SyncDir, WriteFails, LastPersist, mem, LogMoves
<1>2. CASE Push \/ Poll \/ Change \/ StopBegin
  BY <1>2 DEF Push, Poll, Change, StopBegin, mem, LogMoves
<1>3. CASE Exit \/ Kill \/ Reset
  BY <1>3 DEF Exit, Kill, Reset, Ended, LogMoves
<1>4. CASE Start \/ UNCHANGED svars
  BY <1>4 DEF svars, mem, LogMoves
<1>5. QED
  BY <1>1, <1>2, <1>3, <1>4 DEF SNext

\* How a step may change the write of a file.
WriteMoves(f) ==
  \/ write'[f] = write[f]
  \/ write'[f] = Idle
  \/ /\ main # "down" /\ main' # "down" /\ UNCHANGED <<log, inv>>
     /\ write'[f] = [pc |-> "write", value |-> Contents(f), seq |-> Current(f)]
  \/ /\ write[f].pc = "write"
     /\ write'[f] = [pc |-> "rename", synced |-> SyncAll, value |-> write[f].value, seq |-> write[f].seq]
  \/ Rename(f) /\ write'[f].pc = "dir" /\ write'[f].seq = write[f].seq

LEMMA WriteMovesSo ==
  ASSUME StoreInv, [SNext]_svars, NEW f \in Files
  PROVE  WriteMoves(f)
<1>0. DOMAIN write = Files
  BY DEF StoreInv, Shape
<1>1. CASE Push \/ Poll \/ Change \/ StopBegin \/ Start \/ UNCHANGED svars
  <2>1. write' = write
    BY <1>1 DEF Push, Poll, Change, StopBegin, Start, svars
  <2>2. QED
    BY <2>1 DEF WriteMoves
<1>2. CASE Exit \/ Kill \/ Reset
  BY <1>2 DEF Exit, Kill, Reset, Ended, WriteMoves
<1>3. ASSUME NEW g \in Files, g # f, Work(g) \/ LastPersist(g)
      PROVE  write'[f] = write[f]
  BY <1>0, <1>3 DEF Work, Begin, WriteSynced, Rename, SyncDir, WriteFails, LastPersist, Started
<1>4. ASSUME Begin(f) \/ LastPersist(f)
      PROVE  WriteMoves(f)
  <2>1. main # "down" /\ main' # "down" /\ UNCHANGED <<log, inv>>
    BY <1>4 DEF Begin, LastPersist, mem, Files
  <2>2. write' = write \/ write' = Started(f)
    BY <1>4 DEF Begin, LastPersist
  <2>3. QED
    BY <1>0, <2>1, <2>2 DEF Started, WriteMoves
<1>5. ASSUME WriteSynced(f)
      PROVE  WriteMoves(f)
  BY <1>0, <1>5 DEF WriteSynced, WriteMoves
<1>6. ASSUME Rename(f)
      PROVE  WriteMoves(f)
  <2>1. "pc" \in DOMAIN write[f]
    BY <1>6 DEF StoreInv, WriteOK, Rename
  <2>2. write'[f] = [write[f] EXCEPT !.pc = "dir"]
    BY <1>0, <1>6 DEF Rename
  <2>3. write'[f].pc = "dir" /\ write'[f].seq = write[f].seq
    BY <2>1, <2>2
  <2>4. QED
    BY <1>6, <2>3 DEF WriteMoves
<1>7. ASSUME SyncDir(f) \/ WriteFails(f)
      PROVE  WriteMoves(f)
  BY <1>0, <1>7 DEF SyncDir, WriteFails, WriteMoves
<1>8. QED
  <2>1. WriteMoves(f) \/ write'[f] # write[f]
    BY DEF WriteMoves
  <2>2. CASE \E g \in Files : Work(g) \/ LastPersist(g)
    BY <1>3, <1>4, <1>5, <1>6, <1>7, <2>1, <2>2 DEF Work
  <2>3. QED
    BY <1>1, <1>2, <2>2 DEF SNext

\* What a start makes of the log.
LEMMA StartLog ==
  ASSUME StoreInv, RingsOK, Start
  PROVE  /\ log'.next \in Nat /\ log'.next >= 2
         /\ Len(log'.ring) <= Cap /\ InOrder(log'.ring, log'.next)
         /\ file["events"].now.n <= saved'["events"] + 1
         /\ saved'["events"] \in Nat /\ saved'["events"] + 2 <= log'.next
         /\ saved'["events"] > 0 => saved'["events"] + 1 = file["events"].now.n /\ file["events"].now.what = "whole"
         /\ saved'["inventory"] = 0 /\ DOMAIN saved' = Files
<1> DEFINE old == file["events"].now
           kept == IF old.what = "whole" THEN Restored(old) ELSE NewLog
<1>1. /\ log' = Pushed(kept, 1 + Notes(Files))
      /\ saved' = [inventory |-> 0, events |-> kept.next - 1]
  BY DEF Start
<1>2. ValueOK(old) /\ InOrder(old.ring, old.n)
  BY DEF StoreInv, FileOK, Files, RingsOK
<1>3. /\ kept.next \in Nat /\ kept.next >= 1 /\ kept.ring \in Seq(Nat)
      /\ InOrder(kept.ring, kept.next) /\ Len(kept.ring) <= Cap
      /\ old.n <= kept.next
      /\ kept.next > 1 => kept.next = old.n /\ old.what = "whole"
  <2>1. CASE old.what = "whole"
    <3>1. old.n \in Nat /\ old.n >= 1 /\ old.ring \in Seq(Nat)
      BY <1>2, <2>1 DEF ValueOK, Unusable
    <3>2. Restored(old).next = old.n /\ InOrder(Restored(old).ring, old.n) /\ Len(Restored(old).ring) <= Cap
      BY <1>2, <3>1, RestoredInOrder
    <3>3. Restored(old).ring \in Seq(Nat)
      BY <3>1, RestoredType
    <3>4. QED
      BY <2>1, <3>1, <3>2, <3>3
  <2>2. CASE old.what # "whole"
    <3>1. kept.next = 1 /\ kept.ring = <<>>
      BY <2>2 DEF NewLog
    <3>2. Len(kept.ring) = 0 /\ kept.ring \in Seq(Nat)
      BY <3>1, EmptySeq
    <3>3. InOrder(kept.ring, kept.next)
      BY <3>2 DEF InOrder
    <3>4. old.n = 0
      BY <1>2, <2>2 DEF ValueOK
    <3>5. QED
      BY <3>1, <3>2, <3>3, <3>4, StoreBounds DEF StoreBounds
  <2>3. QED
    BY <2>1, <2>2
<1> HIDE DEF kept
<1>4. Notes(Files) \in Nat /\ 1 + Notes(Files) \in Nat
  BY NotesType
<1>5. log'.next = kept.next + (1 + Notes(Files)) /\ log'.ring \in Seq(Nat)
  BY <1>1, <1>3, <1>4, PushedType
<1>6. InOrder(log'.ring, log'.next) /\ Len(log'.ring) <= Cap
  BY <1>1, <1>3, <1>4, <1>5, PushedInOrder
<1>7. saved'["events"] = kept.next - 1 /\ saved'["inventory"] = 0 /\ DOMAIN saved' = Files
  BY <1>1 DEF Files
<1>8. old.n \in Nat
  BY <1>2 DEF ValueOK
<1>9. QED
  BY <1>3, <1>4, <1>5, <1>6, <1>7, <1>8

LEMMA NextRings ==
  ASSUME StoreInv, RingsOK, [SNext]_svars
  PROVE  RingsOK'
<1>1. Len(log'.ring) <= Cap /\ InOrder(log'.ring, log'.next)
  <2>1. CASE log' = log
    BY <2>1 DEF RingsOK
  <2>2. CASE log' = Pushed(log, 1)
    <3>1. log.next \in Nat /\ log.ring \in Seq(Nat) /\ InOrder(log.ring, log.next)
      BY DEF StoreInv, MemoryOK, RingsOK
    <3>2. log'.next = log.next + 1
      BY <2>2, <3>1, PushedType
    <3>3. QED
      BY <2>2, <3>1, <3>2, PushedInOrder
  <2>3. CASE log' = NewLog
    <3>1. log'.ring = <<>> /\ Len(log'.ring) = 0
      BY <2>3 DEF NewLog
    <3>2. QED
      BY <3>1, StoreBounds DEF StoreBounds, InOrder
  <2>4. CASE Start
    BY <2>4, StartLog
  <2>5. QED
    BY <2>1, <2>2, <2>3, <2>4, LogMovesSo DEF LogMoves
<1>2. \A v \in file'["events"].may : InOrder(v.ring, v.n)
  <2>1. "events" \in Files /\ FileMoves("events")
    BY FileMovesSo DEF Files
  <2>2. \A v \in file["events"].may : InOrder(v.ring, v.n)
    BY DEF RingsOK
  <2>3. Rename("events") => InOrder(write["events"].value.ring, write["events"].value.n)
    BY DEF RingsOK, Rename
  <2>4. Holding("absent", 0, <<>>).ring = <<>> /\ Len(<<>>) = 0
    BY DEF Holding
  <2>5. InOrder(Holding("absent", 0, <<>>).ring, Holding("absent", 0, <<>>).n)
    BY <2>4 DEF InOrder
  <2>6. file["events"].now \in file["events"].may
    BY <2>1 DEF StoreInv, FileOK
  <2>7. QED
    BY <2>1, <2>2, <2>3, <2>5, <2>6 DEF FileMoves
<1>3. write'["events"].pc \in {"write", "rename"} => InOrder(write'["events"].value.ring, write'["events"].value.n)
  <2>1. WriteMoves("events")
    BY WriteMovesSo DEF Files
  <2>2. write["events"].pc \in {"write", "rename"} => InOrder(write["events"].value.ring, write["events"].value.n)
    BY DEF RingsOK
  <2>3. Contents("events").n = log.next /\ Contents("events").ring = Newest(log.ring, PersistTail)
    BY DEF Contents, Holding
  <2>4. InOrder(Contents("events").ring, Contents("events").n)
    BY <2>3, NewestInOrder, StoreBounds DEF StoreBounds, StoreInv, MemoryOK, RingsOK
  <2>5. QED
    BY <2>1, <2>2, <2>4 DEF WriteMoves, Idle
<1>4. QED
  BY <1>1, <1>2, <1>3 DEF RingsOK

-----------------------------------------------------------------------------
(* What is saved, owed and given out.                                      *)

\* A file that a step leaves alone, while the numbers only grow.
LEMMA KeptFile ==
  ASSUME StoreInv, NEW f \in Files, SavesOK(f), OwedOK(f), AsideOK(f), main # "down", main' # "down",
         file'[f] = file[f], write'[f] = write[f], saved'[f] = saved[f], owed'[f] = owed[f],
         f \in failed' <=> f \in failed, refused' = refused,
         Current(f)' \in Nat, Current(f)' >= Current(f), Number(f)' \in Nat, Number(f)' >= Number(f),
         main' \in Stopping => main \in Stopping, main' \in Past(f) => main \in Past(f)
  PROVE  SavesOK(f)' /\ OwedOK(f)' /\ AsideOK(f)'
<1>1. Current(f) \in Int /\ Number(f) \in Nat
  BY DEF Current, Number, StoreInv, MemoryOK
<1>2. SavesOK(f)'
  <2>1. saved'[f] \in Nat /\ saved'[f] <= Current(f)'
    BY <1>1 DEF SavesOK
  <2>2. write'[f].pc # "idle" => write'[f].seq \in Nat /\ write'[f].seq <= Current(f)'
    BY <1>1 DEF SavesOK
  <2>3. QED
    BY <2>1, <2>2 DEF SavesOK, Counts
<1>3. OwedOK(f)'
  <2>1. owed'[f] \in Nat /\ (main' \in Stopping => owed'[f] <= Number(f)')
    BY <1>1 DEF OwedOK
  <2>2. QED
    BY <2>1 DEF OwedOK, Past
<1>4. AsideOK(f)'
  BY DEF AsideOK
<1>5. QED
  BY <1>2, <1>3, <1>4

\* The number of a file, while the program runs, counts what memory holds.
LEMMA NumberCounts ==
  ASSUME StoreInv, NEW f \in Files
  PROVE  /\ Number(f) \in Nat /\ Number(f) = Counts(f, Current(f)) /\ Current(f) \in Nat
<1>1. log.next \in Nat /\ log.next >= 1 /\ inv \in Nat
  BY DEF StoreInv, MemoryOK
<1>2. CASE f = "events"
  BY <1>1, <1>2 DEF Number, Counts, Current
<1>3. CASE f # "events"
  BY <1>1, <1>3 DEF Number, Counts, Current
<1>4. QED
  BY <1>2, <1>3

\* The parts that are about one file.
FileKept(f) == SavesOK(f) /\ OwedOK(f) /\ AsideOK(f)

\* Push, Poll and Change.
LEMMA MemoryKept ==
  ASSUME StoreInv, NEW f \in Files, FileKept(f), Push \/ Poll \/ Change
  PROVE  FileKept(f)'
<1>1. /\ main # "down" /\ main' = main
      /\ UNCHANGED <<file, write, saved, owed, failed, refused>>
      /\ \/ UNCHANGED <<log, inv>>
         \/ log' = Pushed(log, 1) /\ inv' = inv
         \/ inv' = clock + 1 /\ log' = log
  BY DEF Push, Poll, Change, disk, mem, past
<1>2. log'.next \in Nat /\ log'.next >= log.next /\ inv' \in Nat /\ inv' >= inv /\ log.next \in Nat /\ log.next >= 1 /\ inv \in Nat
  <2>1. log.next \in Nat /\ log.next >= 1 /\ inv \in Nat /\ clock \in Nat /\ inv <= clock /\ log.ring \in Seq(Nat)
    BY DEF StoreInv, MemoryOK
  <2>2. Pushed(log, 1).next = log.next + 1
    BY <2>1, PushedType
  <2>3. QED
    BY <1>1, <2>1, <2>2
<1>3. Current(f)' \in Nat /\ Current(f)' >= Current(f) /\ Number(f)' \in Nat /\ Number(f)' >= Number(f)
  BY <1>2 DEF Current, Number
<1>4. QED
  BY <1>1, <1>3, KeptFile DEF FileKept

\* A step of one file's write, seen from the other file.
LEMMA OthersKept ==
  ASSUME StoreInv, NEW f \in Files, FileKept(f), main # "down", main' # "down",
         file'[f] = file[f], write'[f] = write[f], saved'[f] = saved[f], owed' = owed,
         f \in failed' <=> f \in failed, refused' = refused, UNCHANGED <<log, inv>>,
         main' \in Stopping => main \in Stopping, main' \in Past(f) => main \in Past(f)
  PROVE  FileKept(f)'
<1>1. Current(f) \in Nat /\ Number(f) \in Nat
  BY NumberCounts
<1>2. Current(f)' = Current(f) /\ Number(f)' = Number(f)
  BY DEF Current, Number
<1>3. QED
  BY <1>1, <1>2, KeptFile DEF FileKept

\* A write is started from what memory holds.
LEMMA StartedKept ==
  ASSUME StoreInv, NEW f \in Files, FileKept(f), main # "down", main' # "down",
         write' = Started(f), UNCHANGED <<file, log, inv, saved, past>>,
         main' \in Stopping => main \in Stopping
  PROVE  FileKept(f)'
<1>1. write'[f] = [pc |-> "write", value |-> Contents(f), seq |-> Current(f)]
  BY DEF Started, StoreInv, Shape
<1>2. Current(f)' = Current(f) /\ Number(f)' = Number(f)
  BY DEF Current, Number
<1>3. Current(f) \in Nat /\ Number(f) = Counts(f, Current(f)) /\ Number(f) \in Nat
  BY NumberCounts
<1>4. Contents(f).n = Number(f)
  BY StartedType
<1>5. SavesOK(f)'
  <2>1. saved'[f] = saved[f] /\ file'[f] = file[f] /\ saved[f] \in Nat /\ saved[f] <= Current(f)
        /\ (saved[f] > 0 => Counts(f, saved[f]) <= file[f].now.n)
    BY DEF FileKept, SavesOK
  <2>2. Counts(f, saved[f])' = Counts(f, saved[f]) /\ Counts(f, Current(f))' = Counts(f, Current(f))
    BY <1>2, <2>1 DEF Counts
  <2>3. write'[f].pc = "write" /\ write'[f].seq = Current(f) /\ write'[f].value.n = Counts(f, Current(f))
    BY <1>1, <1>3, <1>4
  <2>4. Counts(f, write[f].seq)' = Counts(f, Current(f))
    BY <2>3 DEF Counts
  <2>5. QED
    BY <1>2, <1>3, <2>1, <2>2, <2>3, <2>4 DEF SavesOK
<1>6. OwedOK(f)'
  <2>1. owed'[f] = owed[f] /\ owed[f] \in Nat /\ (main' \in Stopping => owed[f] <= Number(f))
    BY DEF FileKept, OwedOK, past
  <2>2. write'[f].pc = "write" /\ write'[f].value.n = Number(f)
    BY <1>1, <1>4
  <2>3. main' \in Past(f) => main' \in Stopping
    BY DEF Past, Stopping
  <2>4. QED
    BY <1>2, <2>1, <2>2, <2>3 DEF OwedOK, Past
<1>7. AsideOK(f)'
  BY DEF FileKept, AsideOK, past
<1>8. QED
  BY <1>5, <1>6, <1>7 DEF FileKept

LEMMA BeginKept ==
  ASSUME StoreInv, NEW f \in Files, NEW g \in Files, FileKept(g), Begin(f)
  PROVE  FileKept(g)'
<1>1. /\ main # "down" /\ main' = main /\ write' = Started(f)
      /\ UNCHANGED <<file, log, inv, saved, past>>
  BY DEF Begin, disk, mem
<1>2. CASE g = f
  BY <1>1, <1>2, StartedKept
<1>3. CASE g # f
  <2>1. write'[g] = write[g]
    BY <1>1, <1>3 DEF Started, StoreInv, Shape
  <2>2. QED
    BY <1>1, <2>1, OthersKept DEF past
<1>4. QED
  BY <1>2, <1>3

\* A write moves on to its rename.
LEMMA WriteSyncedKept ==
  ASSUME StoreInv, NEW f \in Files, NEW g \in Files, FileKept(g), WriteSynced(f)
  PROVE  FileKept(g)'
<1>1. /\ write[f].pc = "write" /\ main' = main /\ DOMAIN write = Files
      /\ UNCHANGED <<file, log, inv, saved, past>>
      /\ write' = [write EXCEPT ![f] = [pc |-> "rename", synced |-> SyncAll, value |-> write[f].value, seq |-> write[f].seq]]
  BY DEF WriteSynced, disk, mem, StoreInv, Shape
<1>2. main # "down"
  BY <1>1 DEF StoreInv, WriteOK
<1>3. CASE g = f
  <2>1. /\ write'[f].pc = "rename" /\ write'[f].value = write[f].value /\ write'[f].seq = write[f].seq
    BY <1>1
  <2>2. Current(f)' = Current(f) /\ Number(f)' = Number(f)
    BY <1>1 DEF Current, Number
  <2>3. SavesOK(f)'
    BY <1>1, <1>3, <2>1, <2>2 DEF FileKept, SavesOK, Counts
  <2>4. OwedOK(f)'
    BY <1>1, <1>3, <2>1, <2>2 DEF FileKept, OwedOK, Past, past
  <2>5. AsideOK(f)'
    BY <1>1, <1>3 DEF FileKept, AsideOK, past
  <2>6. QED
    BY <1>3, <2>3, <2>4, <2>5 DEF FileKept
<1>4. CASE g # f
  <2>1. write'[g] = write[g]
    BY <1>1, <1>4
  <2>2. QED
    BY <1>1, <1>2, <2>1, OthersKept DEF past
<1>5. QED
  BY <1>3, <1>4

\* The new value has the file's name.
LEMMA RenameKept ==
  ASSUME StoreInv, NEW f \in Files, NEW g \in Files, FileKept(g), Rename(f)
  PROVE  FileKept(g)'
<1>1. /\ write[f].pc = "rename" /\ main' = main /\ DOMAIN write = Files /\ DOMAIN file = Files
      /\ UNCHANGED <<log, inv, saved, past>>
  BY DEF Rename, mem, StoreInv, Shape
<1>2. main # "down" /\ write[f].value.what = "whole" /\ file[f].now.n <= write[f].value.n
      /\ write[f].value.n \in Nat /\ file[f].now.n \in Nat
  BY <1>1 DEF StoreInv, WriteOK, FileOK, ValueOK
<1>3. CASE g = f
  <2>1. /\ file'[f].now = write[f].value /\ file'[f].may = file[f].may \union {write[f].value}
        /\ write'[f].pc = "dir" /\ write'[f].seq = write[f].seq
    <3>1. "pc" \in DOMAIN write[f] /\ write[f].synced
      BY <1>1 DEF StoreInv, WriteOK
    <3>2. write'[f] = [write[f] EXCEPT !.pc = "dir"]
      BY <1>1 DEF Rename
    <3>3. write'[f].pc = "dir" /\ write'[f].seq = write[f].seq
      BY <3>1, <3>2
    <3>4. file'[f] = [now |-> write[f].value, may |-> file[f].may \union {write[f].value}]
      BY <1>1, <3>1 DEF Rename
    <3>5. QED
      BY <3>3, <3>4
  <2>2. Current(f)' = Current(f) /\ Number(f)' = Number(f)
    BY <1>1 DEF Current, Number
  <2>3. SavesOK(f)'
    <3>1. write[f].value.n = Counts(f, write[f].seq) /\ write[f].seq \in Nat /\ write[f].seq <= Current(f)
      BY <1>1, <1>3 DEF FileKept, SavesOK
    <3>2. saved[f] > 0 => Counts(f, saved[f]) <= write[f].value.n
      <4>1. saved[f] \in Nat /\ (saved[f] > 0 => Counts(f, saved[f]) <= file[f].now.n)
        BY <1>3 DEF FileKept, SavesOK
      <4>2. Counts(f, saved[f]) \in Nat
        BY <4>1 DEF Counts
      <4>3. QED
        BY <1>2, <4>1, <4>2
    <3>3. saved'[f] = saved[f] /\ saved[f] \in Nat /\ saved[f] <= Current(f)'
      BY <1>1, <1>3, <2>2 DEF FileKept, SavesOK
    <3>4. Counts(f, saved[f])' = Counts(f, saved[f]) /\ Counts(f, write[f].seq)' = Counts(f, write[f].seq)
      BY <2>1, <3>3 DEF Counts
    <3>5. write[f].value.n <= write[f].value.n
      BY <1>2
    <3>6. QED
      BY <2>1, <2>2, <3>1, <3>2, <3>3, <3>4, <3>5 DEF SavesOK
  <2>4. OwedOK(f)'
    BY <1>1, <1>3, <2>1, <2>2 DEF FileKept, OwedOK, Past, past
  <2>5. AsideOK(f)'
    <3>1. IsFiniteSet(file'[f].may)
      BY <1>3, <2>1, FS_AddElement DEF FileKept, AsideOK
    <3>2. file'[f].now.what = "whole"
      BY <1>2, <2>1
    <3>3. QED
      BY <3>1, <3>2 DEF AsideOK
  <2>6. QED
    BY <1>3, <2>3, <2>4, <2>5 DEF FileKept
<1>4. CASE g # f
  <2>1. write'[g] = write[g] /\ file'[g] = file[g]
    BY <1>1, <1>4 DEF Rename
  <2>2. QED
    BY <1>1, <1>2, <2>1, OthersKept DEF past
<1>5. QED
  BY <1>3, <1>4

\* What was written is noted.
LEMMA SyncDirKept ==
  ASSUME StoreInv, DOMAIN saved = Files, NEW f \in Files, NEW g \in Files, FileKept(g), SyncDir(f)
  PROVE  FileKept(g)'
<1>1. /\ write[f].pc = "dir" /\ main' = main /\ DOMAIN write = Files
      /\ UNCHANGED <<log, inv, owed, refused>>
      /\ saved' = [saved EXCEPT ![f] = write[f].seq]
      /\ failed' = failed \ {f}
      /\ write' = [write EXCEPT ![f] = Idle]
  BY DEF SyncDir, StoreInv, Shape, Noted
<1>2. main # "down"
  BY <1>1 DEF StoreInv, WriteOK
<1>3. CASE g = f
  <2>1. FileMoves(f)
    BY FileMovesSo DEF SNext, Work
  <2>2. file'[f].now = file[f].now /\ file'[f].may \in {file[f].may, {file[f].now}}
    <3>1. file'[f] = file[f] \/ file' = [file EXCEPT ![f].may = {file[f].now}]
      BY DEF SyncDir
    <3>2. file[f] = [now |-> file[f].now, may |-> file[f].may] /\ DOMAIN file = Files
      BY DEF StoreInv, Shape
    <3>3. QED
      BY <3>1, <3>2
  <2>3. saved'[f] = write[f].seq /\ write'[f].pc = "idle"
    BY <1>1 DEF Idle
  <2>4. Current(f)' = Current(f) /\ Number(f)' = Number(f)
    BY <1>1 DEF Current, Number
  <2>5. SavesOK(f)'
    <3>1. write[f].seq \in Nat /\ write[f].seq <= Current(f) /\ Counts(f, write[f].seq) <= file[f].now.n
      BY <1>1, <1>3 DEF FileKept, SavesOK
    <3>2. Counts(f, saved[f])' = Counts(f, write[f].seq)
      BY <2>3 DEF Counts
    <3>3. QED
      BY <2>2, <2>3, <2>4, <3>1, <3>2 DEF SavesOK
  <2>6. OwedOK(f)'
    BY <1>1, <1>3, <2>2, <2>3, <2>4 DEF FileKept, OwedOK, Past
  <2>7. AsideOK(f)'
    <3>1. IsFiniteSet(file[f].may) /\ IsFiniteSet({file[f].now})
      BY <1>3, FS_Singleton DEF FileKept, AsideOK
    <3>2. IsFiniteSet(file'[f].may)
      BY <2>2, <3>1
    <3>3. QED
      BY <1>1, <1>3, <2>2, <3>2 DEF FileKept, AsideOK
  <2>8. QED
    BY <1>3, <2>5, <2>6, <2>7 DEF FileKept
<1>4. CASE g # f
  <2>1. write'[g] = write[g] /\ saved'[g] = saved[g] /\ (g \in failed' <=> g \in failed)
    BY <1>1, <1>4
  <2>2. file'[g] = file[g]
    BY <1>4 DEF SyncDir, StoreInv, Shape
  <2>3. QED
    BY <1>1, <1>2, <2>1, <2>2, OthersKept
<1>5. QED
  BY <1>3, <1>4

\* A write fails: the file is as it was, and still to be written.
LEMMA WriteFailsKept ==
  ASSUME StoreInv, NEW f \in Files, NEW g \in Files, FileKept(g), WriteFails(f)
  PROVE  FileKept(g)'
<1>1. /\ write[f].pc \in {"write", "rename"} /\ main' = main /\ DOMAIN write = Files
      /\ UNCHANGED <<file, log, inv, saved, owed, refused>>
      /\ failed' = failed \union {f}
      /\ write' = [write EXCEPT ![f] = Idle]
  BY DEF WriteFails, disk, StoreInv, Shape, NotNoted
<1>2. main # "down"
  BY <1>1 DEF StoreInv, WriteOK
<1>3. CASE g = f
  <2>1. write'[f].pc = "idle" /\ f \in failed'
    BY <1>1 DEF Idle
  <2>2. Current(f)' = Current(f) /\ Number(f)' = Number(f)
    BY <1>1 DEF Current, Number
  <2>3. SavesOK(f)'
    BY <1>1, <1>3, <2>1, <2>2 DEF FileKept, SavesOK, Counts
  <2>4. OwedOK(f)'
    BY <1>1, <1>3, <2>1, <2>2 DEF FileKept, OwedOK, Past
  <2>5. AsideOK(f)'
    BY <1>1, <1>3 DEF FileKept, AsideOK
  <2>6. QED
    BY <1>3, <2>3, <2>4, <2>5 DEF FileKept
<1>4. CASE g # f
  <2>1. write'[g] = write[g] /\ (g \in failed' <=> g \in failed)
    BY <1>1, <1>4
  <2>2. QED
    BY <1>1, <1>2, <2>1, OthersKept
<1>5. QED
  BY <1>3, <1>4

\* The last persist passes a file: it has what is owed, or a write of it.
LEMMA LastPersistKept ==
  ASSUME StoreInv, GoesOn, NEW f \in Files, NEW g \in Files, FileKept(g), LastPersist(f)
  PROVE  FileKept(g)'
<1>1. /\ main = f /\ write[f].pc = "idle" /\ main' = (IF f = "events" THEN "inventory" ELSE "exit")
      /\ write' = IF Current(f) = saved[f] THEN write ELSE Started(f)
      /\ UNCHANGED <<file, log, inv, saved, past>>
  BY DEF LastPersist, disk, mem
<1>2. main # "down" /\ main' # "down" /\ main \in Stopping
  BY <1>1 DEF Files, Stopping
<1>3. CASE g = f /\ Current(f) # saved[f]
  BY <1>1, <1>2, <1>3, StartedKept
<1>4. CASE g = f /\ Current(f) = saved[f]
  <2>1. write' = write
    BY <1>1, <1>4
  <2>2. Current(f)' = Current(f) /\ Number(f)' = Number(f)
    BY <1>1 DEF Current, Number
  <2>3. SavesOK(f)'
    BY <1>1, <1>4, <2>1, <2>2 DEF FileKept, SavesOK, Counts
  <2>4. OwedOK(f)'
    <3>1. Current(f) > 0
      BY <1>2 DEF Current, GoesOn, StoreInv, FileOK, MemoryOK, Number
    <3>2. Counts(f, Current(f)) <= file[f].now.n
      BY <1>4, <3>1 DEF FileKept, SavesOK
    <3>3. owed[f] \in Nat /\ owed[f] <= Number(f) /\ Number(f) = Counts(f, Current(f)) /\ Number(f) \in Nat
      BY <1>2, <1>4, NumberCounts DEF FileKept, OwedOK
    <3>4. file[f].now.n \in Nat
      BY DEF StoreInv, FileOK, ValueOK
    <3>5. owed[f] <= file[f].now.n
      BY <3>2, <3>3, <3>4
    <3>6. owed'[f] = owed[f] /\ file' = file
      BY <1>1 DEF past
    <3>7. QED
      BY <1>1, <2>1, <2>2, <3>3, <3>5, <3>6 DEF OwedOK
  <2>5. AsideOK(f)'
    BY <1>1, <1>2, <1>4 DEF FileKept, AsideOK, past
  <2>6. QED
    BY <1>4, <2>3, <2>4, <2>5 DEF FileKept
<1>5. CASE g # f
  <2>1. write'[g] = write[g]
    BY <1>1, <1>5 DEF Started, StoreInv, Shape
  <2>2. main' \in Past(g) => main \in Past(g)
    BY <1>1, <1>5 DEF Past, Files
  <2>3. QED
    BY <1>1, <1>2, <2>1, <2>2, OthersKept DEF past
<1>6. QED
  BY <1>3, <1>4, <1>5

\* The stop begins: what is in memory is owed.
LEMMA StopKept ==
  ASSUME StoreInv, NEW f \in Files, FileKept(f), StopBegin
  PROVE  FileKept(f)'
<1>1. /\ main = "up" /\ main' = "events" /\ log' = Pushed(log, 1)
      /\ owed' = [events |-> log.next + 1, inventory |-> inv]
      /\ UNCHANGED <<file, inv, saved, write, refused>>
  BY DEF StopBegin, disk
<1>2. log.next \in Nat /\ log.next >= 1 /\ log.ring \in Seq(Nat) /\ inv \in Nat
  BY DEF StoreInv, MemoryOK
<1>3. log'.next = log.next + 1
  BY <1>1, <1>2, PushedType
<1>4. /\ Current(f) \in Nat /\ Current(f)' \in Nat /\ Current(f) <= Current(f)'
      /\ owed'[f] \in Nat /\ owed'[f] <= Number(f)'
  BY <1>1, <1>2, <1>3 DEF Current, Number, Files
<1>5. SavesOK(f)'
  <2>1. saved[f] \in Nat /\ saved[f] <= Current(f)'
    BY <1>4 DEF FileKept, SavesOK
  <2>2. write[f].pc # "idle" => write[f].seq \in Nat /\ write[f].seq <= Current(f)'
    BY <1>4 DEF FileKept, SavesOK
  <2>3. QED
    BY <1>1, <2>1, <2>2 DEF FileKept, SavesOK, Counts
<1>6. OwedOK(f)'
  BY <1>1, <1>4 DEF OwedOK, Past
<1>7. AsideOK(f)'
  BY <1>1 DEF FileKept, AsideOK
<1>8. QED
  BY <1>5, <1>6, <1>7 DEF FileKept

\* The process ends, one way or another.
LEMMA EndedKept ==
  ASSUME StoreInv, NEW f \in Files, FileKept(f), Exit \/ Kill \/ Reset
  PROVE  FileKept(f)' /\ DOMAIN saved' = Files
<1>1. /\ main' = "down" /\ log' = NewLog /\ inv' = 0 /\ saved'[f] = 0 /\ write'[f].pc = "idle"
      /\ owed' = owed /\ DOMAIN saved' = Files
  BY DEF Exit, Kill, Reset, Ended, Idle
<1>2. Current(f)' = 0
  BY <1>1 DEF Current, NewLog
<1>3. SavesOK(f)'
  BY <1>1, <1>2 DEF SavesOK
<1>4. OwedOK(f)'
  BY <1>1 DEF FileKept, OwedOK, Stopping, Past
<1>5. IsFiniteSet(file'[f].may)
  <2>1. CASE Exit \/ Kill
    BY <2>1 DEF Exit, Kill, disk, FileKept, AsideOK
  <2>2. CASE Reset
    <3>1. PICK v \in [Files -> UNION {file[g].may : g \in Files}] : file' = [g \in Files |-> [now |-> v[g], may |-> {v[g]}]]
      BY <2>2 DEF Reset
    <3>2. file'[f].may = {v[f]}
      BY <3>1
    <3>3. QED
      BY <3>2, FS_Singleton
  <2>3. QED
    BY <2>1, <2>2
<1>6. AsideOK(f)'
  BY <1>1, <1>5 DEF AsideOK
<1>7. QED
  BY <1>1, <1>3, <1>4, <1>6 DEF FileKept

\* The start: what is unreadable is moved aside, or noted.
LEMMA StartKept ==
  ASSUME StoreInv, RingsOK, NEW f \in Files, FileKept(f), Start
  PROVE  FileKept(f)'
<1>1. /\ main = "down" /\ main' = "up" /\ write' = write /\ owed' = [g \in Files |-> 0]
      /\ inv' = Max({file["inventory"].now.n, 1})
  BY DEF Start
<1>2. write[f].pc = "idle"
  BY <1>1 DEF StoreInv, WriteOK
<1>3. PICK out \in SUBSET {g \in Files : Unreadable(file[g].now)} :
         /\ file' = [g \in Files |-> IF g \in out
                                  THEN [now |-> Holding("absent", 0, <<>>), may |-> file[g].may \union {Holding("absent", 0, <<>>)}]
                                  ELSE file[g]]
         /\ refused' = refused \union ({g \in Files : Unreadable(file[g].now)} \ out)
  BY DEF Start
<1>4. /\ log'.next \in Nat /\ saved'["events"] \in Nat /\ saved'["events"] + 2 <= log'.next
      /\ saved'["events"] > 0 => saved'["events"] + 1 = file["events"].now.n /\ file["events"].now.what = "whole"
      /\ saved'["inventory"] = 0
  BY StartLog
<1>5. inv' \in Nat
  <2>1. file["inventory"].now.n \in Nat
    BY DEF StoreInv, FileOK, ValueOK, Files
  <2>2. QED
    BY <1>1, <2>1, MaxOfTwo
<1>6. SavesOK(f)'
  <2>1. saved'[f] \in Nat /\ saved'[f] <= Current(f)'
    BY <1>4, <1>5 DEF Current, Files
  <2>2. saved'[f] > 0 => Counts(f, saved[f])' <= file'[f].now.n
    <3>1. SUFFICES ASSUME saved'[f] > 0
                   PROVE  Counts(f, saved[f])' <= file'[f].now.n
      OBVIOUS
    <3>2. f = "events"
      BY <1>4, <3>1 DEF Files
    <3>3. f \notin out
      BY <1>4, <3>1, <3>2 DEF Unreadable
    <3>4. file'[f] = file[f]
      BY <1>3, <3>3
    <3>5. file[f].now.n \in Nat /\ saved'[f] + 1 = file[f].now.n
      BY <1>4, <3>1, <3>2 DEF StoreInv, FileOK, ValueOK
    <3>6. QED
      BY <3>2, <3>4, <3>5 DEF Counts
  <2>3. QED
    BY <1>1, <1>2, <2>1, <2>2 DEF SavesOK
<1>7. OwedOK(f)'
  BY <1>1 DEF OwedOK, Stopping, Past
<1>8. AsideOK(f)'
  <2>1. IsFiniteSet(file'[f].may)
    <3>1. IsFiniteSet(file[f].may) /\ IsFiniteSet(file[f].may \union {Holding("absent", 0, <<>>)})
      BY FS_AddElement DEF FileKept, AsideOK
    <3>2. file'[f].may \in {file[f].may, file[f].may \union {Holding("absent", 0, <<>>)}}
      BY <1>3
    <3>3. QED
      BY <3>1, <3>2
  <2>2. file'[f].now.what = "garbage" => f \in refused'
    <3>1. CASE f \in out
      BY <1>3, <3>1 DEF Holding
    <3>2. CASE f \notin out
      BY <1>3, <3>2 DEF Unreadable
    <3>3. QED
      BY <3>1, <3>2
  <2>3. QED
    BY <2>1, <2>2 DEF AsideOK
<1>9. QED
  BY <1>6, <1>7, <1>8 DEF FileKept

LEMMA NextFileKept ==
  ASSUME StoreInv, KeptInv, [SNext]_svars, NEW g \in Files
  PROVE  FileKept(g)'
<1>0. FileKept(g) /\ RingsOK /\ GoesOn /\ DOMAIN saved = Files
  BY DEF KeptInv, FileKept
<1>1. CASE Push \/ Poll \/ Change
  BY <1>0, <1>1, MemoryKept
<1>2. ASSUME NEW f \in Files, Work(f) \/ LastPersist(f)
      PROVE  FileKept(g)'
  BY <1>0, <1>2, BeginKept, WriteSyncedKept, RenameKept, SyncDirKept, WriteFailsKept, LastPersistKept DEF Work
<1>3. CASE Start
  BY <1>0, <1>3, StartKept
<1>4. CASE StopBegin
  BY <1>0, <1>4, StopKept
<1>5. CASE Exit \/ Kill \/ Reset
  BY <1>0, <1>5, EndedKept
<1>6. CASE UNCHANGED svars
  <2>1. UNCHANGED <<file, main, log, inv, saved, write, owed, failed, refused>>
    BY <1>6 DEF svars, disk, mem, past
  <2>2. QED
    BY <1>0, <2>1 DEF FileKept, SavesOK, OwedOK, AsideOK, Current, Number, Counts, Past
<1>7. QED
  BY <1>1, <1>2, <1>3, <1>4, <1>5, <1>6 DEF SNext

-----------------------------------------------------------------------------
(* The numbers go on.                                                      *)

\* A finite set that does not count more than one has one element at most.
LEMMA OnlyOne ==
  ASSUME NEW S, IsFiniteSet(S), ~(Cardinality(S) > 1), NEW a \in S, NEW b \in S
  PROVE  a = b
<1> SUFFICES ASSUME a # b
             PROVE  FALSE
  OBVIOUS
<1>1. IsFiniteSet({a}) /\ Cardinality({a}) = 1
  BY FS_Singleton
<1>2. {a} \union {b} = {a, b} /\ b \notin {a}
  OBVIOUS
<1>3. Cardinality({a, b}) = 2
  BY <1>1, <1>2, FS_AddElement
<1>4. Cardinality({a, b}) <= Cardinality(S) /\ Cardinality(S) \in Nat
  BY FS_Subset, FS_CardinalityType
<1>5. QED
  BY <1>3, <1>4

LEMMA NextGoesOn ==
  ASSUME StoreInv, KeptInv, [SNext]_svars
  PROVE  GoesOn' /\ DOMAIN saved' = Files
<1>0. /\ RingsOK /\ GoesOn /\ DOMAIN saved = Files
      /\ FileKept("events") /\ "events" \in Files
      /\ log.next \in Nat /\ log.next >= 1 /\ log.ring \in Seq(Nat) /\ poller \in Nat
      /\ file["events"].now.n \in Nat
      /\ owed["events"] \in Nat
  BY DEF KeptInv, FileKept, Files, StoreInv, MemoryOK, FileOK, ValueOK, GoesOn, OwedOK
<1>1. Pushed(log, 1).next = log.next + 1
  BY <1>0, PushedType
<1>2. CASE Push \/ Poll \/ Change
  <2>1. /\ main # "down" /\ main' = main /\ UNCHANGED <<owed, crashed, saved, file>>
        /\ \/ log' = Pushed(log, 1) /\ poller' = poller
           \/ main = "up" /\ log' = log /\ poller' = log.next - 1
           \/ log' = log /\ poller' = poller
    BY <1>2 DEF Push, Poll, Change, disk, mem, past
  <2>2. log'.next \in Nat /\ log'.next >= log.next /\ poller' \in Nat /\ (main # "up" => poller' = poller)
    BY <1>0, <1>1, <2>1
  <2>3. ~crashed => poller' < log'.next
    BY <1>0, <1>1, <2>1 DEF GoesOn
  <2>4. log'.next >= 2
    BY <1>0, <2>1, <2>2 DEF GoesOn
  <2>5. QED
    BY <1>0, <2>1, <2>2, <2>3, <2>4 DEF GoesOn, Stopping
<1>3. ASSUME NEW f \in Files, Work(f) \/ LastPersist(f)
      PROVE  GoesOn' /\ DOMAIN saved' = Files
  <2>1. /\ UNCHANGED <<log, poller, owed, crashed>>
        /\ main # "down" /\ main' # "down" /\ (main' \in Stopping => main \in Stopping)
    <3>1. CASE Begin(f) \/ LastPersist(f)
      BY <3>1 DEF Begin, LastPersist, mem, past, Files, Stopping
    <3>2. CASE WriteSynced(f) \/ Rename(f) \/ SyncDir(f) \/ WriteFails(f)
      BY <3>2 DEF WriteSynced, Rename, SyncDir, WriteFails, mem, past, StoreInv, WriteOK
    <3>3. QED
      BY <1>3, <3>1, <3>2 DEF Work
  <2>2. DOMAIN saved' = Files
    BY <1>0, <1>3 DEF Work, Begin, WriteSynced, Rename, SyncDir, WriteFails, LastPersist, mem, NotNoted
  <2>3. QED
    BY <1>0, <2>1, <2>2 DEF GoesOn
<1>4. CASE Start
  <2>1. /\ main = "down" /\ main' = "up" /\ UNCHANGED <<poller, crashed>>
    BY <1>4 DEF Start
  <2>2. /\ log'.next \in Nat /\ log'.next >= 2 /\ file["events"].now.n <= saved'["events"] + 1
        /\ saved'["events"] \in Nat /\ saved'["events"] + 2 <= log'.next /\ DOMAIN saved' = Files
    BY <1>0, <1>4, StartLog
  <2>3. ~crashed => poller < log'.next
    BY <1>0, <2>1, <2>2 DEF GoesOn
  <2>4. QED
    BY <1>0, <2>1, <2>2, <2>3 DEF GoesOn, Stopping
<1>5. CASE StopBegin
  <2>1. /\ main = "up" /\ main' = "events" /\ UNCHANGED <<poller, crashed, saved>>
        /\ log' = Pushed(log, 1) /\ owed'["events"] = log.next + 1
    BY <1>5 DEF StopBegin
  <2>2. QED
    BY <1>0, <1>1, <2>1 DEF GoesOn
<1>6. CASE Exit
  <2>1. /\ main = "exit" /\ main' = "down" /\ write["events"].pc = "idle" /\ UNCHANGED <<poller, file>>
        /\ crashed' = (crashed \/ "events" \in failed)
    BY <1>0, <1>6 DEF Exit, Ended, disk
  <2>2. ~crashed' => poller < file["events"].now.n
    <3>1. SUFFICES ASSUME ~crashed'
                   PROVE  poller < file["events"].now.n
      OBVIOUS
    <3>2. ~crashed /\ "events" \notin failed
      BY <2>1, <3>1
    <3>3. poller < owed["events"]
      BY <1>0, <2>1, <3>2 DEF GoesOn, Stopping
    <3>4. owed["events"] <= file["events"].now.n
      BY <1>0, <2>1, <3>2 DEF FileKept, OwedOK, Past
    <3>5. QED
      BY <1>0, <3>3, <3>4
  <2>3. DOMAIN saved' = Files
    BY <1>0, <1>6, EndedKept
  <2>4. QED
    BY <1>0, <2>1, <2>2, <2>3 DEF GoesOn, Stopping
<1>7. CASE Kill
  BY <1>0, <1>7, EndedKept DEF Kill, Ended, GoesOn
<1>8. CASE Reset
  <2>1. /\ main' = "down" /\ poller' = poller
        /\ crashed' = (crashed \/ main # "down" \/ Cardinality(file["events"].may) > 1)
    BY <1>8 DEF Reset, Ended
  <2>2. ASSUME ~crashed'
        PROVE  file'["events"].now = file["events"].now
    <3>1. IsFiniteSet(file["events"].may) /\ ~(Cardinality(file["events"].may) > 1)
      BY <1>0, <2>1, <2>2 DEF FileKept, AsideOK
    <3>2. file["events"].now \in file["events"].may
      BY <1>0 DEF StoreInv, FileOK
    <3>3. PICK v \in [Files -> UNION {file[g].may : g \in Files}] :
             /\ \A g \in Files : v[g] \in file[g].may
             /\ file' = [g \in Files |-> [now |-> v[g], may |-> {v[g]}]]
      BY <1>8 DEF Reset
    <3>4. file'["events"].now = v["events"] /\ v["events"] \in file["events"].may
      BY <1>0, <3>3
    <3>5. QED
      BY <3>1, <3>2, <3>4, OnlyOne
  <2>3. DOMAIN saved' = Files
    BY <1>0, <1>8, EndedKept
  <2>4. QED
    BY <1>0, <2>1, <2>2, <2>3 DEF GoesOn, Stopping
<1>9. CASE UNCHANGED svars
  BY <1>0, <1>9 DEF svars, mem, disk, past, GoesOn
<1>10. QED
  BY <1>2, <1>3, <1>4, <1>5, <1>6, <1>7, <1>8, <1>9 DEF SNext

-----------------------------------------------------------------------------
LEMMA InitKept == SInit => KeptInv
<1> SUFFICES ASSUME SInit
             PROVE  KeptInv
  OBVIOUS
<1>1. PICK u \in Unusable \union {"whole"} :
        file = [f \in Files |-> LET v == Holding(u, IF u = "whole" THEN 1 ELSE 0, <<>>)
                                IN  [now |-> v, may |-> {v}]]
  BY DEF SInit
<1> DEFINE v == Holding(u, IF u = "whole" THEN 1 ELSE 0, <<>>)
<1>2. v.ring = <<>> /\ Len(<<>>) = 0
  BY DEF Holding
<1>3. \A f \in Files : file[f].now = v /\ file[f].may = {v}
  BY <1>1
<1> HIDE DEF v
<1>4. /\ main = "down" /\ inv = 0 /\ log = [next |-> 1, ring |-> <<>>] /\ poller = 0
      /\ \A f \in Files : saved[f] = 0 /\ owed[f] = 0 /\ write[f].pc = "idle"
      /\ DOMAIN saved = Files /\ "events" \in Files
  BY DEF SInit, NewLog, Idle, Files
<1>5. InOrder(log.ring, log.next) /\ InOrder(v.ring, v.n) /\ Len(log.ring) <= Cap
  BY <1>2, <1>4, StoreBounds DEF StoreBounds, InOrder
<1>6. RingsOK
  BY <1>3, <1>4, <1>5 DEF RingsOK
<1>7. GoesOn
  BY <1>4 DEF GoesOn, Stopping
<1>8. ASSUME NEW f \in Files
      PROVE  SavesOK(f) /\ OwedOK(f) /\ AsideOK(f)
  <2>1. Current(f) = 0
    BY <1>4 DEF Current
  <2>2. SavesOK(f)
    BY <1>4, <2>1 DEF SavesOK
  <2>3. OwedOK(f)
    BY <1>4 DEF OwedOK, Stopping, Past
  <2>4. AsideOK(f)
    BY <1>3, <1>4, FS_Singleton DEF AsideOK
  <2>5. QED
    BY <2>2, <2>3, <2>4
<1>9. QED
  BY <1>4, <1>6, <1>7, <1>8 DEF KeptInv

LEMMA NextKept == StoreInv /\ KeptInv /\ [SNext]_svars => KeptInv'
<1> SUFFICES ASSUME StoreInv, KeptInv, [SNext]_svars
             PROVE  KeptInv'
  OBVIOUS
<1>1. \A f \in Files : FileKept(f)'
  BY NextFileKept
<1>2. RingsOK'
  BY NextRings DEF KeptInv
<1>3. QED
  BY <1>1, <1>2, NextGoesOn DEF KeptInv, FileKept

LEMMA KeptIsOK == StoreInv /\ KeptInv => StoreOK
<1> SUFFICES ASSUME StoreInv, KeptInv
             PROVE  StoreOK
  OBVIOUS
<1>1. \A f \in Files : Current(f) \in Nat /\ saved[f] \in Nat /\ saved[f] <= Current(f) /\ file[f].now \in file[f].may
  BY NumberCounts DEF KeptInv, SavesOK, StoreInv, FileOK
<1>2. StoreTypes
  BY <1>1 DEF StoreTypes, KeptInv, RingsOK, InOrder
<1>3. SeqGoesOn
  BY DEF SeqGoesOn, KeptInv, GoesOn, StoreInv, MemoryOK
<1>4. QED
  BY <1>2, <1>3 DEF StoreOK

\* Only a rename gives a file whose contents could not be read other contents
\* while the program runs; a start moves it aside, a reset takes another value.
LEMMA UnreadableStays ==
  ASSUME StoreInv, KeptInv, [SNext]_svars, NEW f \in Files,
         file[f].now.what = "garbage", file'[f].now.what # "garbage"
  PROVE  f \in aside' \union refused \/ Cardinality(file[f].may) > 1
<1>1. FileMoves(f)
  BY FileMovesSo
<1>2. CASE Rename(f)
  <2>1. main # "down"
    BY <1>2 DEF StoreInv, WriteOK, Rename
  <2>2. QED
    BY <2>1 DEF KeptInv, AsideOK
<1>3. CASE Reset /\ file'[f].now \in file[f].may
  <2>1. IsFiniteSet(file[f].may) /\ file[f].now \in file[f].may /\ file'[f].now # file[f].now
    BY DEF KeptInv, AsideOK, StoreInv, FileOK
  <2>2. QED
    BY <1>3, <2>1, OnlyOne
<1>4. QED
  BY <1>1, <1>2, <1>3 DEF FileMoves

\* The exit finds in every file that was written what the stop owed.
LEMMA ExitKeepsAll ==
  ASSUME StoreInv, KeptInv, Exit, NEW f \in Files \ failed
  PROVE  file[f].now.n >= owed[f]
<1>1. main = "exit" /\ write[f].pc = "idle"
  BY DEF Exit
<1>2. owed[f] <= file[f].now.n
  BY <1>1 DEF KeptInv, OwedOK, Past
<1>3. owed[f] \in Nat /\ file[f].now.n \in Nat
  BY DEF KeptInv, OwedOK, StoreInv, FileOK, ValueOK
<1>4. QED
  BY <1>2, <1>3

LEMMA BudgetsLast ==
  ASSUME budget \in [Outside -> Nat], [SNext]_svars
  PROVE  budget' \in [Outside -> Nat]
<1>1. \A what \in Outside : Spend(what) => budget' \in [Outside -> Nat]
  BY DEF Spend
<1>2. CASE UNCHANGED budget
  BY <1>2
<1>3. CASE \E what \in Outside : Spend(what)
  BY <1>1, <1>3
<1>4. (UNCHANGED budget) \/ \E what \in Outside : Spend(what)
  <2>1. CASE \E f \in Files : Work(f) \/ LastPersist(f)
    BY <2>1 DEF Work, Begin, WriteSynced, Rename, SyncDir, WriteFails, LastPersist, Outside
  <2>2. CASE Start
    BY <2>2 DEF Start, Outside
  <2>3. CASE Push \/ Poll \/ Change \/ StopBegin \/ Exit \/ Kill \/ Reset \/ UNCHANGED svars
    BY <2>3 DEF Push, Poll, Change, StopBegin, Exit, Kill, Reset, svars, Outside
  <2>4. QED
    BY <2>1, <2>2, <2>3 DEF SNext
<1>5. QED
  BY <1>2, <1>3, <1>4

\* What the state files' steps go by.
StoreKept == StoreInv /\ KeptInv /\ budget \in [Outside -> Nat]

LEMMA InitStoreKept == SInit => StoreKept
<1>1. SInit => budget \in [Outside -> Nat]
  BY BudgetsAssumption DEF SInit
<1>2. QED
  BY <1>1, InitStore, InitKept DEF StoreKept

LEMMA NextStoreKept == StoreKept /\ [SNext]_svars => StoreKept'
<1> SUFFICES ASSUME StoreKept, [SNext]_svars
             PROVE  StoreKept'
  OBVIOUS
<1>1. StoreInv' /\ KeptInv'
  BY NextStore, NextKept DEF StoreKept
<1>2. budget' \in [Outside -> Nat]
  BY BudgetsLast DEF StoreKept
<1>3. QED
  BY <1>1, <1>2 DEF StoreKept

\* Only the exit goes from "exit" to "down" without spending a stop.
LEMMA OnlyExit ==
  ASSUME budget \in [Outside -> Nat], [SNext]_svars, main = "exit", main' = "down", budget' = budget
  PROVE  Exit
<1>1. ~Spend("stops")
  BY DEF Spend, Outside
<1>2. CASE \E f \in Files : Work(f) \/ LastPersist(f)
  BY <1>2 DEF Work, Begin, WriteSynced, Rename, SyncDir, WriteFails, LastPersist, Files
<1>3. CASE Push \/ Poll \/ Change \/ Start \/ StopBegin \/ Kill \/ Reset \/ UNCHANGED svars
  BY <1>1, <1>3 DEF Push, Poll, Change, Start, StopBegin, Kill, Reset, svars
<1>4. QED
  BY <1>2, <1>3 DEF SNext

LEMMA StepKeepsFiles ==
  ASSUME StoreKept, [SNext]_svars
  PROVE  /\ [\A f \in Files : file[f].now.what = "garbage" /\ file'[f].now.what # "garbage"
                 => f \in aside' \union refused \/ Cardinality(file[f].may) > 1]_svars
         /\ [main = "exit" /\ main' = "down" /\ budget' = budget =>
                 \A f \in Files \ failed : file[f].now.n >= owed[f]]_svars
<1>1. \A f \in Files : file[f].now.what = "garbage" /\ file'[f].now.what # "garbage"
          => f \in aside' \union refused \/ Cardinality(file[f].may) > 1
  BY UnreadableStays DEF StoreKept
<1>2. ASSUME main = "exit", main' = "down", budget' = budget, NEW f \in Files \ failed
      PROVE  file[f].now.n >= owed[f]
  BY <1>2, OnlyExit, ExitKeepsAll DEF StoreKept
<1>3. QED
  BY <1>1, <1>2

\* The numbers of events go on over restarts, kills and resets, and what is
\* kept of them is a ring in order (events.rs, push and from_saved).
THEOREM StoreHolds == SSpec => []StoreOK
<1>1. StoreKept => StoreOK
  BY KeptIsOK DEF StoreKept
<1>2. QED
  BY <1>1, InitStoreKept, NextStoreKept, PTL DEF SSpec

\* No persist, start or stop costs an unreadable file or anything from before
\* a graceful stop (inventory.rs, load_state; main.rs; api/mod.rs, persist).
THEOREM NothingIsLost == SSpec => NothingLost
<1>1. StoreKept /\ [SNext]_svars =>
        [\A f \in Files : file[f].now.what = "garbage" /\ file'[f].now.what # "garbage"
             => f \in aside' \union refused \/ Cardinality(file[f].may) > 1]_svars
  BY StepKeepsFiles
<1>2. StoreKept /\ [SNext]_svars =>
        [main = "exit" /\ main' = "down" /\ budget' = budget =>
             \A f \in Files \ failed : file[f].now.n >= owed[f]]_svars
  BY StepKeepsFiles
<1>3. QED
  BY <1>1, <1>2, InitStoreKept, NextStoreKept, PTL DEF SSpec, NothingLost, UnreadableIsKept, StopKeepsAll

-----------------------------------------------------------------------------
(* The journals, proved for any months kept, any number of failures, ends,    *)
(* resets of the counter and turns of the month: no growth of a counter is    *)
(* missed, the summary counts what landed, and no line kept is lost.          *)

LineKinds == {"whole", "open", "spoiled"}
Lines == [what : LineKinds, c : Nat, at : Nat]

\* The files: each line is of its month, only the last may be open, and no
\* month to come has one.
FilesOK(files) ==
  /\ files \in [Months -> Seq(Lines)]
  /\ \A m \in Months : \A i \in DOMAIN files[m] : files[m][i].at = m /\ (files[m][i].what = "open" => i = Len(files[m]))
  /\ \A m \in Months : m > month => files[m] = <<>>

JTypes ==
  /\ DOMAIN dir = {"records", "log"} /\ FilesOK(dir["records"]) /\ FilesOK(dir["log"])
  /\ month \in Months /\ counter \in Nat /\ seen \in Nat /\ told \subseteq Nat
  /\ first \in Nat \union {None}
  /\ last \in {Unread, Nothing} \/ (last \in Lines /\ last.what = "whole")

\* The summary in memory has counted what landed, and the disk has the same
\* unless its write failed.
InMemory == IF count = None THEN OrZero(onDisk) ELSE count
CountsInv ==
  /\ count \in Nat \union {None} /\ onDisk \in Nat \union {None}
  /\ landed \in Nat /\ uncounted \in Nat
  /\ InMemory = landed - uncounted - (IF logging THEN 1 ELSE 0)
  /\ OrZero(onDisk) <= InMemory
  /\ ~behind => OrZero(onDisk) = InMemory

\* The baseline is the newest whole record, and all between the first and it,
\* or the last sample, is told.
BaselineOK ==
  first # None =>
    /\ ReadLast(dir["records"]) # Nothing
    /\ last \in {Unread, ReadLast(dir["records"])}
    /\ first + 1 .. ReadLast(dir["records"]).c \subseteq told
    /\ first + 1 .. seen \subseteq told

JournalInv == JTypes /\ CountsInv /\ BaselineOK

-----------------------------------------------------------------------------
(* Numbers.                                                                *)

\* A set of numbers has a smallest one: the sets 0 .. n of its elements have
\* one that no other is within.
LEMMA SmallestOf ==
  ASSUME NEW S \in SUBSET Nat, S # {}
  PROVE  \E m \in S : \A x \in S : m <= x
<1> DEFINE upTo == {0 .. n : n \in S}
<1>1. IsWellFoundedOn(StrictSubsetOrdering(Nat), FiniteSubsetsOf(Nat))
  BY FS_StrictSubsetOrderingWellFounded
<1>2. upTo \subseteq FiniteSubsetsOf(Nat)
  <2>1. \A n \in S : IsFiniteSet(0 .. n) /\ 0 .. n \subseteq Nat
    BY FS_Interval
  <2>2. QED
    BY <2>1 DEF FiniteSubsetsOf
<1>3. upTo # {}
  OBVIOUS
<1> HIDE DEF upTo
<1>4. PICK b \in upTo : \A c \in upTo : ~ (<<c, b>> \in StrictSubsetOrdering(Nat))
  BY <1>1, <1>2, <1>3, WFMin, Zenon
<1> USE DEF upTo
<1>5. PICK m \in S : b = 0 .. m
  OBVIOUS
<1>6. ASSUME NEW x \in S, x < m
      PROVE  FALSE
  <2>1. 0 .. x \in upTo /\ 0 .. x \subseteq b /\ 0 .. x # b
    BY <1>5, <1>6
  <2>2. <<0 .. x, b>> \in StrictSubsetOrdering(Nat)
    BY <1>2, <1>5, <2>1 DEF StrictSubsetOrdering, FiniteSubsetsOf
  <2>3. QED
    BY <1>4, <2>1, <2>2
<1>7. QED
  BY <1>6

\* A set of numbers with a bound has a largest one.
LEMMA MaxOf ==
  ASSUME NEW S \in SUBSET Nat, S # {}, NEW n \in Nat, \A x \in S : x <= n
  PROVE  Max(S) \in S /\ \A x \in S : x <= Max(S)
<1> DEFINE away == {n - x : x \in S}
<1>1. away \subseteq Nat /\ away # {}
  <2>1. \A x \in S : n - x \in Nat
    OBVIOUS
  <2>2. QED
    BY <2>1
<1>2. PICK a \in away : \A b \in away : a <= b
  BY <1>1, SmallestOf
<1>3. PICK m \in S : a = n - m
  OBVIOUS
<1>4. \A x \in S : n - x \in away
  OBVIOUS
<1> HIDE DEF away
<1>5. \A x \in S : n - m <= n - x
  BY <1>2, <1>3, <1>4
<1>6. \A x \in S : m >= x
  BY <1>5
<1>7. Max(S) \in S /\ \A x \in S : Max(S) >= x
  BY <1>6 DEF Max
<1>8. QED
  BY <1>7

\* What is in a set and at least as much as each is its largest.
LEMMA MaxIs ==
  ASSUME NEW S \in SUBSET Nat, NEW m \in S, \A x \in S : x <= m
  PROVE  Max(S) = m
<1>1. \A x \in S : m >= x
  OBVIOUS
<1>2. Max(S) \in S /\ \A x \in S : Max(S) >= x
  BY <1>1 DEF Max
<1>3. Max(S) >= m /\ m >= Max(S) /\ Max(S) \in Nat /\ m \in Nat
  BY <1>1, <1>2
<1> DEFINE most == Max(S)
<1> HIDE DEF most
<1>4. most >= m /\ m >= most /\ most \in Nat /\ m \in Nat
  BY <1>3 DEF most
<1>5. most = m
  BY <1>4
<1>6. QED
  BY <1>5 DEF most

-----------------------------------------------------------------------------
(* The lines of a month.                                                   *)

\* Only the last of some lines may be open.
LastOpen(lines) == \A i \in DOMAIN lines : lines[i].what = "open" => i = Len(lines)

\* What the lines before the end are stays where it is.
Stay(lines, linesNext) ==
  \A i \in DOMAIN lines : lines[i].what # "open" => i \in DOMAIN linesNext /\ linesNext[i] = lines[i]

\* Lines that end in an open one have one.
LEMMA OpenEnd ==
  ASSUME NEW lines \in Seq(Lines)
  PROVE  /\ Len(lines) \in Nat /\ DOMAIN lines = 1 .. Len(lines)
         /\ EndsOpen(lines) => Len(lines) > 0 /\ lines[Len(lines)].what = "open"
<1>1. Len(lines) \in Nat /\ DOMAIN lines = 1 .. Len(lines)
  BY LenProperties
<1>2. lines # <<>> => Len(lines) > 0
  BY EmptySeq
<1>3. QED
  BY <1>1, <1>2 DEF EndsOpen, Last

LEMMA AppendTo ==
  ASSUME NEW S, NEW s \in Seq(S), NEW e \in S
  PROVE  /\ Append(s, e) \in Seq(S) /\ Len(Append(s, e)) = Len(s) + 1
         /\ Append(s, e)[Len(s) + 1] = e
         /\ \A i \in 1 .. Len(s) : Append(s, e)[i] = s[i]
  OBVIOUS

\* A line onto an open one takes its place, spoiled.
LEMMA AddedSpoils ==
  ASSUME NEW lines \in Seq(Lines), NEW line \in Lines, EndsOpen(lines)
  PROVE  /\ Added(lines, line) \in Seq(Lines) /\ Len(Added(lines, line)) = Len(lines)
         /\ \A i \in 1 .. Len(lines) - 1 : Added(lines, line)[i] = lines[i]
         /\ Added(lines, line)[Len(lines)] = [line EXCEPT !.what = "spoiled"]
<1> DEFINE n == Len(lines)
           front == SubSeq(lines, 1, n - 1)
           spoiled == [line EXCEPT !.what = "spoiled"]
<1>1. n \in Nat /\ n > 0
  BY OpenEnd
<1>2. \A i \in 1 .. n - 1 : lines[i] \in Lines
  BY <1>1, ElementOfSeq
<1> HIDE DEF n
<1>3. front \in Seq(Lines) /\ Len(front) = n - 1 /\ \A i \in 1 .. n - 1 : front[i] = lines[i]
  <2>1. /\ front \in Seq(Lines) /\ Len(front) = IF 1 <= n - 1 THEN n - 1 - 1 + 1 ELSE 0
        /\ \A i \in 1 .. n - 1 - 1 + 1 : front[i] = lines[1 + i - 1]
    BY <1>1, <1>2, SubSeqProperties
  <2> HIDE DEF front
  <2>2. n - 1 - 1 + 1 = n - 1 /\ \A i \in 1 .. n - 1 : 1 + i - 1 = i
    BY <1>1
  <2>3. QED
    BY <1>1, <2>1, <2>2
<1>4. spoiled \in Lines
  BY DEF Lines, LineKinds
<1> HIDE DEF front, spoiled
<1>5. /\ Append(front, spoiled) \in Seq(Lines) /\ Len(Append(front, spoiled)) = n
      /\ Append(front, spoiled)[n] = spoiled
      /\ \A i \in 1 .. n - 1 : Append(front, spoiled)[i] = lines[i]
  <2>1. /\ Append(front, spoiled) \in Seq(Lines) /\ Len(Append(front, spoiled)) = Len(front) + 1
        /\ Append(front, spoiled)[Len(front) + 1] = spoiled
        /\ \A i \in 1 .. Len(front) : Append(front, spoiled)[i] = front[i]
    BY <1>3, <1>4, AppendTo
  <2>2. Len(front) + 1 = n
    BY <1>1, <1>3
  <2>3. QED
    BY <1>3, <2>1, <2>2
<1>6. Added(lines, line) = Append(front, spoiled)
  BY DEF Added, Front, front, spoiled, n
<1>7. QED
  BY <1>5, <1>6 DEF n, spoiled

LEMMA AddedWhole ==
  ASSUME NEW lines \in Seq(Lines), NEW line \in Lines, ~EndsOpen(lines)
  PROVE  /\ Added(lines, line) \in Seq(Lines) /\ Len(Added(lines, line)) = Len(lines) + 1
         /\ \A i \in 1 .. Len(lines) : Added(lines, line)[i] = lines[i]
         /\ Added(lines, line)[Len(lines) + 1] = line
  BY AppendTo DEF Added

\* Lines of a month with one more: of the month, open at the end at most, and
\* the earlier ones where they were.
LEMMA AddedLines ==
  ASSUME NEW lines \in Seq(Lines), LastOpen(lines), NEW m, \A i \in DOMAIN lines : lines[i].at = m,
         NEW line \in Lines, line.what = "whole", line.at = m
  PROVE  /\ Added(lines, line) \in Seq(Lines) /\ LastOpen(Added(lines, line)) /\ Stay(lines, Added(lines, line))
         /\ \A i \in DOMAIN Added(lines, line) : Added(lines, line)[i].at = m
         /\ ~EndsOpen(lines) => /\ Len(lines) + 1 \in Wholes(Added(lines, line))
                                /\ \A i \in Wholes(Added(lines, line)) : i <= Len(lines) + 1
                                /\ Added(lines, line)[Len(lines) + 1] = line
<1> DEFINE n == Len(lines)
           new == Added(lines, line)
<1>1. n \in Nat /\ DOMAIN lines = 1 .. n
  BY OpenEnd
<1>2. CASE EndsOpen(lines)
  <2>1. /\ new \in Seq(Lines) /\ Len(new) = n /\ n > 0 /\ lines[n].what = "open"
        /\ \A i \in 1 .. n - 1 : new[i] = lines[i]
        /\ new[n] = [line EXCEPT !.what = "spoiled"]
    BY <1>2, AddedSpoils, OpenEnd
  <2> HIDE DEF new
  <2>2. DOMAIN new = 1 .. n
    BY <2>1, LenProperties
  <2>3. new[n].what = "spoiled" /\ new[n].at = m
    BY <2>1 DEF Lines
  <2> HIDE DEF n
  <2>4. \A i \in 1 .. n : i = n \/ (i \in 1 .. n - 1 /\ new[i] = lines[i] /\ i # n)
    BY <1>1, <2>1
  <2>5. LastOpen(new)
    <3>1. \A i \in 1 .. n - 1 : lines[i].what # "open"
      BY <1>1 DEF LastOpen, n
    <3>2. QED
      BY <2>1, <2>2, <2>3, <2>4, <3>1 DEF LastOpen
  <2>6. Stay(lines, new)
    BY <1>1, <2>1, <2>2, <2>4 DEF Stay
  <2>7. \A i \in DOMAIN new : new[i].at = m
    BY <1>1, <2>2, <2>3, <2>4
  <2>8. QED
    BY <1>2, <2>1, <2>5, <2>6, <2>7 DEF new
<1>3. CASE ~EndsOpen(lines)
  <2>1. /\ new \in Seq(Lines) /\ Len(new) = n + 1
        /\ \A i \in 1 .. n : new[i] = lines[i]
        /\ new[n + 1] = line
    BY <1>3, AddedWhole
  <2> HIDE DEF new
  <2>2. DOMAIN new = 1 .. n + 1
    BY <2>1, LenProperties
  <2>3. \A i \in 1 .. n : lines[i].what # "open"
    <3>1. SUFFICES ASSUME NEW i \in 1 .. n, lines[i].what = "open"
                   PROVE  FALSE
      OBVIOUS
    <3>2. i = n
      BY <1>1, <3>1 DEF LastOpen
    <3>3. lines # <<>>
      BY <1>1
    <3>4. QED
      BY <1>3, <3>1, <3>2, <3>3 DEF EndsOpen, Last
  <2> HIDE DEF n
  <2>4. \A i \in 1 .. n + 1 : i = n + 1 \/ (i \in 1 .. n /\ new[i] = lines[i])
    BY <1>1, <2>1
  <2>5. LastOpen(new)
    BY <2>1, <2>2, <2>3, <2>4 DEF LastOpen
  <2>6. Stay(lines, new)
    BY <1>1, <2>1, <2>2 DEF Stay
  <2>7. \A i \in DOMAIN new : new[i].at = m
    BY <1>1, <2>1, <2>2, <2>4
  <2>8. n + 1 \in Wholes(new) /\ \A i \in Wholes(new) : i <= n + 1
    BY <1>1, <2>1, <2>2 DEF Wholes
  <2>9. QED
    BY <1>3, <2>1, <2>5, <2>6, <2>7, <2>8 DEF new, n
<1>4. QED
  BY <1>2, <1>3

\* Half a line more changes nothing that is whole.
LEMMA HalfLines ==
  ASSUME month \in Nat, NEW lines \in Seq(Lines), LastOpen(lines), \A i \in DOMAIN lines : lines[i].at = month
  PROVE  /\ Half(lines) \in Seq(Lines) /\ LastOpen(Half(lines)) /\ Stay(lines, Half(lines))
         /\ \A i \in DOMAIN Half(lines) : Half(lines)[i].at = month
         /\ Wholes(Half(lines)) = Wholes(lines)
<1>1. CASE EndsOpen(lines)
  BY <1>1 DEF Half, Stay
<1>2. CASE ~EndsOpen(lines)
  <2> DEFINE n == Len(lines)
             new == Append(lines, Line("open", 0))
  <2>1. Line("open", 0) \in Lines /\ Line("open", 0).what = "open" /\ Line("open", 0).at = month
    BY DEF Line, Lines, LineKinds
  <2>2. n \in Nat /\ DOMAIN lines = 1 .. n
    BY OpenEnd
  <2>3. /\ new \in Seq(Lines) /\ Len(new) = n + 1 /\ new[n + 1] = Line("open", 0)
        /\ \A i \in 1 .. n : new[i] = lines[i]
    BY <2>1, AppendTo
  <2>4. Half(lines) = new
    BY <1>2 DEF Half
  <2> HIDE DEF new
  <2>5. DOMAIN new = 1 .. n + 1
    BY <2>3, LenProperties
  <2>6. \A i \in 1 .. n : lines[i].what # "open"
    <3>1. SUFFICES ASSUME NEW i \in 1 .. n, lines[i].what = "open"
                   PROVE  FALSE
      OBVIOUS
    <3>2. i = n
      BY <2>2, <3>1 DEF LastOpen
    <3>3. lines # <<>>
      BY <2>2
    <3>4. QED
      BY <1>2, <3>1, <3>2, <3>3 DEF EndsOpen, Last
  <2> HIDE DEF n
  <2>7. \A i \in 1 .. n + 1 : i = n + 1 \/ (i \in 1 .. n /\ new[i] = lines[i])
    BY <2>2, <2>3
  <2>8. LastOpen(new)
    BY <2>3, <2>5, <2>6, <2>7 DEF LastOpen
  <2>9. Stay(lines, new)
    BY <2>2, <2>3, <2>5 DEF Stay
  <2>10. \A i \in DOMAIN new : new[i].at = month
    BY <2>1, <2>2, <2>3, <2>5, <2>7
  <2>11. Wholes(new) = Wholes(lines)
    <3>1. \A i \in Wholes(new) : i \in Wholes(lines)
      BY <2>1, <2>2, <2>3, <2>5, <2>7 DEF Wholes
    <3>2. \A i \in Wholes(lines) : i \in Wholes(new)
      BY <2>2, <2>3, <2>5 DEF Wholes
    <3>3. QED
      BY <3>1, <3>2
  <2>12. QED
    BY <2>3, <2>4, <2>8, <2>9, <2>10, <2>11
<1>3. QED
  BY <1>1, <1>2

-----------------------------------------------------------------------------
(* The files of the months.                                                *)

\* Of the months kept no line that is whole or spoiled is moved.
KeepsLines(files, filesNext) ==
  \A m \in Months : m + KeepMonths > month => Stay(files[m], filesNext[m])

LEMMA StayStays ==
  ASSUME NEW lines
  PROVE  Stay(lines, lines)
  BY DEF Stay

\* One more line in the file of the month.
LEMMA AppendedFiles ==
  ASSUME NEW files, FilesOK(files), month \in Months, NEW line \in Lines, line.what = "whole", line.at = month
  PROVE  /\ FilesOK(Appended(files, line)) /\ KeepsLines(files, Appended(files, line))
         /\ ~EndsOpen(files[month]) =>
              /\ Len(files[month]) + 1 \in Wholes(Appended(files, line)[month])
              /\ \A i \in Wholes(Appended(files, line)[month]) : i <= Len(files[month]) + 1
              /\ Appended(files, line)[month][Len(files[month]) + 1] = line
<1> DEFINE with == [files EXCEPT ![month] = Added(@, line)]
           app == Appended(files, line)
<1>1. /\ files \in [Months -> Seq(Lines)] /\ files[month] \in Seq(Lines) /\ month \in Nat /\ Months \subseteq Nat
      /\ LastOpen(files[month]) /\ \A i \in DOMAIN files[month] : files[month][i].at = month
  BY JournalAssumption DEF FilesOK, LastOpen
<1>2. /\ Added(files[month], line) \in Seq(Lines) /\ LastOpen(Added(files[month], line))
      /\ Stay(files[month], Added(files[month], line))
      /\ \A i \in DOMAIN Added(files[month], line) : Added(files[month], line)[i].at = month
      /\ ~EndsOpen(files[month]) =>
              /\ Len(files[month]) + 1 \in Wholes(Added(files[month], line))
              /\ \A i \in Wholes(Added(files[month], line)) : i <= Len(files[month]) + 1
              /\ Added(files[month], line)[Len(files[month]) + 1] = line
  BY <1>1, AddedLines
<1>3. /\ app \in [Months -> Seq(Lines)] /\ app[month] = Added(files[month], line)
      /\ \A m \in Months : m # month => app[m] = files[m] \/ (app[m] = <<>> /\ m < Cutoff)
  <2>1. with \in [Months -> Seq(Lines)] /\ with[month] = Added(files[month], line)
        /\ \A m \in Months : m # month => with[m] = files[m]
    BY <1>1, <1>2
  <2> HIDE DEF with
  <2>2. /\ Pruned(with) \in [Months -> Seq(Lines)]
        /\ \A m \in Months : Pruned(with)[m] = IF m < Cutoff THEN <<>> ELSE with[m]
    <3>1. \A m \in Months : (IF m < Cutoff THEN <<>> ELSE with[m]) \in Seq(Lines)
      BY <2>1, EmptySeq
    <3>2. QED
      BY <3>1 DEF Pruned
  <2>3. ~(month < Cutoff)
    BY <1>1, JournalAssumption DEF Cutoff
  <2>4. app = with \/ app = Pruned(with)
    BY DEF Appended, app, with
  <2>5. QED
    BY <2>1, <2>2, <2>3, <2>4
<1> HIDE DEF app, with
<1>4. \A m \in Months : LastOpen(app[m]) /\ \A i \in DOMAIN app[m] : app[m][i].at = m
  <2>1. ASSUME NEW m \in Months
        PROVE  LastOpen(app[m]) /\ \A i \in DOMAIN app[m] : app[m][i].at = m
    <3>1. CASE m = month
      BY <1>2, <1>3, <3>1
    <3>2. CASE m # month /\ app[m] = files[m]
      BY <3>2 DEF FilesOK, LastOpen
    <3>3. CASE m # month /\ app[m] = <<>>
      BY <3>3 DEF LastOpen
    <3>4. QED
      BY <1>3, <3>1, <3>2, <3>3
  <2>2. QED
    BY <2>1
<1>5. \A m \in Months : m > month => app[m] = <<>>
  <2>1. \A m \in Months : m > month => m # month /\ files[m] = <<>>
    BY <1>1 DEF FilesOK
  <2>2. QED
    BY <1>3, <2>1
<1>6. FilesOK(app)
  BY <1>3, <1>4, <1>5 DEF FilesOK, LastOpen
<1>7. KeepsLines(files, app)
  <2>1. SUFFICES ASSUME NEW m \in Months, m + KeepMonths > month
                 PROVE  Stay(files[m], app[m])
    BY DEF KeepsLines
  <2>2. ~(m < Cutoff)
    BY <1>1, <2>1, JournalAssumption DEF Cutoff
  <2>3. CASE m = month
    BY <1>2, <1>3, <2>3
  <2>4. CASE m # month
    BY <1>3, <2>2, <2>4, StayStays
  <2>5. QED
    BY <2>3, <2>4
<1>8. QED
  BY <1>2, <1>3, <1>6, <1>7 DEF app

\* Half a line in the file of the month.
LEMMA TornFiles ==
  ASSUME NEW files, FilesOK(files), month \in Months
  PROVE  /\ FilesOK(Torn(files)) /\ KeepsLines(files, Torn(files))
         /\ \A m \in Months : Wholes(Torn(files)[m]) = Wholes(files[m]) /\ Stay(files[m], Torn(files)[m])
<1>1. /\ files \in [Months -> Seq(Lines)] /\ files[month] \in Seq(Lines) /\ month \in Nat
      /\ LastOpen(files[month]) /\ \A i \in DOMAIN files[month] : files[month][i].at = month
  BY JournalAssumption DEF FilesOK, LastOpen
<1>2. /\ Half(files[month]) \in Seq(Lines) /\ LastOpen(Half(files[month])) /\ Stay(files[month], Half(files[month]))
      /\ \A i \in DOMAIN Half(files[month]) : Half(files[month])[i].at = month
      /\ Wholes(Half(files[month])) = Wholes(files[month])
  BY <1>1, HalfLines
<1> DEFINE torn == Torn(files)
<1>3. torn \in [Months -> Seq(Lines)] /\ torn[month] = Half(files[month])
      /\ \A m \in Months : m # month => torn[m] = files[m]
  BY <1>1, <1>2 DEF Torn
<1> HIDE DEF torn
<1>4. \A m \in Months : Wholes(torn[m]) = Wholes(files[m]) /\ Stay(files[m], torn[m])
  <2>1. ASSUME NEW m \in Months
        PROVE  Wholes(torn[m]) = Wholes(files[m]) /\ Stay(files[m], torn[m])
    <3>1. CASE m = month
      BY <1>2, <1>3, <3>1
    <3>2. CASE m # month
      BY <1>3, <3>2, StayStays
    <3>3. QED
      BY <3>1, <3>2
  <2>2. QED
    BY <2>1
<1>5. \A m \in Months : LastOpen(torn[m]) /\ \A i \in DOMAIN torn[m] : torn[m][i].at = m
  <2>1. ASSUME NEW m \in Months
        PROVE  LastOpen(torn[m]) /\ \A i \in DOMAIN torn[m] : torn[m][i].at = m
    <3>1. CASE m = month
      BY <1>2, <1>3, <3>1
    <3>2. CASE m # month
      BY <1>3, <3>2 DEF FilesOK, LastOpen
    <3>3. QED
      BY <3>1, <3>2
  <2>2. QED
    BY <2>1
<1>6. \A m \in Months : m > month => m # month /\ files[m] = <<>>
  BY <1>1 DEF FilesOK
<1>7. FilesOK(torn)
  BY <1>3, <1>5, <1>6 DEF FilesOK, LastOpen
<1>8. QED
  BY <1>4, <1>7 DEF KeepsLines, torn

\* The whole lines of a month are numbered from 1; the newest is one of them.
LEMMA WholesBounded ==
  ASSUME NEW lines \in Seq(Lines)
  PROVE  /\ Wholes(lines) \subseteq Nat /\ Len(lines) \in Nat /\ \A i \in Wholes(lines) : i <= Len(lines)
         /\ Wholes(lines) # {} => /\ Max(Wholes(lines)) \in Wholes(lines)
                                  /\ NewestWhole(lines) \in Lines /\ NewestWhole(lines).what = "whole"
<1>1. Len(lines) \in Nat /\ DOMAIN lines = 1 .. Len(lines)
  BY LenProperties
<1>2. Wholes(lines) \subseteq Nat /\ \A i \in Wholes(lines) : i <= Len(lines)
  BY <1>1 DEF Wholes
<1>3. ASSUME Wholes(lines) # {}
      PROVE  /\ Max(Wholes(lines)) \in Wholes(lines)
             /\ NewestWhole(lines) \in Lines /\ NewestWhole(lines).what = "whole"
  <2>1. Max(Wholes(lines)) \in Wholes(lines)
    BY <1>1, <1>2, <1>3, MaxOf
  <2>2. QED
    BY <2>1, <1>1, ElementOfSeq DEF Wholes, NewestWhole
<1>4. QED
  BY <1>1, <1>2, <1>3

\* The months that have whole lines are not to come.
LEMMA UsedBounded ==
  ASSUME NEW files, FilesOK(files), month \in Months
  PROVE  /\ {m \in Months : Wholes(files[m]) # {}} \subseteq Nat /\ month \in Nat
         /\ \A m \in {m \in Months : Wholes(files[m]) # {}} : m <= month
<1>1. Months \subseteq Nat /\ month \in Nat
  BY JournalAssumption
<1>2. Wholes(<<>>) = {}
  BY DEF Wholes
<1>3. \A m \in Months : m > month => Wholes(files[m]) = {}
  BY <1>2 DEF FilesOK
<1>4. ASSUME NEW m \in Months, Wholes(files[m]) # {}
      PROVE  m <= month
  <2>1. ~(m > month) /\ m \in Nat
    BY <1>1, <1>3, <1>4
  <2>2. QED
    BY <1>1, <2>1
<1>5. QED
  BY <1>1, <1>4

\* The newest whole record of files is a whole line, or there is none.
LEMMA ReadLastType ==
  ASSUME NEW files, FilesOK(files), month \in Months
  PROVE  ReadLast(files) = Nothing \/ (ReadLast(files) \in Lines /\ ReadLast(files).what = "whole")
<1> DEFINE filled == {m \in Months : Wholes(files[m]) # {}}
<1>1. CASE filled = {}
  BY <1>1 DEF ReadLast
<1>2. CASE filled # {}
  <2>1. filled \subseteq Nat /\ month \in Nat /\ \A m \in filled : m <= month
    BY UsedBounded
  <2>2. Max(filled) \in filled
    BY <1>2, <2>1, MaxOf
  <2>3. files[Max(filled)] \in Seq(Lines) /\ Wholes(files[Max(filled)]) # {}
    BY <2>2 DEF FilesOK
  <2>4. ReadLast(files) = NewestWhole(files[Max(filled)])
    BY <1>2 DEF ReadLast
  <2>5. QED
    BY <2>3, <2>4, WholesBounded
<1>3. QED
  BY <1>1, <1>2

\* A month that ends in half a line has the same newest record.
LEMMA ReadLastTorn ==
  ASSUME NEW files, FilesOK(files), month \in Months
  PROVE  ReadLast(Torn(files)) = ReadLast(files)
<1> DEFINE filled == {m \in Months : Wholes(files[m]) # {}}
           usedTorn == {m \in Months : Wholes(Torn(files)[m]) # {}}
<1>1. \A m \in Months : Wholes(Torn(files)[m]) = Wholes(files[m]) /\ Stay(files[m], Torn(files)[m])
  BY TornFiles
<1>2. usedTorn = filled
  BY <1>1
<1>3. CASE filled = {}
  BY <1>2, <1>3 DEF ReadLast
<1>4. CASE filled # {}
  <2>1. filled \subseteq Nat /\ month \in Nat /\ \A m \in filled : m <= month
    BY UsedBounded
  <2>2. Max(filled) \in filled
    BY <1>4, <2>1, MaxOf
  <2> DEFINE m == Max(filled)
  <2>3. m \in Months /\ files[m] \in Seq(Lines) /\ Wholes(files[m]) # {}
    BY <2>2 DEF FilesOK
  <2>4. ReadLast(files) = NewestWhole(files[m]) /\ ReadLast(Torn(files)) = NewestWhole(Torn(files)[m])
    BY <1>2, <1>4 DEF ReadLast
  <2> HIDE DEF m
  <2>5. Max(Wholes(files[m])) \in Wholes(files[m])
    BY <2>3, WholesBounded
  <2>6. NewestWhole(Torn(files)[m]) = NewestWhole(files[m])
    BY <1>1, <2>3, <2>5 DEF NewestWhole, Stay, Wholes
  <2>7. QED
    BY <2>4, <2>6
<1>5. QED
  BY <1>3, <1>4

\* A whole record onto whole lines is the newest.
LEMMA ReadLastAppended ==
  ASSUME NEW files, FilesOK(files), month \in Months, NEW line \in Lines, line.what = "whole", line.at = month,
         ~EndsOpen(files[month])
  PROVE  ReadLast(Appended(files, line)) = line
<1> DEFINE app == Appended(files, line)
           filled == {m \in Months : Wholes(app[m]) # {}}
           n == Len(files[month])
<1>1. /\ FilesOK(app) /\ n + 1 \in Wholes(app[month])
      /\ \A i \in Wholes(app[month]) : i <= n + 1
      /\ app[month][n + 1] = line
  BY AppendedFiles
<1> HIDE DEF app
<1>2. filled \subseteq Nat /\ \A m \in filled : m <= month
  BY <1>1, UsedBounded
<1>3. month \in filled
  BY <1>1
<1>4. filled # {}
  BY <1>3
<1> HIDE DEF filled
<1>5. Max(filled) = month
  BY <1>2, <1>3, MaxIs
<1>6. app[month] \in Seq(Lines)
  BY <1>1 DEF FilesOK
<1>7. Wholes(app[month]) \subseteq Nat
  BY <1>6, WholesBounded
<1> HIDE DEF n
<1>8. Max(Wholes(app[month])) = n + 1
  BY <1>1, <1>7, MaxIs
<1>9. ReadLast(app) = NewestWhole(app[month])
  BY <1>4, <1>5 DEF ReadLast, filled
<1>10. QED
  BY <1>1, <1>8, <1>9 DEF NewestWhole, app

-----------------------------------------------------------------------------
(* The steps of the journals.                                              *)

\* The newest record, in memory or read.
LEMMA PrevType ==
  ASSUME JTypes
  PROVE  Prev = Nothing \/ (Prev \in Lines /\ Prev.what = "whole")
<1>1. ReadLast(dir["records"]) = Nothing \/ (ReadLast(dir["records"]) \in Lines /\ ReadLast(dir["records"]).what = "whole")
  BY ReadLastType DEF JTypes
<1>2. QED
  BY <1>1 DEF Prev, JTypes

LEMMA PrevIsNewest ==
  ASSUME JTypes, BaselineOK, first # None
  PROVE  Prev = ReadLast(dir["records"]) /\ Prev # Nothing /\ Prev \in Lines /\ Prev.c \in Nat
<1>1. Prev = ReadLast(dir["records"]) /\ Prev # Nothing
  BY DEF Prev, BaselineOK
<1>2. QED
  BY <1>1, PrevType DEF Lines

\* The line of a sample.
LEMMA LineOfSample ==
  ASSUME JTypes
  PROVE  /\ Line("whole", counter) \in Lines /\ Line("whole", counter).what = "whole"
         /\ Line("whole", counter).at = month /\ Line("whole", counter).c = counter
         /\ Line("whole", counter) # Nothing
         /\ Line("whole", 0) \in Lines /\ Line("whole", 0).what = "whole" /\ Line("whole", 0).at = month
<1>1. month \in Nat /\ counter \in Nat
  BY JournalAssumption DEF JTypes
<1>2. QED
  BY <1>1 DEF Line, Lines, LineKinds, Nothing

\* What a record says has grown is told with it.
LEMMA GrownTold ==
  ASSUME JTypes, BaselineOK, first # None
  PROVE  /\ first + 1 .. counter \subseteq told \union Grown
         /\ first + 1 .. ReadLast(dir["records"]).c \subseteq told
         /\ first \in Nat /\ counter \in Nat
<1>1. Prev = ReadLast(dir["records"]) /\ Prev # Nothing /\ Prev.c \in Nat
  BY PrevIsNewest
<1>2. first + 1 .. Prev.c \subseteq told
  BY <1>1 DEF BaselineOK
<1>3. Grown = Prev.c + 1 .. counter /\ first \in Nat /\ counter \in Nat
  BY <1>1 DEF Grown, JTypes
<1>4. \A i \in first + 1 .. counter : i \in first + 1 .. Prev.c \/ i \in Prev.c + 1 .. counter
  BY <1>1, <1>3
<1>5. QED
  BY <1>1, <1>2, <1>3, <1>4

\* The types that stay when the files and what is told of them do.
LEMMA RecordStep ==
  ASSUME JTypes, BaselineOK, Due, UNCHANGED <<month, counter>>,
         dir' = [dir EXCEPT !["records"] = Appended(@, Line("whole", counter))],
         last' \in {Unread, Line("whole", counter)}, Found
  PROVE  JTypes' /\ BaselineOK'
<1> DEFINE line == Line("whole", counter)
           files == dir["records"]
<1>1. /\ line \in Lines /\ line.what = "whole" /\ line.at = month /\ line.c = counter /\ line # Nothing
  BY LineOfSample
<1>2. FilesOK(files) /\ month \in Months /\ counter \in Nat
  BY DEF JTypes
<1> HIDE DEF line
<1>3. /\ DOMAIN dir' = {"records", "log"} /\ dir'["records"] = Appended(files, line) /\ dir'["log"] = dir["log"]
  BY DEF JTypes, line
<1>4. FilesOK(dir'["records"]) /\ FilesOK(dir'["log"])
  BY <1>1, <1>2, <1>3, AppendedFiles DEF JTypes
<1>5. FilesOK(dir["records"])' /\ FilesOK(dir["log"])'
  BY <1>4 DEF FilesOK
<1>6. told' \subseteq Nat
  <2>1. Grown \subseteq Nat
    <3>1. CASE Prev = Nothing
      BY <3>1 DEF Grown
    <3>2. CASE Prev # Nothing
      BY <1>2, <3>2, PrevType DEF Grown, Lines
    <3>3. QED
      BY <3>1, <3>2
  <2>2. QED
    BY <2>1 DEF Found, JTypes
<1>7. first' \in {None, counter, first}
  BY DEF Found
<1>8. last' \in {Unread, Nothing} \/ (last' \in Lines /\ last'.what = "whole")
  BY <1>1 DEF line
<1>9. JTypes'
  BY <1>2, <1>3, <1>5, <1>6, <1>7, <1>8 DEF JTypes, Found
<1>10. ASSUME first' # None
       PROVE  /\ ReadLast(dir'["records"]) # Nothing
              /\ last' \in {Unread, ReadLast(dir'["records"])}
              /\ first' + 1 .. ReadLast(dir'["records"]).c \subseteq told'
              /\ first' + 1 .. seen' \subseteq told'
  <2>1. ~EndsOpen(files[month])
    BY <1>10 DEF Found
  <2>2. ReadLast(dir'["records"]) = line
    BY <1>1, <1>2, <1>3, <2>1, ReadLastAppended
  <2>3. seen' = counter
    BY DEF Found
  <2>4. first' + 1 .. counter \subseteq told'
    <3>1. CASE first = None \/ WentBack
      <4>1. first' = counter
        BY <2>1, <3>1 DEF Found
      <4>2. counter + 1 .. counter = {}
        BY <1>2
      <4>3. QED
        BY <4>1, <4>2
    <3>2. CASE first # None /\ ~WentBack
      <4>1. first' = first /\ told' = told \union Grown
        BY <2>1, <3>2 DEF Found
      <4>2. first + 1 .. counter \subseteq told \union Grown
        BY <3>2, GrownTold
      <4>3. QED
        BY <4>1, <4>2
    <3>3. QED
      BY <3>1, <3>2
  <2>5. QED
    BY <1>1, <2>2, <2>3, <2>4 DEF line
<1>11. ReadLast(dir["records"])' = ReadLast(dir'["records"])
  BY DEF ReadLast, NewestWhole, Wholes
<1>12. BaselineOK'
  BY <1>10, <1>11 DEF BaselineOK
<1>13. QED
  BY <1>9, <1>12

\* The newest record and what the files are said to be, of other files.
LEMMA RecordsStay ==
  ASSUME JTypes, BaselineOK, UNCHANGED month,
         DOMAIN dir' = {"records", "log"}, FilesOK(dir'["records"]), FilesOK(dir'["log"]),
         ReadLast(dir'["records"]) = ReadLast(dir["records"]),
         counter' \in Nat, first' = first,
         \/ last' = last \/ last' = Unread \/ last' = Prev,
         \/ told' = told /\ seen' = seen
         \/ told' = told \union Grown /\ seen' = counter
  PROVE  JTypes' /\ BaselineOK'
<1>1. FilesOK(dir["records"])' /\ FilesOK(dir["log"])'
  BY DEF FilesOK
<1>2. ReadLast(dir["records"])' = ReadLast(dir["records"])
  BY DEF ReadLast, NewestWhole, Wholes
<1>3. seen' \in Nat /\ told' \subseteq Nat
  <2>1. Grown \subseteq Nat
    <3>1. CASE Prev = Nothing
      BY <3>1 DEF Grown
    <3>2. CASE Prev # Nothing
      BY <3>2, PrevType DEF Grown, Lines, JTypes
    <3>3. QED
      BY <3>1, <3>2
  <2>2. QED
    BY <2>1 DEF JTypes
<1>4. last' \in {Unread, Nothing} \/ (last' \in Lines /\ last'.what = "whole")
  BY PrevType DEF JTypes
<1>5. JTypes'
  BY <1>1, <1>3, <1>4 DEF JTypes
<1>6. ASSUME first # None
      PROVE  /\ last' \in {Unread, ReadLast(dir["records"])}
             /\ first + 1 .. ReadLast(dir["records"]).c \subseteq told'
             /\ first + 1 .. seen' \subseteq told'
  <2>1. last \in {Unread, ReadLast(dir["records"])} /\ Prev = ReadLast(dir["records"])
    BY <1>6, PrevIsNewest DEF BaselineOK
  <2>2. last' \in {Unread, ReadLast(dir["records"])}
    BY <2>1
  <2>3. /\ first + 1 .. counter \subseteq told \union Grown
        /\ first + 1 .. ReadLast(dir["records"]).c \subseteq told
        /\ first + 1 .. seen \subseteq told
    BY <1>6, GrownTold DEF BaselineOK
  <2>4. QED
    BY <2>2, <2>3
<1>7. BaselineOK'
  BY <1>2, <1>6 DEF BaselineOK
<1>8. QED
  BY <1>5, <1>7

\* The counts stay.
LEMMA CountsStay ==
  ASSUME CountsInv, UNCHANGED <<count, onDisk, landed, uncounted, logging, behind>>
  PROVE  CountsInv'
  BY DEF CountsInv, InMemory, OrZero

\* An entry, or half of one, changes the log only.
LEMMA LogMovesFiles ==
  ASSUME JTypes, NEW files, FilesOK(files), dir' = [dir EXCEPT !["log"] = files]
  PROVE  DOMAIN dir' = {"records", "log"} /\ FilesOK(dir'["records"]) /\ FilesOK(dir'["log"])
         /\ dir'["records"] = dir["records"]
  BY DEF JTypes

LEMMA LogEntryStep ==
  ASSUME JournalInv, LogEntry
  PROVE  JournalInv'
<1>1. /\ ~logging /\ logging' /\ landed' = landed + 1 /\ dir' = [dir EXCEPT !["log"] = Appended(dir["log"], Line("whole", 0))]
      /\ UNCHANGED <<onDisk, counter, month, last, count, first, seen, told, uncounted, behind>>
  BY DEF LogEntry
<1>2. FilesOK(Appended(dir["log"], Line("whole", 0)))
  BY LineOfSample, AppendedFiles DEF JournalInv, JTypes
<1>3. JTypes' /\ BaselineOK'
  BY <1>1, <1>2, LogMovesFiles, RecordsStay DEF JournalInv, JTypes
<1>4. CountsInv'
  <2>1. InMemory' = InMemory /\ OrZero(onDisk)' = OrZero(onDisk)
    BY <1>1 DEF InMemory, OrZero
  <2>2. InMemory = landed - uncounted /\ landed \in Nat /\ uncounted \in Nat
    BY <1>1, NoCountAssumption DEF JournalInv, CountsInv, InMemory, OrZero
  <2>3. InMemory' = landed' - uncounted' - (IF logging' THEN 1 ELSE 0)
    BY <1>1, <2>1, <2>2
  <2>4. QED
    BY <1>1, <2>1, <2>2, <2>3 DEF JournalInv, CountsInv
<1>5. QED
  BY <1>3, <1>4 DEF JournalInv

LEMMA LogFailsStep ==
  ASSUME JournalInv, LogFails
  PROVE  JournalInv'
<1>1. PICK files \in {dir["log"], Torn(dir["log"])} : dir' = [dir EXCEPT !["log"] = files]
  BY DEF LogFails
<1>2. FilesOK(files)
  BY <1>1, TornFiles DEF JournalInv, JTypes
<1>3. JTypes' /\ BaselineOK'
  BY <1>1, <1>2, LogMovesFiles, RecordsStay DEF JournalInv, JTypes, LogFails
<1>4. QED
  BY <1>3, CountsStay DEF JournalInv, LogFails

LEMMA LogSummaryStep ==
  ASSUME JournalInv, LogSummary
  PROVE  JournalInv'
<1>1. /\ logging /\ ~logging' /\ count' = CountedIn
      /\ \/ onDisk' = CountedIn /\ ~behind'
         \/ behind' /\ onDisk' = onDisk
      /\ UNCHANGED <<dir, counter, month, last, first, seen, told, landed, uncounted>>
  BY DEF LogSummary
<1>2. JTypes' /\ BaselineOK'
  BY <1>1, RecordsStay DEF JournalInv, JTypes
<1>3. /\ CountedIn = InMemory + 1 /\ InMemory \in Nat /\ InMemory = landed - uncounted - 1
      /\ landed \in Nat /\ uncounted \in Nat /\ OrZero(onDisk) <= InMemory /\ OrZero(onDisk) \in Nat
  BY <1>1 DEF JournalInv, CountsInv, InMemory, CountedIn, OrZero
<1>4. CountedIn \in Nat /\ CountedIn # None
  BY <1>3, NoCountAssumption
<1>5. count' \in Nat /\ InMemory' = CountedIn
  BY <1>1, <1>4 DEF InMemory
<1>6. onDisk' \in Nat \union {None} /\ OrZero(onDisk)' \in {CountedIn, OrZero(onDisk)}
      /\ (~behind' => OrZero(onDisk)' = CountedIn)
  <2>1. CASE onDisk' = CountedIn
    BY <1>4, <2>1 DEF OrZero
  <2>2. CASE behind' /\ onDisk' = onDisk
    BY <2>2 DEF OrZero, JournalInv, CountsInv
  <2>3. QED
    BY <1>1, <2>1, <2>2
<1>7. InMemory' = landed' - uncounted' - (IF logging' THEN 1 ELSE 0) /\ OrZero(onDisk)' <= InMemory'
  BY <1>1, <1>3, <1>5, <1>6
<1>8. CountsInv'
  BY <1>1, <1>3, <1>5, <1>6, <1>7 DEF CountsInv
<1>9. QED
  BY <1>2, <1>8 DEF JournalInv

LEMMA EndJournals ==
  ASSUME JournalInv, End
  PROVE  JournalInv'
<1>1. /\ last' = Unread /\ count' = None /\ ~logging' /\ uncounted' = landed - OrZero(onDisk) /\ ~behind'
      /\ UNCHANGED <<onDisk, counter, month, landed>>
  BY DEF End
<1>2. CountsInv'
  <2>1. OrZero(onDisk) \in Nat /\ OrZero(onDisk) <= landed /\ landed \in Nat
    BY NoCountAssumption DEF JournalInv, CountsInv, InMemory, OrZero
  <2>2. OrZero(onDisk)' = OrZero(onDisk) /\ InMemory' = OrZero(onDisk)
    BY <1>1 DEF InMemory, OrZero
  <2>3. uncounted' \in Nat /\ landed' - uncounted' - 0 = OrZero(onDisk)
    BY <1>1, <2>1
  <2>4. QED
    BY <1>1, <2>1, <2>2, <2>3 DEF JournalInv, CountsInv
<1>3. CASE UNCHANGED <<dir, first, seen, told>>
  BY <1>1, <1>2, <1>3, RecordsStay DEF JournalInv, JTypes
<1>4. CASE dir' = [dir EXCEPT !["log"] = Torn(dir["log"])] /\ UNCHANGED <<first, seen, told>>
  <2>1. FilesOK(Torn(dir["log"]))
    BY TornFiles DEF JournalInv, JTypes
  <2>2. QED
    BY <1>1, <1>2, <1>4, <2>1, LogMovesFiles, RecordsStay DEF JournalInv, JTypes
<1>5. CASE dir' = [dir EXCEPT !["records"] = Torn(dir["records"])] /\ UNCHANGED <<first, seen, told>>
  <2>1. FilesOK(Torn(dir["records"])) /\ ReadLast(Torn(dir["records"])) = ReadLast(dir["records"])
    BY TornFiles, ReadLastTorn DEF JournalInv, JTypes
  <2>2. DOMAIN dir' = {"records", "log"} /\ dir'["records"] = Torn(dir["records"]) /\ dir'["log"] = dir["log"]
    BY <1>5 DEF JournalInv, JTypes
  <2>3. QED
    BY <1>1, <1>2, <1>5, <2>1, <2>2, RecordsStay DEF JournalInv, JTypes
<1>6. CASE Due /\ dir' = [dir EXCEPT !["records"] = Appended(dir["records"], Line("whole", counter))] /\ Found
  BY <1>1, <1>2, <1>6, RecordStep DEF JournalInv
<1>7. QED
  BY <1>3, <1>4, <1>5, <1>6 DEF End

LEMMA ObserveStep ==
  ASSUME JournalInv, Observe
  PROVE  JournalInv'
  BY RecordStep, CountsStay DEF JournalInv, Observe

LEMMA ObserveFailsStep ==
  ASSUME JournalInv, ObserveFails
  PROVE  JournalInv'
<1>1. PICK files \in {dir["records"], Torn(dir["records"])} : dir' = [dir EXCEPT !["records"] = files]
  BY DEF ObserveFails
<1>2. FilesOK(files) /\ ReadLast(files) = ReadLast(dir["records"])
  BY <1>1, TornFiles, ReadLastTorn DEF JournalInv, JTypes
<1>3. DOMAIN dir' = {"records", "log"} /\ dir'["records"] = files /\ dir'["log"] = dir["log"]
  BY <1>1 DEF JournalInv, JTypes
<1>4. JTypes' /\ BaselineOK'
  BY <1>2, <1>3, RecordsStay DEF JournalInv, JTypes, ObserveFails
<1>5. QED
  BY <1>4, CountsStay DEF JournalInv, ObserveFails

\* Nothing is due: the last sample is what the newest record says.
LEMMA ObserveQuietStep ==
  ASSUME JournalInv, ObserveQuiet
  PROVE  JournalInv'
<1>1. /\ ~Due /\ last' = Prev /\ seen' = counter
      /\ UNCHANGED <<dir, onDisk, counter, month, count, logging, first, told, landed, uncounted, behind>>
  BY DEF ObserveQuiet
<1>2. told' = told \union Grown
  <2>1. Prev # Nothing /\ Prev.c = counter /\ counter \in Nat
    BY <1>1 DEF Due, JournalInv, JTypes
  <2>2. Grown = {}
    BY <2>1 DEF Grown
  <2>3. QED
    BY <1>1, <2>2
<1>3. JTypes' /\ BaselineOK'
  BY <1>1, <1>2, RecordsStay DEF JournalInv, JTypes
<1>4. QED
  BY <1>1, <1>3, CountsStay DEF JournalInv

\* A new month: its files are still empty.
LEMMA TurnMonthStep ==
  ASSUME JournalInv, TurnMonth
  PROVE  JournalInv'
<1>1. /\ month' = month + 1 /\ month' \in Months
      /\ UNCHANGED <<dir, onDisk, counter, last, count, logging, first, seen, told, landed, uncounted, behind>>
  BY DEF TurnMonth
<1>2. month \in Nat /\ \A m \in Months : m \in Nat
  BY JournalAssumption DEF JournalInv, JTypes
<1>3. \A m \in Months : m > month' => m > month
  BY <1>1, <1>2
<1>4. FilesOK(dir["records"])' /\ FilesOK(dir["log"])'
  BY <1>1, <1>3 DEF FilesOK, JournalInv, JTypes
<1>5. JTypes'
  BY <1>1, <1>4 DEF JournalInv, JTypes
<1>6. ReadLast(dir["records"])' = ReadLast(dir["records"])
  BY <1>1 DEF ReadLast, NewestWhole, Wholes
<1>7. BaselineOK'
  BY <1>1, <1>6 DEF BaselineOK, JournalInv
<1>8. QED
  BY <1>1, <1>5, <1>7, CountsStay DEF JournalInv

LEMMA InitJournals == JInit => JournalInv
<1> SUFFICES ASSUME JInit
             PROVE  JournalInv
  OBVIOUS
<1>1. /\ dir = [j \in {"records", "log"} |-> [m \in Months |-> <<>>]]
      /\ onDisk = None /\ counter = 0 /\ month = 1 /\ last = Unread /\ count = None /\ logging = FALSE
      /\ first = None /\ seen = 0 /\ told = {} /\ landed = 0 /\ uncounted = 0 /\ behind = FALSE
  BY DEF JInit
<1>2. FilesOK([m \in Months |-> <<>>])
  <2>1. <<>> \in Seq(Lines)
    BY EmptySeq
  <2>2. [m \in Months |-> <<>>] \in [Months -> Seq(Lines)]
    BY <2>1
  <2>3. QED
    BY <2>2 DEF FilesOK
<1>3. JTypes
  BY <1>1, <1>2, JournalAssumption DEF JTypes
<1>4. CountsInv
  <2>1. OrZero(onDisk) = 0 /\ InMemory = 0
    BY <1>1 DEF InMemory, OrZero
  <2>2. count \in Nat \union {None} /\ onDisk \in Nat \union {None} /\ landed = 0 /\ uncounted = 0
    BY <1>1
  <2>3. InMemory = landed - uncounted - (IF logging THEN 1 ELSE 0)
    <3>1. landed - uncounted - 0 = 0
      BY <2>2
    <3>2. (IF logging THEN 1 ELSE 0) = 0
      BY <1>1
    <3>3. QED
      BY <2>1, <3>1, <3>2
  <2>4. OrZero(onDisk) <= InMemory
    BY <2>1
  <2>5. QED
    BY <2>1, <2>2, <2>3, <2>4 DEF CountsInv
<1>5. QED
  BY <1>1, <1>3, <1>4 DEF JournalInv, BaselineOK

LEMMA NextJournals == JournalInv /\ [JNext]_jvars => JournalInv'
<1> SUFFICES ASSUME JournalInv, [JNext]_jvars
             PROVE  JournalInv'
  OBVIOUS
<1>1. CASE Grow \/ ResetCounter \/ Mount \/ UNCHANGED jvars
  <2>1. /\ counter' \in Nat
        /\ UNCHANGED <<dir, onDisk, month, last, count, logging, first, seen, told, landed, uncounted, behind>>
    BY <1>1 DEF Grow, ResetCounter, Mount, jvars, JournalInv, JTypes
  <2>2. QED
    BY <2>1, RecordsStay, CountsStay DEF JournalInv, JTypes
<1>2. QED
  BY <1>1, ObserveQuietStep, ObserveStep, ObserveFailsStep, LogEntryStep, LogFailsStep, LogSummaryStep, EndJournals,
     TurnMonthStep DEF JNext

LEMMA JournalIsOK == JournalInv => JournalOK
<1> SUFFICES ASSUME JournalInv
             PROVE  JournalOK
  OBVIOUS
<1>1. JournalTypes
  <2>1. \A j \in DOMAIN dir, m \in Months : \A i \in DOMAIN dir[j][m] :
          /\ dir[j][m][i].at = m /\ dir[j][m][i].what \in {"whole", "open", "spoiled"}
          /\ dir[j][m][i].what = "open" => i = Len(dir[j][m])
    <3>1. SUFFICES ASSUME NEW j \in DOMAIN dir, NEW m \in Months, NEW i \in DOMAIN dir[j][m]
                   PROVE  /\ dir[j][m][i].at = m /\ dir[j][m][i].what \in {"whole", "open", "spoiled"}
                          /\ dir[j][m][i].what = "open" => i = Len(dir[j][m])
      OBVIOUS
    <3>2. FilesOK(dir[j])
      BY DEF JournalInv, JTypes
    <3>3. dir[j][m] \in Seq(Lines)
      BY <3>2 DEF FilesOK
    <3>4. dir[j][m][i] \in Lines
      BY <3>3, LenProperties, ElementOfSeq
    <3>5. QED
      BY <3>2, <3>4 DEF FilesOK, Lines, LineKinds
  <2>2. last \in {Unread, Nothing} \/ (last.what = "whole" /\ last.c \in Nat)
    BY DEF JournalInv, JTypes, Lines
  <2>3. OrZero(onDisk) <= landed
    BY NoCountAssumption DEF JournalInv, CountsInv, InMemory, OrZero
  <2>4. QED
    BY <2>1, <2>2, <2>3 DEF JournalTypes
<1>2. NoGrowthMissed
  BY DEF NoGrowthMissed, JournalInv, BaselineOK
<1>3. SummaryCounts
  BY DEF SummaryCounts, JournalInv, CountsInv, InMemory
<1>4. QED
  BY <1>1, <1>2, <1>3 DEF JournalOK

\* No step costs a line of the months kept.
LEMMA LinesKept ==
  ASSUME JournalInv, [JNext]_jvars, NEW j \in DOMAIN dir
  PROVE  KeepsLines(dir[j], dir'[j])
<1>1. j \in {"records", "log"} /\ FilesOK(dir[j]) /\ month \in Months /\ DOMAIN dir = {"records", "log"}
  BY DEF JournalInv, JTypes
<1>2. KeepsLines(dir[j], dir[j]) /\ KeepsLines(dir[j], Torn(dir[j]))
  BY <1>1, TornFiles, StayStays DEF KeepsLines
<1>3. /\ KeepsLines(dir[j], Appended(dir[j], Line("whole", counter)))
      /\ KeepsLines(dir[j], Appended(dir[j], Line("whole", 0)))
  BY <1>1, LineOfSample, AppendedFiles DEF JournalInv
<1>4. dir'[j] \in {dir[j], Torn(dir[j]), Appended(dir[j], Line("whole", counter)), Appended(dir[j], Line("whole", 0))}
  <2>1. CASE Observe \/ LogEntry
    BY <1>1, <2>1 DEF Observe, LogEntry
  <2>2. CASE ObserveFails
    <3>1. PICK files \in {dir["records"], Torn(dir["records"])} : dir' = [dir EXCEPT !["records"] = files]
      BY <2>2 DEF ObserveFails
    <3>2. QED
      BY <1>1, <3>1
  <2>3. CASE LogFails
    <3>1. PICK files \in {dir["log"], Torn(dir["log"])} : dir' = [dir EXCEPT !["log"] = files]
      BY <2>3 DEF LogFails
    <3>2. QED
      BY <1>1, <3>1
  <2>4. CASE End
    BY <1>1, <2>4 DEF End
  <2>5. CASE ObserveQuiet \/ LogSummary \/ Grow \/ ResetCounter \/ TurnMonth \/ Mount \/ UNCHANGED jvars
    BY <2>5 DEF ObserveQuiet, LogSummary, Grow, ResetCounter, TurnMonth, Mount, jvars
  <2>6. QED
    BY <2>1, <2>2, <2>3, <2>4, <2>5 DEF JNext
<1>5. QED
  BY <1>2, <1>3, <1>4

LEMMA StepKeepsLines ==
  ASSUME JournalInv, [JNext]_jvars
  PROVE  [\A j \in DOMAIN dir, m \in Months : m + KeepMonths > month =>
             \A i \in DOMAIN dir[j][m] : dir[j][m][i].what # "open" =>
                i \in DOMAIN dir'[j][m] /\ dir'[j][m][i] = dir[j][m][i]]_jvars
<1>1. ASSUME NEW j \in DOMAIN dir, NEW m \in Months, m + KeepMonths > month
      PROVE  Stay(dir[j][m], dir'[j][m])
  BY <1>1, LinesKept DEF KeepsLines
<1>2. QED
  BY <1>1 DEF Stay

\* No growth of an error counter is missed over restarts, failed writes and a
\* reset of the counter, and the summary counts what landed (history.rs,
\* observe, read_last and log).
THEOREM JournalHolds == JSpec => []JournalOK
  BY InitJournals, NextJournals, JournalIsOK, PTL DEF JSpec

\* No failed append, torn line, restart or turn of the month costs a line of
\* the months kept (history.rs, append_line and prune).
THEOREM LinesStay == JSpec => EarlierKept
<1>1. JournalInv /\ [JNext]_jvars =>
        [\A j \in DOMAIN dir, m \in Months : m + KeepMonths > month =>
             \A i \in DOMAIN dir[j][m] : dir[j][m][i].what # "open" =>
                i \in DOMAIN dir'[j][m] /\ dir'[j][m][i] = dir[j][m][i]]_jvars
  BY StepKeepsLines
<1>2. QED
  BY <1>1, InitJournals, NextJournals, PTL DEF JSpec, EarlierKept

-----------------------------------------------------------------------------
(* The firmware images, proved for any uploads: while they come one at a      *)
(* time, the image under the name is one whole upload.                        *)

ImTypes ==
  /\ temp \in Uploads \union {None} /\ image \in Uploads \union {None}
  /\ bytes \in [Uploads -> SUBSET Uploads]
  /\ upload \in [Uploads -> [pc : {"idle", "write", "rename", "done"}, open : Uploads \union {None}]]
  /\ overlap \in BOOLEAN
  /\ temp # None => upload[temp].pc # "idle"
  /\ image # None => upload[image].pc # "idle"

\* One upload at a time: it has the temporary file open, whose bytes are its
\* own, and the image is another file, whole.
Apart ==
  /\ \A u, v \in Running : u = v
  /\ \A u \in Running : temp # None /\ upload[u].open = temp /\ bytes[temp] = IF upload[u].pc = "write" THEN {} ELSE {u}
  /\ image # None => image # temp /\ Whole(image)
ImagesInv == ImTypes /\ (~overlap => Apart)

LEMMA InitImages == ImInit => ImagesInv
<1> SUFFICES ASSUME ImInit
             PROVE  ImagesInv
  OBVIOUS
<1>1. ImTypes
  BY DEF ImInit, ImTypes
<1>2. Running = {}
  BY DEF ImInit, Running
<1>3. QED
  BY <1>1, <1>2 DEF ImInit, ImagesInv, Apart

LEMMA CreateImages ==
  ASSUME ImagesInv, NEW u \in Uploads, Create(u)
  PROVE  ImagesInv'
<1> DEFINE inode == IF temp = None THEN u ELSE temp
<1>1. /\ upload[u].pc = "idle" /\ temp' = inode /\ image' = image
      /\ bytes' = [bytes EXCEPT ![inode] = {}]
      /\ upload' = [upload EXCEPT ![u] = [pc |-> "write", open |-> inode]]
      /\ overlap' = (overlap \/ Running # {})
  BY DEF Create
<1>2. inode \in Uploads /\ inode # None
  BY NoInodeAssumption DEF ImagesInv, ImTypes
<1>3. /\ upload'[u].pc = "write" /\ upload'[u].open = inode
      /\ \A v \in Uploads : v # u => upload'[v] = upload[v]
      /\ bytes'[inode] = {} /\ \A v \in Uploads : v # inode => bytes'[v] = bytes[v]
  BY <1>1, <1>2 DEF ImagesInv, ImTypes
<1>4. ImTypes'
  <2>1. /\ temp' \in Uploads \union {None} /\ image' \in Uploads \union {None} /\ overlap' \in BOOLEAN
        /\ bytes' \in [Uploads -> SUBSET Uploads]
        /\ upload' \in [Uploads -> [pc : {"idle", "write", "rename", "done"}, open : Uploads \union {None}]]
    BY <1>1, <1>2 DEF ImagesInv, ImTypes
  <2>2. temp' # None => upload'[temp'].pc # "idle"
    BY <1>1, <1>2, <1>3 DEF ImagesInv, ImTypes
  <2>3. image' # None => upload'[image'].pc # "idle"
    BY <1>1, <1>3 DEF ImagesInv, ImTypes
  <2>4. QED
    BY <2>1, <2>2, <2>3 DEF ImTypes
<1>5. ASSUME ~overlap'
      PROVE  Apart'
  <2>1. Running = {} /\ Apart
    BY <1>1, <1>5 DEF ImagesInv
  <2>2. Running' = {u}
    BY <1>3, <2>1 DEF Running
  <2>3. image # None => image # inode
    BY <1>1, <2>1 DEF ImagesInv, ImTypes, Apart
  <2> HIDE DEF inode
  <2>4. image' # None => image' # temp' /\ Whole(image)'
    BY <1>1, <1>3, <2>1, <2>3 DEF Apart, Whole, ImagesInv, ImTypes
  <2>5. QED
    BY <1>1, <1>2, <1>3, <2>2, <2>4 DEF Apart
<1>6. QED
  BY <1>4, <1>5 DEF ImagesInv

LEMMA WriteImages ==
  ASSUME ImagesInv, NEW u \in Uploads, Write(u)
  PROVE  ImagesInv'
<1>1. /\ upload[u].pc = "write" /\ UNCHANGED <<temp, image, overlap>>
      /\ bytes' = [bytes EXCEPT ![upload[u].open] = @ \union {u}]
      /\ upload' = [upload EXCEPT ![u].pc = "rename"]
  BY DEF Write
<1>2. /\ upload'[u].pc = "rename" /\ upload'[u].open = upload[u].open
      /\ \A v \in Uploads : v # u => upload'[v] = upload[v]
  BY <1>1 DEF ImagesInv, ImTypes
<1>3. ImTypes'
  <2>1. upload' \in [Uploads -> [pc : {"idle", "write", "rename", "done"}, open : Uploads \union {None}]]
    BY <1>1 DEF ImagesInv, ImTypes
  <2>2. bytes' \in [Uploads -> SUBSET Uploads]
    BY <1>1 DEF ImagesInv, ImTypes
  <2>3. QED
    BY <1>1, <1>2, <2>1, <2>2 DEF ImagesInv, ImTypes
<1>4. ASSUME ~overlap'
      PROVE  Apart'
  <2>1. Apart /\ u \in Running
    BY <1>1, <1>4 DEF ImagesInv, Running
  <2>2. Running = {u} /\ temp # None /\ upload[u].open = temp /\ bytes[temp] = {} /\ temp \in Uploads
    BY <1>1, <2>1 DEF Apart, ImagesInv, ImTypes
  <2>3. Running' = {u}
    BY <1>2, <2>2 DEF Running
  <2>4. bytes'[temp] = {u} /\ \A v \in Uploads : v # temp => bytes'[v] = bytes[v]
    BY <1>1, <2>2 DEF ImagesInv, ImTypes
  <2>5. image' # None => image' # temp' /\ Whole(image)'
    BY <1>1, <2>1, <2>4 DEF Apart, Whole, ImagesInv, ImTypes
  <2>6. QED
    BY <1>1, <1>2, <2>2, <2>3, <2>4, <2>5 DEF Apart
<1>5. QED
  BY <1>3, <1>4 DEF ImagesInv

LEMMA RenameImages ==
  ASSUME ImagesInv, NEW u \in Uploads, RenameImage(u)
  PROVE  ImagesInv'
<1>1. /\ upload[u].pc = "rename" /\ UNCHANGED <<bytes, overlap>>
      /\ \/ temp = None /\ UNCHANGED <<temp, image>>
         \/ temp # None /\ image' = temp /\ temp' = None
      /\ upload' = [upload EXCEPT ![u].pc = "done"]
  BY DEF RenameImage
<1>2. /\ upload'[u].pc = "done"
      /\ \A v \in Uploads : v # u => upload'[v] = upload[v]
  BY <1>1 DEF ImagesInv, ImTypes
<1>3. ImTypes'
  <2>1. upload' \in [Uploads -> [pc : {"idle", "write", "rename", "done"}, open : Uploads \union {None}]]
    BY <1>1 DEF ImagesInv, ImTypes
  <2>2. \A v \in Uploads : upload[v].pc # "idle" => upload'[v].pc # "idle"
    BY <1>2
  <2>3. QED
    BY <1>1, <2>1, <2>2 DEF ImagesInv, ImTypes
<1>4. ASSUME ~overlap'
      PROVE  Apart'
  <2>1. Apart /\ u \in Running
    BY <1>1, <1>4 DEF ImagesInv, Running
  <2>2. Running = {u} /\ temp # None /\ bytes[temp] = {u} /\ temp \in Uploads
    BY <1>1, <2>1 DEF Apart, ImagesInv, ImTypes
  <2>3. Running' = {}
    BY <1>2, <2>2 DEF Running
  <2>4. image' = temp /\ temp' = None /\ Whole(image)'
    BY <1>1, <2>2 DEF Whole
  <2>5. QED
    BY <2>2, <2>3, <2>4 DEF Apart
<1>5. QED
  BY <1>3, <1>4 DEF ImagesInv

\* An upload ends without its rename, one or all.
LEMMA StoppedImages ==
  ASSUME ImagesInv, UNCHANGED <<temp, image, bytes, overlap>>,
         upload' \in [Uploads -> [pc : {"idle", "write", "rename", "done"}, open : Uploads \union {None}]],
         \A u \in Uploads : upload'[u] = upload[u] \/ (u \in Running /\ upload'[u].pc = "done")
  PROVE  ImagesInv'
<1>1. \A u \in Uploads : upload[u].pc # "idle" => upload'[u].pc # "idle"
  OBVIOUS
<1>2. ImTypes'
  BY <1>1 DEF ImagesInv, ImTypes
<1>3. \A u \in Running' : u \in Running /\ upload'[u] = upload[u]
  BY DEF Running
<1>4. Apart => Apart'
  BY <1>3 DEF Apart, Whole
<1>5. QED
  BY <1>2, <1>4 DEF ImagesInv

LEMMA NextImages == ImagesInv /\ [ImNext]_imvars => ImagesInv'
<1> SUFFICES ASSUME ImagesInv, [ImNext]_imvars
             PROVE  ImagesInv'
  OBVIOUS
<1>1. ASSUME NEW u \in Uploads, WriteImageFails(u)
      PROVE  ImagesInv'
  <2>1. /\ u \in Running /\ upload' = [upload EXCEPT ![u].pc = "done"] /\ UNCHANGED <<temp, image, bytes, overlap>>
    BY <1>1 DEF WriteImageFails, Running
  <2>2. upload' \in [Uploads -> [pc : {"idle", "write", "rename", "done"}, open : Uploads \union {None}]]
    BY <2>1 DEF ImagesInv, ImTypes
  <2>3. \A v \in Uploads : upload'[v] = upload[v] \/ (v \in Running /\ upload'[v].pc = "done")
    BY <2>1 DEF ImagesInv, ImTypes
  <2>4. QED
    BY <2>1, <2>2, <2>3, StoppedImages
<1>2. CASE UploadsEnd
  <2>1. /\ upload' = [u \in Uploads |-> IF u \in Running THEN [upload[u] EXCEPT !.pc = "done"] ELSE upload[u]]
        /\ UNCHANGED <<temp, image, bytes, overlap>>
    BY <1>2 DEF UploadsEnd
  <2>2. upload' \in [Uploads -> [pc : {"idle", "write", "rename", "done"}, open : Uploads \union {None}]]
    BY <2>1 DEF ImagesInv, ImTypes
  <2>3. \A v \in Uploads : upload'[v] = upload[v] \/ (v \in Running /\ upload'[v].pc = "done")
    BY <2>1 DEF ImagesInv, ImTypes
  <2>4. QED
    BY <2>1, <2>2, <2>3, StoppedImages
<1>3. CASE DeleteImage
  BY <1>3 DEF DeleteImage, ImagesInv, ImTypes, Apart, Running, Whole
<1>4. CASE UNCHANGED imvars
  BY <1>4 DEF imvars, ImagesInv, ImTypes, Apart, Running, Whole
<1>5. QED
  BY <1>1, <1>2, <1>3, <1>4, CreateImages, WriteImages, RenameImages DEF ImNext

LEMMA ImagesAreOK == ImagesInv => ImagesOK
  BY DEF ImagesInv, Apart, ImagesOK

\* The image under a name is one whole upload, as long as uploads of the name
\* come one after the other (api/mod.rs, upload_firmware).
THEOREM ImagesHold == ImSpec => []ImagesOK
  BY InitImages, NextImages, ImagesAreOK, PTL DEF ImSpec

-----------------------------------------------------------------------------
(* The gate's safety, proved for any calls, settings and length of the       *)
(* cache: what is let in was allowed lately, what is destroyed is allowed    *)
(* now, and no route that destroys is gated as less than a drive operation.  *)
Settings == [enforce : BOOLEAN, anonymous : BOOLEAN, kube : BOOLEAN, admin : BOOLEAN, changes : Nat,
             calls : [Calls -> [write : BOOLEAN, dry : BOOLEAN, tls : BOOLEAN,
                                cred : {"bearer", "cert", "admin", "none"}]]]
CallPcs == {"none", "token", "access", "answered", "run", "job", "done", "refused", "destroys"}
AccessAnswers == {"none", "allowed", "denied", "unknown", "unavailable"}

GateTypeOK ==
  /\ gate \in Settings /\ now \in Nat
  /\ permitted \subseteq Nat
  /\ DOMAIN cache = Reviewed /\ \A k \in Reviewed : cache[k].at \in Nat /\ cache[k].was \in AccessAnswers
  /\ call \in [Calls -> [pc : CallPcs, answer : AccessAnswers, at : Nat]]

\* No call is under review for longer than a tick, and the history is of now.
ClockOK ==
  /\ may => now \in permitted
  /\ \A c \in Calls : Asking(c) => now <= call[c].at + 1

\* An answer that allows a write was true when it was given, and an answer
\* that is kept was given a tick before it was kept at the earliest.
AnswerOK ==
  /\ \A c \in Calls : call[c].pc = "answered" /\ IsWrite(c) /\ call[c].answer = "allowed"
                        => call[c].at \in permitted
  /\ \A k \in Reviewed : k[2] = "write" /\ cache[k].was = "allowed" => PermittedSince(cache[k].at - 1)

\* What is let in was allowed within the cache's life and one review.
LetInOK == \A c \in Calls : ByUser(c) /\ call[c].pc = "run" => PermittedSince(call[c].at - Ttl - 1)

GateInv == GateTypeOK /\ ClockOK /\ AnswerOK /\ LetInOK /\ DestroysByNow

-----------------------------------------------------------------------------
\* The gate's settings do not change, only how much may still change outside.
GateKept == gate'.calls = gate.calls /\ gate'.enforce = gate.enforce /\ gate' \in Settings

LEMMA WhoStays ==
  ASSUME GateKept, NEW c \in Calls
  PROVE  IsWrite(c)' = IsWrite(c) /\ Cred(c)' = Cred(c) /\ Key(c)' = Key(c) /\ ByUser(c)' = ByUser(c)
  BY DEF GateKept, IsWrite, Cred, Key, ByUser

LEMMA KeyReviewed ==
  ASSUME GateTypeOK, NEW c \in Calls, Cred(c) \in {"bearer", "cert"}
  PROVE  Key(c) \in Reviewed /\ (IsWrite(c) => Key(c)[2] = "write")
  BY DEF Key, Reviewed

\* What a step of one call must show of that call to keep the invariant.
Keeps(c, step, answer) ==
  /\ step \in CallPcs /\ answer \in AccessAnswers
  /\ step = "answered" /\ IsWrite(c) /\ answer = "allowed" => now \in permitted
  /\ ByUser(c) /\ step = "run" => PermittedSince(now - Ttl - 1)
  /\ ByUser(c) /\ step = "destroys" => now \in permitted

LEMMA StepKeeps ==
  ASSUME GateInv, NEW c \in Calls, NEW step, NEW answer, Keeps(c, step, answer), Step(c, step, answer),
         DOMAIN cache' = Reviewed, \A k \in Reviewed : cache'[k].at \in Nat /\ cache'[k].was \in AccessAnswers,
         \A k \in Reviewed : k[2] = "write" /\ cache'[k].was = "allowed" => PermittedSince(cache'[k].at - 1),
         UNCHANGED <<gate, may, known, reachable, now, permitted>>
  PROVE  GateInv'
<1>0. now \in Nat /\ GateKept
  BY DEF GateInv, GateTypeOK, GateKept
<1>1. /\ call' = [call EXCEPT ![c] = [pc |-> step, answer |-> answer, at |-> now]]
      /\ call'[c] = [pc |-> step, answer |-> answer, at |-> now]
      /\ \A d \in Calls : d # c => call'[d] = call[d]
  BY DEF Step, GateInv, GateTypeOK
<1>2. GateTypeOK'
  BY <1>0, <1>1 DEF GateInv, GateTypeOK, Keeps
<1>3. ClockOK'
  BY <1>0, <1>1 DEF GateInv, ClockOK, Asking
<1>4. \A d \in Calls : IsWrite(d)' = IsWrite(d) /\ ByUser(d)' = ByUser(d)
  BY <1>0, WhoStays
<1>5. AnswerOK'
  <2>1. \A d \in Calls : call'[d].pc = "answered" /\ IsWrite(d)' /\ call'[d].answer = "allowed"
                           => call'[d].at \in permitted'
    BY <1>1, <1>4 DEF GateInv, AnswerOK, Keeps
  <2>2. \A k \in Reviewed : k[2] = "write" /\ cache'[k].was = "allowed"
                               => \E p \in permitted' : p >= cache'[k].at - 1
    BY DEF PermittedSince
  <2>3. QED
    BY <2>1, <2>2 DEF AnswerOK, PermittedSince
<1>6. LetInOK'
  BY <1>1, <1>4 DEF GateInv, LetInOK, Keeps, PermittedSince
<1>7. DestroysByNow'
  BY <1>1, <1>4 DEF GateInv, DestroysByNow, Keeps
<1>8. QED
  BY <1>2, <1>3, <1>5, <1>6, <1>7 DEF GateInv

-----------------------------------------------------------------------------
\* What is so a tick ago is not so long ago; and a longer look back sees more.
LEMMA FurtherBack ==
  ASSUME GateTypeOK, NEW s \in Int, NEW t \in Int, t <= s, PermittedSince(s)
  PROVE  PermittedSince(t)
<1>1. PICK p \in permitted : p >= s
  BY DEF PermittedSince
<1>2. p \in Nat
  BY DEF GateTypeOK
<1>3. p >= t
  BY <1>1, <1>2
<1>4. QED
  BY <1>3 DEF PermittedSince

\* Only an answer that allows lets a reviewed write in where the gate enforces.
LEMMA VerdictLetsIn ==
  ASSUME NEW c \in Calls, NEW answer, ByUser(c), Verdict(c, answer) = "run"
  PROVE  answer = "allowed"
  BY DEF Verdict, ByUser

LEMMA VerdictType ==
  ASSUME NEW c \in Calls, NEW answer
  PROVE  Verdict(c, answer) \in {"run", "refused"}
  BY DEF Verdict

LEMMA InitGate == GInit => GateInv
<1> SUFFICES ASSUME GInit
             PROVE  GateInv
  OBVIOUS
<1>1. GateTypeOK
  <2>1. gate \in Settings
    BY GateAssumption DEF GInit, SettingsKnown, Settings
  <2>2. now \in Nat /\ permitted \subseteq Nat
    BY DEF GInit
  <2>3. DOMAIN cache = Reviewed /\ \A k \in Reviewed : cache[k].at \in Nat /\ cache[k].was \in AccessAnswers
    BY DEF GInit, NoAnswer, AccessAnswers
  <2>4. call \in [Calls -> [pc : CallPcs, answer : AccessAnswers, at : Nat]]
    BY DEF GInit, NoCall, CallPcs, AccessAnswers
  <2>5. QED
    BY <2>1, <2>2, <2>3, <2>4 DEF GateTypeOK
<1>2. ClockOK /\ AnswerOK /\ LetInOK /\ DestroysByNow
  BY DEF GInit, ClockOK, AnswerOK, LetInOK, DestroysByNow, NoAnswer, NoCall, Asking
<1>3. QED
  BY <1>1, <1>2 DEF GateInv

\* A step that leaves the cache alone.
LEMMA CachedKeeps ==
  ASSUME GateInv, NEW c \in Calls, NEW step, NEW answer, Keeps(c, step, answer), Step(c, step, answer),
         UNCHANGED <<gate, may, known, reachable, now, cache, permitted>>
  PROVE  GateInv'
<1>1. /\ DOMAIN cache' = Reviewed /\ \A k \in Reviewed : cache'[k].at \in Nat /\ cache'[k].was \in AccessAnswers
      /\ \A k \in Reviewed : k[2] = "write" /\ cache'[k].was = "allowed" => PermittedSince(cache'[k].at - 1)
  BY DEF GateInv, GateTypeOK, AnswerOK
<1>2. QED
  BY <1>1, StepKeeps

-----------------------------------------------------------------------------
(* The steps of a call.                                                    *)

\* What a verdict on an answer given lately must show.
LEMMA VerdictKeeps ==
  ASSUME GateInv, NEW c \in Calls, NEW answer \in AccessAnswers,
         ByUser(c) /\ answer = "allowed" => PermittedSince(now - Ttl - 1)
  PROVE  Keeps(c, Verdict(c, answer), answer)
<1>1. Verdict(c, answer) \in {"run", "refused"}
  BY VerdictType
<1>2. ByUser(c) /\ Verdict(c, answer) = "run" => PermittedSince(now - Ttl - 1)
  BY VerdictLetsIn
<1>3. QED
  BY <1>1, <1>2 DEF Keeps, CallPcs, AccessAnswers

\* A step that neither lets in nor destroys, and says nothing.
LEMMA QuietKeeps ==
  ASSUME NEW c \in Calls, NEW step \in {"refused", "token", "access", "job", "done"}, NEW answer \in AccessAnswers
  PROVE  Keeps(c, step, answer)
  BY DEF Keeps, CallPcs, AccessAnswers

\* The one who is not a reviewed writer may do what it likes here.
LEMMA OthersKeep ==
  ASSUME NEW c \in Calls, ~ByUser(c), NEW step \in CallPcs \ {"answered"}, NEW answer \in AccessAnswers
  PROVE  Keeps(c, step, answer)
  BY DEF Keeps

LEMMA ArriveKeeps ==
  ASSUME GateInv, NEW c \in Calls, Arrive(c)
  PROVE  GateInv'
<1> DEFINE open == gate.calls[c].tls \/ gate.anonymous
           reviewed == Cred(c) = "bearer" \/ (Cred(c) = "cert" /\ IsWrite(c))
<1>1. /\ UNCHANGED <<gate, may, known, reachable, now, cache, permitted>>
      /\ \/ ~open /\ Step(c, "refused", "none")
         \/ open /\ Cred(c) = "admin" /\ Step(c, IF gate.admin THEN "run" ELSE Verdict(c, "unknown"),
                                              IF gate.admin THEN "allowed" ELSE "unknown")
         \/ open /\ Cred(c) = "none"
            /\ Step(c, IF gate.anonymous /\ ~IsWrite(c) THEN "run" ELSE Verdict(c, "none"), "none")
         \/ open /\ Cred(c) = "cert" /\ ~reviewed /\ Step(c, "run", "allowed")
         \/ open /\ reviewed /\ ~gate.kube /\ Step(c, Verdict(c, "unknown"), "unknown")
         \/ open /\ reviewed /\ gate.kube /\ Kept(Key(c)) /\ Step(c, Verdict(c, cache[Key(c)].was), cache[Key(c)].was)
         \/ open /\ reviewed /\ gate.kube /\ ~Kept(Key(c))
            /\ Step(c, IF Cred(c) = "bearer" THEN "token" ELSE "access", "none")
  BY DEF Arrive
<1>2. CASE Step(c, "refused", "none") \/ Step(c, "token", "none") \/ Step(c, "access", "none")
  BY <1>1, <1>2, QuietKeeps, CachedKeeps DEF AccessAnswers
<1>3. CASE Cred(c) \in {"admin", "none"}
  <2>1. ~ByUser(c)
    BY <1>3 DEF ByUser
  <2>2. Verdict(c, "unknown") \in CallPcs \ {"answered"} /\ Verdict(c, "none") \in CallPcs \ {"answered"}
    BY VerdictType DEF CallPcs, AccessAnswers
  <2>3. PICK step \in CallPcs \ {"answered"}, answer \in AccessAnswers : Step(c, step, answer)
    BY <1>1, <1>3, <2>2 DEF CallPcs, AccessAnswers
  <2>4. QED
    BY <1>1, <2>1, <2>3, OthersKeep, CachedKeeps
<1>4. CASE Cred(c) = "cert" /\ ~reviewed /\ Step(c, "run", "allowed")
  <2>1. ~ByUser(c)
    BY <1>4 DEF ByUser
  <2>2. QED
    BY <1>1, <1>4, <2>1, OthersKeep, CachedKeeps DEF CallPcs, AccessAnswers
<1>5. CASE Step(c, Verdict(c, "unknown"), "unknown")
  BY <1>1, <1>5, VerdictKeeps, CachedKeeps DEF AccessAnswers
<1>6. CASE reviewed /\ Kept(Key(c)) /\ Step(c, Verdict(c, cache[Key(c)].was), cache[Key(c)].was)
  <2>1. Key(c) \in Reviewed /\ (IsWrite(c) => Key(c)[2] = "write")
    BY <1>6, KeyReviewed DEF GateInv
  <2>2. ASSUME ByUser(c), cache[Key(c)].was = "allowed"
        PROVE  PermittedSince(now - Ttl - 1)
    <3>1. PermittedSince(cache[Key(c)].at - 1)
      BY <2>1, <2>2 DEF ByUser, GateInv, AnswerOK
    <3>2. now - cache[Key(c)].at < Ttl
      BY <1>6 DEF Kept
    <3>3. cache[Key(c)].at \in Nat /\ now \in Nat /\ Ttl \in Nat
      BY <2>1, GateAssumption DEF GateInv, GateTypeOK, SettingsKnown
    <3>4. QED
      BY <3>1, <3>2, <3>3, FurtherBack DEF GateInv
  <2>3. cache[Key(c)].was \in AccessAnswers
    BY <2>1 DEF GateInv, GateTypeOK
  <2>4. QED
    BY <1>1, <1>6, <2>2, <2>3, VerdictKeeps, CachedKeeps
<1>7. QED
  BY <1>1, <1>2, <1>3, <1>4, <1>5, <1>6

LEMMA AskTokenKeeps ==
  ASSUME GateInv, NEW c \in Calls, AskToken(c)
  PROVE  GateInv'
<1>1. /\ UNCHANGED <<gate, may, known, reachable, now, cache, permitted>>
      /\ \/ Step(c, Verdict(c, "unavailable"), "unavailable")
         \/ Step(c, "answered", "unknown") \/ Step(c, "access", "none")
  BY DEF AskToken
<1>2. CASE Step(c, Verdict(c, "unavailable"), "unavailable")
  BY <1>1, <1>2, VerdictKeeps, CachedKeeps DEF AccessAnswers
<1>3. CASE Step(c, "answered", "unknown")
  <2>1. Keeps(c, "answered", "unknown")
    BY DEF Keeps, CallPcs, AccessAnswers
  <2>2. QED
    BY <1>1, <1>3, <2>1, CachedKeeps
<1>4. CASE Step(c, "access", "none")
  BY <1>1, <1>4, QuietKeeps, CachedKeeps DEF AccessAnswers
<1>5. QED
  BY <1>1, <1>2, <1>3, <1>4

\* What allows a write is so when it is answered.
LEMMA AskAccessKeeps ==
  ASSUME GateInv, NEW c \in Calls, AskAccess(c)
  PROVE  GateInv'
<1>1. /\ UNCHANGED <<gate, may, known, reachable, now, cache, permitted>>
      /\ \/ Step(c, Verdict(c, "unavailable"), "unavailable")
         \/ Step(c, "answered", IF may \/ ~IsWrite(c) THEN "allowed" ELSE "denied")
  BY DEF AskAccess
<1>2. CASE Step(c, Verdict(c, "unavailable"), "unavailable")
  BY <1>1, <1>2, VerdictKeeps, CachedKeeps DEF AccessAnswers
<1>3. CASE Step(c, "answered", IF may \/ ~IsWrite(c) THEN "allowed" ELSE "denied")
  <2>1. Keeps(c, "answered", IF may \/ ~IsWrite(c) THEN "allowed" ELSE "denied")
    BY DEF Keeps, CallPcs, AccessAnswers, GateInv, ClockOK
  <2>2. QED
    BY <1>1, <1>3, <2>1, CachedKeeps
<1>4. QED
  BY <1>1, <1>2, <1>3

\* What is kept was true a tick ago at the earliest.
LEMMA DecideKeeps ==
  ASSUME GateInv, NEW c \in Calls, Decide(c)
  PROVE  GateInv'
<1> DEFINE answer == call[c].answer
<1>1. /\ call[c].pc = "answered" /\ Step(c, Verdict(c, answer), answer)
      /\ UNCHANGED <<gate, may, known, reachable, now, permitted>>
      /\ cache' = [[k \in Reviewed |-> IF Kept(k) THEN cache[k] ELSE NoAnswer]
                      EXCEPT ![Key(c)] = [at |-> now, was |-> answer]]
  BY DEF Decide
<1>2. answer \in AccessAnswers /\ call[c].at \in Nat /\ now \in Nat
  BY DEF GateInv, GateTypeOK
<1>3. ASSUME IsWrite(c), answer = "allowed"
      PROVE  PermittedSince(now - 1)
  <2>1. call[c].at \in permitted
    BY <1>1, <1>3 DEF GateInv, AnswerOK
  <2>2. now <= call[c].at + 1
    BY <1>1 DEF GateInv, ClockOK, Asking
  <2>3. call[c].at >= now - 1
    BY <1>2, <2>2
  <2>4. QED
    BY <2>1, <2>3 DEF PermittedSince
<1>4. \A k \in Reviewed : \/ cache'[k] = [at |-> now, was |-> answer] /\ k = Key(c)
                          \/ cache'[k] = cache[k] \/ cache'[k] = NoAnswer
  BY <1>1
<1>5. DOMAIN cache' = Reviewed
  BY <1>1
<1>6. \A k \in Reviewed : cache'[k].at \in Nat /\ cache'[k].was \in AccessAnswers
  BY <1>2, <1>4 DEF GateInv, GateTypeOK, NoAnswer, AccessAnswers
<1>7. ASSUME NEW k \in Reviewed, k[2] = "write", cache'[k].was = "allowed"
      PROVE  PermittedSince(cache'[k].at - 1)
  <2>1. CASE cache'[k] = [at |-> now, was |-> answer] /\ k = Key(c)
    <3>1. IsWrite(c)
      BY <1>7, <2>1 DEF Key
    <3>2. QED
      BY <1>3, <1>7, <2>1, <3>1
  <2>2. CASE cache'[k] = cache[k]
    BY <1>7, <2>2 DEF GateInv, AnswerOK
  <2>3. CASE cache'[k] = NoAnswer
    BY <1>7, <2>3 DEF NoAnswer
  <2>4. QED
    BY <1>4, <2>1, <2>2, <2>3
<1>8. ASSUME ByUser(c), answer = "allowed"
      PROVE  PermittedSince(now - Ttl - 1)
  <2>1. PermittedSince(now - 1)
    BY <1>3, <1>8 DEF ByUser
  <2>2. Ttl \in Nat
    BY GateAssumption DEF SettingsKnown
  <2>3. QED
    BY <1>2, <2>1, <2>2, FurtherBack DEF GateInv
<1>9. Keeps(c, Verdict(c, answer), answer)
  BY <1>2, <1>8, VerdictKeeps
<1>10. QED
  BY <1>1, <1>5, <1>6, <1>7, <1>9, StepKeeps

LEMMA HandleKeeps ==
  ASSUME GateInv, NEW c \in Calls, Handle(c)
  PROVE  GateInv'
<1>1. call[c].answer \in AccessAnswers
  BY DEF GateInv, GateTypeOK
<1>2. QED
  BY <1>1, QuietKeeps, CachedKeeps DEF Handle

\* What is destroyed for a reviewed caller is allowed when it is asked again.
LEMMA AskAgainKeeps ==
  ASSUME GateInv, NEW c \in Calls, AskAgain(c)
  PROVE  GateInv'
<1>1. call[c].answer \in AccessAnswers
  BY DEF GateInv, GateTypeOK
<1>2. /\ Step(c, IF Recheck(c) THEN "destroys" ELSE "refused", call[c].answer)
      /\ UNCHANGED <<gate, may, known, reachable, now, cache, permitted>>
  BY DEF AskAgain
<1>3. CASE Recheck(c)
  <2>1. ByUser(c) => may
    BY <1>3 DEF Recheck, ByUser
  <2>2. Keeps(c, "destroys", call[c].answer)
    BY <1>1, <2>1 DEF Keeps, CallPcs, GateInv, ClockOK
  <2>3. QED
    BY <1>2, <1>3, <2>2, CachedKeeps
<1>4. CASE ~Recheck(c)
  BY <1>1, <1>2, <1>4, QuietKeeps, CachedKeeps
<1>5. QED
  BY <1>3, <1>4

-----------------------------------------------------------------------------
(* The clock and the changes outside.                                      *)

\* The history grows, and what holds of it goes on holding.
LEMMA LaterKeeps ==
  ASSUME GateInv, GateKept, GateTypeOK', ClockOK', permitted \subseteq permitted', UNCHANGED <<cache, call>>
  PROVE  GateInv'
<1>1. \A c \in Calls : IsWrite(c)' = IsWrite(c) /\ ByUser(c)' = ByUser(c)
  BY WhoStays
<1>2. AnswerOK'
  BY <1>1 DEF GateInv, AnswerOK, PermittedSince
<1>3. LetInOK'
  BY <1>1 DEF GateInv, LetInOK, PermittedSince
<1>4. DestroysByNow'
  BY <1>1 DEF GateInv, DestroysByNow
<1>5. QED
  BY <1>2, <1>3, <1>4 DEF GateInv

LEMMA TickKeeps == GateInv /\ Tick => GateInv'
<1> SUFFICES ASSUME GateInv, Tick
             PROVE  GateInv'
  OBVIOUS
<1>1. /\ now' = now + 1 /\ permitted' = (IF may THEN permitted \cup {now'} ELSE permitted)
      /\ UNCHANGED <<gate, may, known, reachable, cache, call>>
      /\ \A c \in Calls : Asking(c) => call[c].at = now
  BY DEF Tick
<1>2. GateTypeOK'
  BY <1>1 DEF GateInv, GateTypeOK
<1>3. ClockOK'
  BY <1>1 DEF GateInv, GateTypeOK, ClockOK, Asking
<1>4. GateKept /\ permitted \subseteq permitted'
  BY <1>1 DEF GateKept, GateInv, GateTypeOK
<1>5. QED
  BY <1>1, <1>2, <1>3, <1>4, LaterKeeps

LEMMA ChangeKeeps == GateInv /\ ChangeOutside => GateInv'
<1> SUFFICES ASSUME GateInv, ChangeOutside
             PROVE  GateInv'
  OBVIOUS
<1>1. /\ gate' = [gate EXCEPT !.changes = gate.changes - 1] /\ gate.changes > 0
      /\ permitted' = (IF may' THEN permitted \cup {now} ELSE permitted)
      /\ UNCHANGED <<now, cache, call>>
  BY DEF ChangeOutside
<1>2. GateKept
  <2>1. gate \in Settings /\ gate.changes - 1 \in Nat
    BY <1>1 DEF GateInv, GateTypeOK, Settings
  <2>2. QED
    BY <1>1, <2>1, Zenon DEF GateKept, Settings
<1>3. GateTypeOK'
  BY <1>1, <1>2 DEF GateKept, GateInv, GateTypeOK
<1>4. ClockOK'
  BY <1>1 DEF GateInv, ClockOK, Asking
<1>5. permitted \subseteq permitted'
  BY <1>1
<1>6. QED
  BY <1>1, <1>2, <1>3, <1>4, <1>5, LaterKeeps

LEMMA NextGate == GateInv /\ [GNext]_gvars => GateInv'
<1> SUFFICES ASSUME GateInv, [GNext]_gvars
             PROVE  GateInv'
  OBVIOUS
<1>1. ASSUME NEW c \in Calls,
             Arrive(c) \/ AskToken(c) \/ AskAccess(c) \/ Decide(c) \/ Handle(c) \/ AskAgain(c)
      PROVE  GateInv'
  BY <1>1, ArriveKeeps, AskTokenKeeps, AskAccessKeeps, DecideKeeps, HandleKeeps, AskAgainKeeps
<1>2. CASE UNCHANGED gvars
  <2>1. UNCHANGED <<gate, may, now, cache, call, permitted>>
    BY <1>2 DEF gvars
  <2>2. GateTypeOK' /\ ClockOK' /\ GateKept
    BY <2>1 DEF GateInv, GateTypeOK, ClockOK, Asking, GateKept
  <2>3. QED
    BY <2>1, <2>2, LaterKeeps
<1>3. QED
  BY <1>1, <1>2, TickKeeps, ChangeKeeps DEF GNext

-----------------------------------------------------------------------------
(* The routes.                                                             *)

\* Every route that destroys is a drive operation.
LEMMA RoutesGated == \A r \in WriteRoutes : Destroys(r[1]) => Classify(r[1], r[2])[1] = "driveoperations"
  BY DEF WriteRoutes, Destroys, Classify, OpsOfDrive, DriveOps

\* What is let in was allowed within the cache's life and one review, what is
\* destroyed was allowed when the worker asked, and every route that destroys
\* is a drive operation (kubeauth.rs).
THEOREM GateHolds == GSpec => []GateOK
<1>1. GateInv => GateOK
  BY RoutesGated DEF GateInv, LetInOK, GateOK, LetsInByReview
<1>2. QED
  BY InitGate, NextGate, <1>1, PTL DEF GSpec

-----------------------------------------------------------------------------
(* A call to the engine, proved for any policy and any number of tries and   *)
(* credentials: the caller is told the truth, what may not be done twice is  *)
(* not, and the call ends in time.                                           *)
\* The counters, and the answer that ends the call and nothing before it.
CallTypeOK ==
  /\ scene \in Scenes
  /\ elapsed \in Int /\ try \in 1..Attempts /\ nth \in Nat \ {0}
  /\ timeout \in Int /\ applied \in Nat
  /\ opened \in BOOLEAN /\ turned \in BOOLEAN /\ reread \in BOOLEAN
  /\ pc \in {"try", "sent", "done"}
  /\ pc = "done" <=> result # None

\* Until the token is rotated the file holds the engine's or nothing, and a
\* token read again is the engine's.
TokenOK ==
  ~turned => /\ token = 2 /\ minted \in {None, 2}
             /\ pc = "sent" /\ reread => used = 2

\* A call that may not be repeated is not yet done while it goes on.
EffectOK == ~scene.idem => IF pc = "done" THEN applied <= 1 ELSE applied = 0

\* Requests of this try before this one that may each have taken its timeout.
Before == IF ~Ordinary THEN nth - 1 ELSE IF reread THEN 1 ELSE 0

\* A try begins before the deadline, and each of its requests ends by then,
\* but for what the earlier ones of this try took.
TimeOK ==
  /\ Ordinary => nth = 1
  /\ ~Ordinary => ~reread /\ (nth = 1 \/ nth <= Len(scene.admin))
  /\ pc = "try" => elapsed < Deadline
  /\ pc = "sent" => /\ 1 <= timeout /\ timeout <= Usual
                    /\ elapsed + timeout <= Deadline + Usual * Before
  /\ pc = "done" => elapsed <= Deadline + Usual * Before

CallInv == CallTypeOK /\ TokenOK /\ EffectOK /\ TimeOK /\ TellsTheTruth

-----------------------------------------------------------------------------
LEMMA BeforeType == CallTypeOK => Before \in Nat
  BY DEF Before, CallTypeOK

\* Room for one request more is room for its timeout.
LEMMA OneMore ==
  ASSUME NEW n \in Nat, NEW e \in Int, NEW t \in Int, t <= Usual,
         e + t <= Deadline + Usual * n
  PROVE  e + t + t <= Deadline + Usual * (n + 1)
  BY CallAssumption, SMT DEF PolicyOK

\* More requests take no less time.
LEMMA NotLess ==
  ASSUME NEW n \in Nat, NEW m \in Nat, n <= m
  PROVE  Usual * n <= Usual * m
<1> DEFINE k == m - n
<1>1. k \in Nat /\ m = n + k
  BY SMT
<1>2. Usual \in Nat
  BY CallAssumption DEF PolicyOK
<1>3. Usual * (n + k) = Usual * n + Usual * k
  BY <1>1, <1>2, SMT
<1>4. Usual * n \in Nat /\ Usual * k \in Nat
  BY <1>1, <1>2, SMT
<1>5. QED
  BY <1>1, <1>3, <1>4, SMT

\* The timeout of a try is not nothing, not more than usual, and all of what
\* is left at the most.
LEMMA TimeoutFits ==
  ASSUME elapsed \in Int, elapsed < Deadline
  PROVE  Timeout \in Int /\ 1 <= Timeout /\ Timeout <= Usual /\ elapsed + Timeout <= Deadline
  BY CallAssumption DEF PolicyOK, Timeout, Most, Least

\* A wait after a failed try is a number.
LEMMA WaitIsNumber ==
  ASSUME NEW d, NEW delay \in Jitter(d)
  PROVE  delay \in Int
  BY DEF Jitter

-----------------------------------------------------------------------------
\* No answer is none of the answers.
LEMMA NoneIsNoAnswer ==
  /\ None # "ok" /\ None # "answer" /\ None # "unauthorized" /\ None # "error" /\ None # "gave up"
  /\ None # 2
<1>1. None \notin Int
  BY NoneAssumption, Zenon
<1>2. None # 2
  BY <1>1
<1>3. None \notin {"ok", "answer", "unauthorized", "error", "gave up"}
  BY NoneAssumption, Zenon
<1>4. QED
  BY <1>2, <1>3

LEMMA InitCall == CInit => CallInv
<1> SUFFICES ASSUME CInit
             PROVE  CallInv
  OBVIOUS
<1> USE DEF CInit
<1>1. CallTypeOK
  <2>1. try \in 1..Attempts
    BY CallAssumption DEF PolicyOK
  <2>2. elapsed \in Int /\ timeout \in Int /\ nth \in Nat \ {0} /\ applied \in Nat
    OBVIOUS
  <2>3. scene \in Scenes /\ opened \in BOOLEAN /\ turned \in BOOLEAN /\ reread \in BOOLEAN
    OBVIOUS
  <2>4. pc = "try" /\ result = None
    OBVIOUS
  <2>5. QED
    BY <2>1, <2>2, <2>3, <2>4, Zenon DEF CallTypeOK
<1>2. TokenOK /\ EffectOK
  BY DEF TokenOK, EffectOK
<1>3. elapsed < Deadline
  BY CallAssumption DEF PolicyOK
<1>4. TimeOK
  BY <1>3 DEF TimeOK, Ordinary
<1>5. TellsTheTruth
  BY NoneIsNoAnswer DEF TellsTheTruth
<1>6. QED
  BY <1>1, <1>2, <1>4, <1>5 DEF CallInv

\* What a try leaves behind: the next one, before the deadline, or the end.
Ends(how, spent) ==
  pc' = "done" /\ result' = how /\ elapsed' = elapsed + spent /\ try' = try
Goes == pc' = "try" /\ result' = result /\ try' = try + 1 /\ try < Attempts
        /\ elapsed' \in Int /\ elapsed' < Deadline

LEMMA AgainGoesOrEnds ==
  ASSUME CallTypeOK, NEW floor \in Int, NEW spent \in Int, Again(floor, spent)
  PROVE  Goes \/ Ends("gave up", spent)
<1>1. PICK delay \in Jitter(Backoff(try)) :
        LET wait == Most(delay, floor)
        IN  IF try >= Attempts \/ elapsed + spent + wait >= Deadline
            THEN EndsTry("gave up", spent)
            ELSE /\ try' = try + 1 /\ pc' = "try" /\ elapsed' = elapsed + spent + wait
                 /\ UNCHANGED result
  BY DEF Again
<1>2. Most(delay, floor) \in Int
  BY <1>1, WaitIsNumber DEF Most
<1>3. CASE try >= Attempts \/ elapsed + spent + Most(delay, floor) >= Deadline
  BY <1>1, <1>3 DEF EndsTry, Ends
<1>4. CASE ~(try >= Attempts \/ elapsed + spent + Most(delay, floor) >= Deadline)
  <2>1. try \in Nat /\ Attempts \in Nat /\ Deadline \in Nat /\ elapsed \in Int
    BY CallAssumption DEF CallTypeOK, PolicyOK
  <2>2. /\ try' = try + 1 /\ pc' = "try" /\ result' = result
        /\ elapsed' = elapsed + spent + Most(delay, floor)
    BY <1>1, <1>4
  <2>3. try < Attempts
    BY <1>4, <2>1
  <2>4. elapsed + spent + Most(delay, floor) < Deadline
    BY <1>2, <1>4, <2>1
  <2>5. elapsed' \in Int /\ elapsed' < Deadline
    BY <1>2, <2>1, <2>2, <2>4
  <2>6. QED
    BY <2>2, <2>3, <2>5 DEF Goes
<1>5. QED
  BY <1>3, <1>4

-----------------------------------------------------------------------------
\* A try that begins presents the first credential, with its timeout cut.
LEMMA PresentKeeps == CallInv /\ Present => CallInv'
<1> SUFFICES ASSUME CallInv, Present
             PROVE  CallInv'
  OBVIOUS
<1> USE DEF CallInv, Present
<1>1. Timeout \in Int /\ 1 <= Timeout /\ Timeout <= Usual /\ elapsed + Timeout <= Deadline
  BY TimeoutFits DEF CallTypeOK, TimeOK
<1>2. CallTypeOK'
  <2>1. pc' = "sent" /\ result' = None
    BY DEF CallTypeOK
  <2>2. nth' \in Nat \ {0} /\ timeout' \in Int
    BY <1>1
  <2>3. try' \in 1..Attempts /\ elapsed' \in Int /\ applied' \in Nat
    BY DEF CallTypeOK
  <2>4. scene' \in Scenes /\ opened' \in BOOLEAN /\ turned' \in BOOLEAN /\ reread' \in BOOLEAN
    BY DEF CallTypeOK
  <2>5. QED
    BY <2>1, <2>2, <2>3, <2>4, Zenon DEF CallTypeOK
<1>3. TokenOK' /\ EffectOK'
  BY DEF TokenOK, EffectOK
<1>4. TellsTheTruth'
  <2>1. result' = None
    BY DEF CallTypeOK
  <2>2. QED
    BY <2>1, NoneIsNoAnswer DEF TellsTheTruth
<1>5. Before' = 0 /\ Usual * 0 = 0
  BY CallAssumption DEF Before, Ordinary, PolicyOK
<1>6. TimeOK'
  <2>1. elapsed' + timeout' <= Deadline + Usual * Before'
    BY <1>1, <1>5, CallAssumption DEF PolicyOK, CallTypeOK
  <2>2. QED
    BY <1>1, <2>1 DEF TimeOK, Ordinary
<1>7. QED
  BY <1>2, <1>3, <1>4, <1>6

\* A refused credential: the next one, the token read again, or the end.
LEMMA UnauthorizedKeeps == CallInv /\ Unauthorized => CallInv'
<1> SUFFICES ASSUME CallInv, Unauthorized
             PROVE  CallInv'
  OBVIOUS
<1> USE DEF CallInv
<1>0. /\ pc = "sent" /\ ~Taken
      /\ UNCHANGED <<scene, token, minted, timeout, applied, opened, turned>>
  BY DEF Unauthorized
<1> DEFINE Next1 == ~Ordinary /\ nth < Len(scene.admin) /\ nth' = nth + 1
                    /\ UNCHANGED <<cached, used, reread, pc, try, result>>
           Reads == /\ Ordinary /\ ~reread /\ minted \notin {None, used}
                    /\ cached' = minted /\ used' = minted /\ reread' = TRUE
                    /\ UNCHANGED <<nth, pc, try, result>>
           Stops(spent) ==
              /\ IF Ordinary THEN reread \/ minted \in {None, used} ELSE nth = Len(scene.admin)
              /\ EndsTry("unauthorized", spent)
              /\ UNCHANGED <<used, reread, nth>>
<1>1. PICK spent \in {0, timeout} :
        \/ Next1 /\ elapsed' = elapsed + spent
        \/ Reads /\ elapsed' = elapsed + spent
        \/ Stops(spent)
  BY DEF Unauthorized
<1>2. elapsed' = elapsed + spent /\ elapsed \in Int /\ timeout \in Int
      /\ elapsed' \in Int /\ elapsed' <= elapsed + timeout
  BY <1>0, <1>1 DEF EndsTry, CallTypeOK, TimeOK
<1>3. CallTypeOK'
  <2>1. \/ pc' = "sent" /\ result' = None
        \/ pc' = "done" /\ result' = "unauthorized"
    <3>1. result = None
      BY <1>0 DEF CallTypeOK
    <3>2. CASE Next1 \/ Reads
      <4>1. pc' = pc /\ result' = result
        BY <3>2
      <4>2. QED
        BY <1>0, <3>1, <4>1
    <3>3. CASE Stops(spent)
      BY <3>3 DEF EndsTry
    <3>4. QED
      BY <1>1, <3>2, <3>3
  <2>2. try' = try /\ (nth' = nth \/ nth' = nth + 1)
    BY <1>1 DEF EndsTry
  <2>3. try' \in 1..Attempts /\ timeout' \in Int /\ applied' \in Nat /\ nth' \in Nat \ {0}
    BY <1>0, <2>2 DEF CallTypeOK
  <2>4. scene' \in Scenes /\ opened' \in BOOLEAN /\ turned' \in BOOLEAN /\ reread' \in BOOLEAN
    BY <1>0, <1>1 DEF CallTypeOK
  <2>5. pc' \in {"try", "sent", "done"} /\ (pc' = "done" <=> result' # None)
    BY <2>1, NoneIsNoAnswer
  <2>6. QED
    BY <1>2, <2>3, <2>4, <2>5, Zenon DEF CallTypeOK
<1>4. TokenOK'
  BY <1>0, <1>1 DEF TokenOK, EndsTry
<1>5. EffectOK'
  BY <1>0, <1>1 DEF EffectOK, EndsTry
<1>6. TellsTheTruth'
  <2>1. CASE Stops(spent)
    <3>1. ASSUME Ordinary, ~turned
          PROVE  minted # token
      <4>1. used # token /\ token = 2
        BY <1>0, <3>1 DEF Taken, TokenOK
      <4>2. minted \in {None, used}
        BY <1>0, <2>1, <3>1, <4>1 DEF TokenOK
      <4>3. QED
        BY <4>1, <4>2, NoneIsNoAnswer
    <3>2. result' = "unauthorized" /\ (~scene.idem => applied = 0)
      BY <1>0, <2>1 DEF EndsTry, EffectOK
    <3>3. QED
      BY <1>0, <3>1, <3>2 DEF TellsTheTruth, Ordinary
  <2>2. CASE Next1 \/ Reads
    <3>1. result' = None
      BY <1>0, <2>2 DEF CallTypeOK
    <3>2. QED
      BY <3>1, NoneIsNoAnswer DEF TellsTheTruth
  <2>3. QED
    BY <1>1, <2>1, <2>2
<1>7. Before \in Nat
  BY DEF Before, CallTypeOK
<1>8. TimeOK'
  <2>1. CASE Next1
    <3>1. Before' = Before + 1
      BY <1>0, <2>1 DEF Before, Ordinary, CallTypeOK
    <3>2. elapsed + timeout + timeout <= Deadline + Usual * (Before + 1)
      BY <1>0, <1>7, OneMore DEF TimeOK, CallTypeOK
    <3>3. elapsed' + timeout <= Deadline + Usual * Before'
      BY <1>2, <3>1, <3>2, <1>7, CallAssumption DEF PolicyOK
    <3>4. QED
      BY <1>0, <2>1, <3>3 DEF TimeOK, Ordinary, CallTypeOK
  <2>2. CASE Reads
    <3>1. Before = 0 /\ Before' = 1 
      BY <1>0, <2>2 DEF Before, Ordinary, CallTypeOK
    <3>2. elapsed + timeout + timeout <= Deadline + Usual * (Before + 1)
      BY <1>0, <1>7, OneMore DEF TimeOK, CallTypeOK
    <3>3. elapsed' + timeout <= Deadline + Usual * Before'
      BY <1>2, <3>1, <3>2, <1>7, CallAssumption DEF PolicyOK
    <3>4. QED
      BY <1>0, <2>2, <3>3 DEF TimeOK, Ordinary, CallTypeOK
  <2>3. CASE Stops(spent)
    <3>1. Before' = Before
      BY <1>0, <2>3 DEF Before, Ordinary
    <3>2. elapsed' <= Deadline + Usual * Before'
      BY <1>0, <1>2, <1>7, <3>1, CallAssumption DEF TimeOK, PolicyOK
    <3>3. pc' = "done" /\ Ordinary' = Ordinary /\ UNCHANGED <<scene, nth, reread>>
      BY <1>0, <2>3 DEF EndsTry, Ordinary
    <3>4. QED
      BY <3>2, <3>3 DEF TimeOK
  <2>4. QED
    BY <1>1, <2>1, <2>2, <2>3
<1>9. QED
  BY <1>3, <1>4, <1>5, <1>6, <1>8

-----------------------------------------------------------------------------
\* What the engine's answer or its silence leaves: the counts of what it did.
EffectType == applied' \in Nat /\ opened' \in BOOLEAN

\* A try that failed and is followed by another one.
LEMMA GoesKeeps ==
  ASSUME CallInv, Sent, Goes, EffectType, ~scene.idem => applied' = applied
  PROVE  CallInv'
<1> USE DEF CallInv, Goes
<1>1. /\ pc = "sent" /\ pc' = "try" /\ result' = result /\ try' = try + 1
      /\ UNCHANGED <<scene, token, minted, cached, used, reread, nth, timeout, turned>>
  BY DEF Sent
<1>2. result' = None
  BY <1>1 DEF CallTypeOK
<1>3. CallTypeOK'
  <2>1. try' \in 1..Attempts
    BY CallAssumption DEF CallTypeOK, PolicyOK
  <2>2. elapsed' \in Int /\ timeout' \in Int /\ nth' \in Nat \ {0}
    BY <1>1 DEF CallTypeOK
  <2>3. scene' \in Scenes /\ turned' \in BOOLEAN /\ reread' \in BOOLEAN
    BY <1>1 DEF CallTypeOK
  <2>4. pc' \in {"try", "sent", "done"} /\ (pc' = "done" <=> result' # None)
    BY <1>1, <1>2
  <2>5. QED
    BY <2>1, <2>2, <2>3, <2>4, Zenon DEF CallTypeOK, EffectType
<1>4. TokenOK'
  BY <1>1 DEF TokenOK
<1>5. EffectOK'
  BY <1>1 DEF EffectOK
<1>6. TimeOK'
  BY <1>1 DEF TimeOK, Ordinary
<1>7. TellsTheTruth'
  BY <1>2, NoneIsNoAnswer DEF TellsTheTruth
<1>8. QED
  BY <1>3, <1>4, <1>5, <1>6, <1>7

CallAnswers == {"ok", "answer", "error", "gave up"}

\* A try that ends the call, by its timeout.
LEMMA EndsKeeps ==
  ASSUME CallInv, Sent, NEW how \in CallAnswers, NEW spent \in Int, spent <= timeout, Ends(how, spent),
         EffectType, DoneOnce', TellsTheTruth'
  PROVE  CallInv'
<1> USE DEF CallInv
<1>1. /\ pc = "sent" /\ pc' = "done" /\ result' = how /\ try' = try /\ elapsed' = elapsed + spent
      /\ UNCHANGED <<scene, token, minted, cached, used, reread, nth, timeout, turned>>
  BY DEF Sent, Ends
<1>2. how # None
  BY NoneIsNoAnswer DEF CallAnswers
<1>3. CallTypeOK'
  <2>1. try' \in 1..Attempts /\ timeout' \in Int /\ nth' \in Nat \ {0}
    BY <1>1 DEF CallTypeOK
  <2>0. elapsed' \in Int
    <3>1. elapsed \in Int
      BY DEF CallTypeOK
    <3>2. QED
      BY <1>1, <3>1
  <2>2. scene' \in Scenes /\ turned' \in BOOLEAN /\ reread' \in BOOLEAN
    BY <1>1 DEF CallTypeOK
  <2>3. pc' \in {"try", "sent", "done"} /\ (pc' = "done" <=> result' # None)
    BY <1>1, <1>2
  <2>4. QED
    BY <2>1, <2>0, <2>2, <2>3, Zenon DEF CallTypeOK, EffectType
<1>4. TokenOK'
  BY <1>1 DEF TokenOK
<1>5. EffectOK'
  BY <1>1 DEF EffectOK, DoneOnce
<1>6. TimeOK'
  <2>1. Before' = Before /\ Ordinary' = Ordinary
    <3>1. Ordinary' = Ordinary
      BY <1>1 DEF Ordinary
    <3>2. nth' = nth /\ reread' = reread
      BY <1>1
    <3>3. QED
      BY <3>1, <3>2 DEF Before
  <2>2. Before \in Nat
    BY BeforeType
  <2>3. Usual * Before \in Nat /\ Deadline \in Nat
    BY <2>2, CallAssumption DEF PolicyOK
  <2>4. elapsed + timeout <= Deadline + Usual * Before
    BY <1>1 DEF TimeOK
  <2>5. elapsed \in Int /\ timeout \in Int
    BY DEF CallTypeOK
  <2>6. elapsed' <= Deadline + Usual * Before
    BY <1>1, <2>3, <2>4, <2>5
  <2>7. elapsed' <= Deadline + Usual * Before'
    BY <2>1, <2>6
  <2>8. QED
    BY <1>1, <2>1, <2>7 DEF TimeOK
<1>7. QED
  BY <1>3, <1>4, <1>5, <1>6

\* Giving up and an error tell nothing of what was done.
LEMMA SilenceIsTrue ==
  ASSUME result' \in {"gave up", "error"}
  PROVE  TellsTheTruth'
  BY DEF TellsTheTruth

-----------------------------------------------------------------------------
\* What a failed try may be followed by.
LEMMA AgainKeeps ==
  ASSUME CallInv, Sent, NEW floor \in Int, NEW spent \in Int, spent <= timeout, Again(floor, spent),
         EffectType, ~scene.idem => applied' = applied
  PROVE  CallInv'
<1>1. CASE Goes
  BY <1>1, GoesKeeps
<1>2. CASE Ends("gave up", spent)
  <2>1. ~scene.idem => applied = 0
    BY DEF CallInv, EffectOK, Sent
  <2>2. DoneOnce'
    BY <2>1 DEF DoneOnce, Sent
  <2>3. TellsTheTruth'
    BY <1>2, SilenceIsTrue DEF Ends
  <2>4. "gave up" \in CallAnswers
    BY DEF CallAnswers
  <2>5. QED
    BY <1>2, <2>2, <2>3, <2>4, EndsKeeps
<1>3. QED
  BY <1>1, <1>2, AgainGoesOrEnds DEF CallInv

LEMMA SentTimeout ==
  ASSUME CallInv, Sent
  PROVE  timeout \in Int /\ 1 <= timeout
  BY DEF CallInv, CallTypeOK, TimeOK, Sent

LEMMA KeepsEffect ==
  ASSUME CallInv, UNCHANGED <<applied, opened>>
  PROVE  EffectType
  BY DEF CallInv, CallTypeOK, EffectType

LEMMA DoesEffect ==
  ASSUME CallInv, Does, scene \in Scenes
  PROVE  EffectType
<1>1. applied' \in Nat
  BY DEF Does, CallInv, CallTypeOK
<1>2. opened' \in BOOLEAN
  BY Zenon DEF Does
<1>3. QED
  BY <1>1, <1>2 DEF EffectType

LEMMA UnreachedKeeps == CallInv /\ Unreached => CallInv'
<1> SUFFICES ASSUME CallInv, Unreached
             PROVE  CallInv'
  OBVIOUS
<1>1. Sent /\ Again(0, 1) /\ UNCHANGED <<applied, opened>>
  BY DEF Unreached
<1>2. 1 <= timeout
  BY <1>1, SentTimeout
<1>3. applied' = applied /\ 0 \in Int /\ 1 \in Int
  BY <1>1
<1>4. QED
  BY <1>1, <1>2, <1>3, KeepsEffect, AgainKeeps

LEMMA TooManyKeeps == CallInv /\ TooMany => CallInv'
<1> SUFFICES ASSUME CallInv, TooMany
             PROVE  CallInv'
  OBVIOUS
<1>1. PICK a \in RetryAfters : Again(a, 0)
  BY DEF TooMany
<1>2. Sent /\ UNCHANGED <<applied, opened>>
  BY DEF TooMany
<1>3. 0 <= timeout
  BY <1>2, SentTimeout
<1>4. a \in Int /\ 0 \in Int /\ applied' = applied
  BY <1>2, CallAssumption DEF PolicyOK
<1>5. QED
  BY <1>1, <1>2, <1>3, <1>4, KeepsEffect, AgainKeeps

\* Nothing is heard: done or not, and sent again only when that does no harm.
LEMMA UnansweredKeeps == CallInv /\ Unanswered => CallInv'
<1> SUFFICES ASSUME CallInv, Unanswered
             PROVE  CallInv'
  OBVIOUS
<1>1. Sent /\ Lost(timeout) /\ (Does \/ UNCHANGED <<applied, opened>>)
  BY DEF Unanswered
<1>2. EffectType
  BY <1>1, DoesEffect, KeepsEffect DEF CallInv, CallTypeOK
<1>3. timeout \in Int /\ timeout <= timeout /\ 0 \in Int
  BY <1>1, SentTimeout
<1>4. CASE scene.idem
  BY <1>1, <1>2, <1>3, <1>4, AgainKeeps DEF Lost
<1>5. CASE ~scene.idem
  <2>1. Ends("error", timeout)
    BY <1>1, <1>5 DEF Lost, EndsTry, Ends
  <2>2. applied = 0
    BY <1>1, <1>5 DEF CallInv, EffectOK, Sent
  <2>3. DoneOnce'
    BY <1>1, <2>2 DEF DoneOnce, Does
  <2>4. TellsTheTruth' /\ "error" \in CallAnswers
    BY <2>1, SilenceIsTrue DEF Ends, CallAnswers
  <2>5. QED
    BY <1>1, <1>2, <1>3, <2>1, <2>3, <2>4, EndsKeeps
<1>6. QED
  BY <1>4, <1>5

\* A refusal; or, of a drive that an earlier try closed, success.
LEMMA AnsweredKeeps == CallInv /\ Answered => CallInv'
<1> SUFFICES ASSUME CallInv, Answered
             PROVE  CallInv'
  OBVIOUS
<1> DEFINE how == IF NotFound /\ try > 1 THEN "ok" ELSE "answer"
<1>1. Sent /\ EndsTry(how, 0) /\ UNCHANGED <<applied, opened>>
  BY DEF Answered
<1>2. EffectType
  BY <1>1, KeepsEffect
<1>3. 0 <= timeout /\ 0 \in Int /\ how \in CallAnswers
  BY <1>1, SentTimeout DEF CallAnswers
<1>4. ~scene.idem => applied = 0
  BY <1>1 DEF CallInv, EffectOK, Sent
<1>5. DoneOnce' /\ scene' = scene
  BY <1>1, <1>4 DEF DoneOnce, Sent
<1>6. TellsTheTruth'
  <2>1. result' = how
    BY <1>1 DEF EndsTry
  <2>2. CASE NotFound /\ try > 1
    <3>1. scene'.closes /\ ~opened' /\ result' = "ok"
      BY <1>1, <1>5, <2>1, <2>2 DEF NotFound
    <3>2. QED
      BY <3>1 DEF TellsTheTruth
  <2>3. CASE ~(NotFound /\ try > 1)
    <3>1. result' = "answer" /\ (~scene'.idem => applied' = 0)
      BY <1>1, <1>4, <1>5, <2>1, <2>3
    <3>2. QED
      BY <3>1 DEF TellsTheTruth
  <2>4. QED
    BY <2>2, <2>3
<1>7. Ends(how, 0)
  BY <1>1 DEF Ends, EndsTry
<1>8. QED
  BY <1>1, <1>2, <1>3, <1>5, <1>6, <1>7, EndsKeeps

\* Done, and the answer heard or its body lost.
LEMMA SucceedsKeeps == CallInv /\ Succeeds => CallInv'
<1> SUFFICES ASSUME CallInv, Succeeds
             PROVE  CallInv'
  OBVIOUS
<1>1. Sent /\ Does /\ (EndsTry("ok", 0) \/ EndsTry("error", timeout))
  BY DEF Succeeds
<1>2. EffectType
  BY <1>1, DoesEffect DEF CallInv, CallTypeOK
<1>3. timeout \in Int /\ 0 <= timeout /\ timeout <= timeout /\ 0 \in Int
  BY <1>1, SentTimeout
<1>4. ~scene.idem => applied = 0
  BY <1>1 DEF CallInv, EffectOK, Sent
<1>5. scene' = scene /\ applied' = applied + 1 /\ applied \in Nat
  BY <1>1 DEF Sent, Does, CallInv, CallTypeOK
<1>6. DoneOnce'
  BY <1>4, <1>5 DEF DoneOnce
<1>7. CASE EndsTry("ok", 0)
  <2>1. result' = "ok" /\ Ends("ok", 0)
    BY <1>7 DEF EndsTry, Ends
  <2>2. applied' > 0
    BY <1>5
  <2>3. scene'.closes => ~opened'
    BY <1>1, <1>5 DEF Does
  <2>4. TellsTheTruth'
    BY <2>1, <2>2, <2>3 DEF TellsTheTruth
  <2>5. "ok" \in CallAnswers
    BY DEF CallAnswers
  <2>6. QED
    BY <1>1, <1>2, <1>3, <1>6, <2>1, <2>4, <2>5, EndsKeeps
<1>8. CASE EndsTry("error", timeout)
  <2>1. TellsTheTruth' /\ "error" \in CallAnswers /\ Ends("error", timeout)
    BY <1>8, SilenceIsTrue DEF EndsTry, Ends, CallAnswers
  <2>2. QED
    BY <1>1, <1>2, <1>3, <1>6, <2>1, EndsKeeps
<1>9. QED
  BY <1>1, <1>7, <1>8

LEMMA RotateKeeps == CallInv /\ Rotate => CallInv'
<1> SUFFICES ASSUME CallInv, Rotate
             PROVE  CallInv'
  OBVIOUS
<1>1. /\ pc # "done" /\ turned' = TRUE
      /\ UNCHANGED <<scene, cached, used, reread, nth, pc, try, elapsed, timeout, applied, opened, result>>
  BY DEF Rotate
<1>2. CallTypeOK'
  BY <1>1 DEF CallInv, CallTypeOK
<1>3. TokenOK' /\ EffectOK'
  BY <1>1 DEF CallInv, TokenOK, EffectOK
<1>4. TimeOK'
  BY <1>1 DEF CallInv, TimeOK, Before, Ordinary
<1>5. TellsTheTruth'
  <2>1. result' = None
    BY <1>1 DEF CallInv, CallTypeOK
  <2>2. QED
    BY <2>1, NoneIsNoAnswer DEF TellsTheTruth
<1>6. QED
  BY <1>2, <1>3, <1>4, <1>5 DEF CallInv

LEMMA NextCall == CallInv /\ [CNext]_cvars => CallInv'
<1> SUFFICES ASSUME CallInv, [CNext]_cvars
             PROVE  CallInv'
  OBVIOUS
<1>1. CASE UNCHANGED cvars
  BY <1>1 DEF cvars, CallInv, CallTypeOK, TokenOK, EffectOK, TimeOK, Before, TellsTheTruth, Ordinary
<1>2. QED
  BY <1>1, PresentKeeps, UnauthorizedKeeps, UnreachedKeeps, UnansweredKeeps, TooManyKeeps,
     AnsweredKeeps, SucceedsKeeps, RotateKeeps DEF CNext

-----------------------------------------------------------------------------
\* The invariant says that the call ends in time.
LEMMA InTime == CallInv => EndsInTime
<1> SUFFICES ASSUME CallInv
             PROVE  EndsInTime
  OBVIOUS
<1> DEFINE K == IF Ordinary THEN 1 ELSE Len(scene.admin) - 1
<1>1. Before \in Nat /\ Deadline \in Nat /\ elapsed \in Int /\ timeout \in Int /\ Usual \in Nat
  BY BeforeType, CallAssumption DEF CallInv, PolicyOK, CallTypeOK
<1>2. K \in Nat /\ Before <= K
  <2>1. CASE Ordinary
    BY <2>1 DEF Before
  <2>2. CASE ~Ordinary
    <3>1. scene.admin \in Seq(BOOLEAN) /\ scene.admin # <<>>
      BY <2>2, CallAssumption DEF CallInv, CallTypeOK, PolicyOK, Ordinary
    <3>2. Len(scene.admin) \in Nat /\ Len(scene.admin) >= 1
      BY <3>1
    <3>3. nth \in Nat /\ nth <= Len(scene.admin)
      BY <2>2, <3>2 DEF CallInv, CallTypeOK, TimeOK
    <3>4. QED
      BY <2>2, <3>2, <3>3 DEF Before
  <2>3. QED
    BY <2>1, <2>2
<1>3. Usual * Before <= Usual * K /\ Usual * Before \in Nat /\ Usual * K \in Nat
  BY <1>1, <1>2, NotLess
<1>4. elapsed <= Deadline + Usual * Before
  <2>1. CASE pc = "try"
    BY <2>1, <1>1, <1>3 DEF CallInv, TimeOK
  <2>2. CASE pc = "sent"
    <3>1. 1 <= timeout /\ elapsed + timeout <= Deadline + Usual * Before
      BY <2>2 DEF CallInv, TimeOK
    <3>2. QED
      BY <1>1, <1>3, <3>1
  <2>3. CASE pc = "done"
    BY <2>3 DEF CallInv, TimeOK
  <2>4. QED
    BY <2>1, <2>2, <2>3 DEF CallInv, CallTypeOK
<1>5. elapsed <= Deadline + Usual * K
  BY <1>1, <1>3, <1>4
<1>6. ASSUME Ordinary => ~reread, nth = 1
      PROVE  elapsed <= Deadline
  <2>1. Before = 0 /\ Usual * 0 = 0
    BY <1>1, <1>6 DEF Before
  <2>2. QED
    BY <1>1, <1>4, <2>1
<1>7. try <= Attempts
  BY CallAssumption DEF CallInv, CallTypeOK, PolicyOK
<1>8. QED
  BY <1>5, <1>6, <1>7 DEF EndsInTime

\* The caller is told the truth, what may not be done twice is not, and the
\* call ends in time (stormblock.rs and retry/src/lib.rs).
THEOREM CallsHold == CSpec => []CallOK
<1>1. CallInv => CallOK
  BY InTime DEF CallInv, CallOK, EffectOK, DoneOnce, CallTypeOK
<1>2. QED
  BY InitCall, NextCall, <1>1, PTL DEF CSpec

-----------------------------------------------------------------------------
(* The services together.                                                  *)

ServicesInv == StoreKept /\ JournalInv /\ ImagesInv /\ GateInv /\ CallInv
servicesVars == <<service, svars, jvars, imvars, gvars, cvars>>

LEMMA ServicesStart == ServicesInit => ServicesInv
  BY InitStoreKept, InitJournals, InitImages, InitGate, InitCall DEF ServicesInit, ServicesInv

\* A step of the services is a step of one of them, and of the others none.
LEMMA ServicesStep ==
  ASSUME [ServicesNext]_servicesVars
  PROVE  [SNext]_svars /\ [JNext]_jvars /\ [ImNext]_imvars /\ [GNext]_gvars /\ [CNext]_cvars
  BY DEF ServicesNext, servicesVars

LEMMA ServicesGoOn == ServicesInv /\ [ServicesNext]_servicesVars => ServicesInv'
<1> SUFFICES ASSUME ServicesInv, [ServicesNext]_servicesVars
             PROVE  ServicesInv'
  OBVIOUS
<1>1. [SNext]_svars /\ [JNext]_jvars /\ [ImNext]_imvars /\ [GNext]_gvars /\ [CNext]_cvars
  BY ServicesStep
<1>2. StoreKept' /\ JournalInv' /\ ImagesInv'
  BY <1>1, NextStoreKept, NextJournals, NextImages DEF ServicesInv
<1>3. GateInv' /\ CallInv'
  BY <1>1, NextGate, NextCall DEF ServicesInv
<1>4. QED
  BY <1>2, <1>3 DEF ServicesInv

LEMMA ServicesHold == ServicesSpec => []ServicesInv
<1>1. ServicesInv /\ [ServicesNext]_servicesVars => ServicesInv'
  BY ServicesGoOn
<1>2. QED
  BY <1>1, ServicesStart, PTL DEF ServicesSpec, servicesVars

\* Whatever is kept stays as it was told, in every service: event numbers go
\* on, no growth of a counter is missed, an image is one whole upload
\* (events.rs, history.rs, api/mod.rs).
THEOREM ServicesKeepAsTold == ServicesSpec => []KeptAsTold
<1>1. ServicesInv => KeptAsTold
  BY KeptIsOK, JournalIsOK, ImagesAreOK DEF ServicesInv, StoreKept, KeptAsTold
<1>2. QED
  BY <1>1, ServicesHold, PTL

\* Nothing that was kept is lost: not by a failed save, a kill, a stop or a
\* start (inventory.rs, main.rs), nor by an append or a turn of the month
\* (history.rs).
THEOREM ServicesLoseNothing == ServicesSpec => NothingKeptIsLost
<1>1. ServicesInv /\ [ServicesNext]_servicesVars =>
        [\A f \in Files : file[f].now.what = "garbage" /\ file'[f].now.what # "garbage"
             => f \in aside' \union refused \/ Cardinality(file[f].may) > 1]_svars
  BY ServicesStep, StepKeepsFiles DEF ServicesInv
<1>2. ServicesInv /\ [ServicesNext]_servicesVars =>
        [main = "exit" /\ main' = "down" /\ budget' = budget =>
             \A f \in Files \ failed : file[f].now.n >= owed[f]]_svars
  BY ServicesStep, StepKeepsFiles DEF ServicesInv
<1>3. ServicesInv /\ [ServicesNext]_servicesVars =>
        [\A j \in DOMAIN dir, m \in Months : m + KeepMonths > month =>
             \A i \in DOMAIN dir[j][m] : dir[j][m][i].what # "open" =>
                i \in DOMAIN dir'[j][m] /\ dir'[j][m][i] = dir[j][m][i]]_jvars
  BY ServicesStep, StepKeepsLines DEF ServicesInv
<1>4. QED
  BY <1>1, <1>2, <1>3, ServicesHold, PTL
  DEF ServicesSpec, servicesVars, NothingKeptIsLost, NothingLost, UnreadableIsKept, StopKeepsAll, EarlierKept
=============================================================================
