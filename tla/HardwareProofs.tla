--------------------------- MODULE HardwareProofs ---------------------------
(***************************************************************************)
(* The shelf's indicators, the firmware of drives and of a shelf's IOMs:   *)
(* what the runs check of each holds for any shelves, drives and requests. *)
(* For each part the invariant that is kept by every step, the lemmas      *)
(* about its actions, and what follows from it; at the end the theorems.   *)
(***************************************************************************)
EXTENDS Hardware, FiniteSetTheorems, SequenceTheorems, TLAPS

-----------------------------------------------------------------------------
(* Indicators.  A request is for the element it was meant for unless the     *)
(* shelf was changed since the report it was made on; a page taken then      *)
(* leaves the bay's fault LED as it is, or is the fleet loop's own.          *)
Order == PageOrder(Layouts[hw.layout])
Raws == [status : {"ok"}, ident : BOOLEAN, fault : BOOLEAN, off : BOOLEAN, sensed : {FALSE}, predicted : {FALSE},
         flagged : {FALSE}, overtemp : {FALSE}, overlimit : {FALSE}, bay : {Bay}, address : {None}]
Answers == BOOLEAN \union {None}
Items == {"identify", "faultLed", "drive"}
HardwareIs(h) ==
    /\ h = [layout |-> h.layout, generation |-> h.generation, raw |-> h.raw]
    /\ h.layout \in DOMAIN Layouts /\ h.generation \in Nat
    /\ h.raw \in [DOMAIN PageOrder(Layouts[h.layout]) -> Raws]

\* A report of this generation shows the elements where they are.
Shows(els) ==
    \A p \in DOMAIN els :
        /\ p \in DOMAIN Order /\ els[p].type = Order[p].type /\ els[p].overall = Order[p].overall
        /\ ~els[p].overall /\ els[p].type \in Slots => els[p].bay = Order[p].index
ReportHolds(r) ==
    r # None => /\ r.generation \in Nat /\ r.generation <= hw.generation
                /\ \A p \in DOMAIN r.elements : p \in Nat
                /\ r.generation = hw.generation => Shows(r.elements)

WriteIs(q) ==
    /\ q = [pc |-> q.pc, op |-> q.op, on |-> q.on, pos |-> q.pos, type |-> q.type, left |-> q.left,
            generation |-> q.generation, page |-> q.page, of |-> q.of]
    /\ q.pc \in {"read", "send"} /\ q.op \in {"ident", "fault", "power"} /\ q.on \in BOOLEAN
    /\ q.type \in Slots \union {"enclosure"} /\ q.generation \in Nat /\ q.page \in Raws
\* A request made on a report of this generation is for the element it was meant for.
Placed(w, q) ==
    /\ q.generation <= hw.generation /\ (w = "fleet" => q.op = "fault")
    /\ q.generation = hw.generation =>
          /\ q.pos \in DOMAIN Order /\ Order[q.pos].type = q.type
          /\ w = "fleet" => q.pos = BayIn(Order)
          /\ w # "fleet" /\ q.op = "fault" => q.pos # BayIn(Order)
WriteHolds(w) == write[w] = Idle \/ (WriteIs(write[w]) /\ Placed(w, write[w]))
PassIs(a) ==
    /\ a = [pc |-> "leds", rep |-> a.rep, spec |-> a.spec, todo |-> a.todo]
    /\ a.spec \in [Leds2 \union {"drive"} -> Answers] /\ a.todo \in Seq(Items) /\ a.rep # None
PassHolds == pass = Idle \/ (PassIs(pass) /\ ReportHolds(pass.rep))

EnclosureTyped ==
    /\ HardwareIs(hw)
    /\ spec \in [Leds2 \union {"drive"} -> Answers] /\ sent \in [Leds2 -> Answers] /\ applied \in Answers
    /\ failed \in BOOLEAN /\ lit \in BOOLEAN /\ mixed \in BOOLEAN
    /\ DOMAIN write = Writers
    /\ write["node"] # Idle => pass # Idle /\ pass.todo # <<>>
EnclosureInv ==
    /\ EnclosureTyped /\ ReportHolds(rep) /\ PassHolds
    /\ \A w \in Writers : WriteHolds(w)
    /\ FaultBayIsLit

LEMMA SmallestOf ==
    ASSUME NEW S \in SUBSET Nat, S # {}
    PROVE  \E m \in S : \A x \in S : m <= x
<1> DEFINE upTo == {0 .. n : n \in S}
<1>1. IsWellFoundedOn(StrictSubsetOrdering(Nat), FiniteSubsetsOf(Nat))
    BY FS_StrictSubsetOrderingWellFounded
<1>2. upTo \subseteq FiniteSubsetsOf(Nat)
  <2>1. \A n \in S : IsFiniteSet(0 .. n) /\ 0 .. n \subseteq Nat
      BY FS_Interval
  <2> QED
      BY <2>1 DEF FiniteSubsetsOf
<1>3. upTo # {}
    OBVIOUS
<1> HIDE DEF upTo
<1>4. PICK b \in upTo : \A c \in upTo : ~ (<<c, b>> \in StrictSubsetOrdering(Nat))
    BY <1>1, <1>2, <1>3, WFMin, Zenon
<1> USE DEF upTo
<1>5. PICK m \in S : b = 0 .. m
    OBVIOUS
<1>6. ASSUME NEW x \in S, x < m PROVE FALSE
  <2>1. 0 .. x \in upTo /\ 0 .. x \subseteq b /\ 0 .. x # b
      BY <1>5, <1>6
  <2>2. <<0 .. x, b>> \in StrictSubsetOrdering(Nat)
      BY <1>2, <1>5, <2>1 DEF StrictSubsetOrdering, FiniteSubsetsOf
  <2> QED
      BY <1>4, <2>1, <2>2
<1> QED
    BY <1>6

LEMMA MinOf ==
    ASSUME NEW S \in SUBSET Nat, S # {}
    PROVE  Min(S) \in S /\ \A x \in S : Min(S) <= x
<1>1. PICK m \in S : \A x \in S : m =< x
    BY SmallestOf
<1> QED
    BY <1>1 DEF Min

LEMMA FirstIs ==
    ASSUME NEW S \in SUBSET Nat PROVE FirstOf(S) = None \/ FirstOf(S) \in S
    BY MinOf DEF FirstOf

\* The bay of a shelf is one element of it.
LEMMA BayIsThere ==
    ASSUME NEW l \in DOMAIN Layouts
    PROVE  LET order == PageOrder(Layouts[l])
           IN  /\ ShelfOrder(order) /\ BayIn(order) \in DOMAIN order /\ IsBay(order[BayIn(order)])
               /\ \A p \in DOMAIN order : IsBay(order[p]) => p = BayIn(order)
<1> DEFINE order == PageOrder(Layouts[l])
<1>1. ShelfOrder(order)
    BY LayoutsAssumption
<1> HIDE DEF order
<1>2. \E p \in DOMAIN order : IsBay(order[p])
    BY <1>1 DEF ShelfOrder
<1>3. BayIn(order) \in DOMAIN order /\ IsBay(order[BayIn(order)])
    BY <1>2 DEF BayIn
<1>4. \A p \in DOMAIN order : IsBay(order[p]) => p = BayIn(order)
    BY <1>1, <1>3 DEF ShelfOrder
<1> QED
    BY <1>1, <1>3, <1>4 DEF order

\* What is read of an element is what the configuration says it is.
LEMMA DecodedAs ==
    ASSUME NEW header, NEW raw
    PROVE  /\ Decode(header, raw).type = header.type /\ Decode(header, raw).overall = header.overall
           /\ ~header.overall /\ header.type = "array device slot" => Decode(header, raw).bay = header.index
    BY DEF Decode

LEMMA ReportShows ==
    ASSUME HardwareIs(hw), NEW there
    PROVE  ReportHolds(ReportOf(there, hw.layout, hw.generation, hw.raw))
<1> DEFINE r == ReportOf(there, hw.layout, hw.generation, hw.raw)
           n == Len(Order)
<1>1. r.generation = hw.generation /\ hw.generation \in Nat /\ r.elements = DecodeStatus(Layouts[hw.layout], hw.raw)
    BY DEF ReportOf, HardwareIs
<1>2. ShelfOrder(Order) /\ hw.raw \in [DOMAIN Order -> Raws]
    BY BayIsThere DEF Order, HardwareIs
<1>3. n \in Nat /\ DOMAIN Order = 1 .. n
    BY <1>2 DEF ShelfOrder
<1>4. hw.raw \in Seq(Raws)
    BY <1>2, <1>3, SeqDef
<1>5. Len(hw.raw) \in Nat
    BY <1>4
<1> DEFINE m == Min({Len(Order), Len(hw.raw)})
<1>6. m \in {n, Len(hw.raw)} /\ \A x \in {n, Len(hw.raw)} : m <= x
    BY <1>3, <1>5, MinOf
<1>7. r.elements = [p \in 1 .. m |-> Decode(Order[p], hw.raw[p])]
    BY <1>1 DEF DecodeStatus, Order
<1> HIDE DEF r, n, m
<1>8. 1 .. m \subseteq 1 .. n
    BY <1>3, <1>5, <1>6
<1>9. DOMAIN r.elements = 1 .. m /\ \A p \in 1 .. m : r.elements[p] = Decode(Order[p], hw.raw[p])
    BY <1>7
<1>10. Shows(r.elements)
  <2> SUFFICES ASSUME NEW p \in 1 .. m
               PROVE  /\ p \in DOMAIN Order /\ r.elements[p].type = Order[p].type /\ r.elements[p].overall = Order[p].overall
                      /\ ~r.elements[p].overall /\ r.elements[p].type \in Slots => r.elements[p].bay = Order[p].index
      BY <1>9 DEF Shows
  <2>1. p \in DOMAIN Order
      BY <1>3, <1>8
  <2>2. r.elements[p].type = Order[p].type /\ r.elements[p].overall = Order[p].overall
        /\ (~Order[p].overall /\ Order[p].type = "array device slot" => r.elements[p].bay = Order[p].index)
    <3>1. r.elements[p] = Decode(Order[p], hw.raw[p])
        BY <1>9
    <3> QED
      <4>1. /\ Decode(Order[p], hw.raw[p]).type = Order[p].type /\ Decode(Order[p], hw.raw[p]).overall = Order[p].overall
            /\ ~Order[p].overall /\ Order[p].type = "array device slot" => Decode(Order[p], hw.raw[p]).bay = Order[p].index
          BY DecodedAs, Zenon
      <4> QED
          BY <3>1, <4>1, Zenon
  <2>3. Order[p].type \in Slots => Order[p].type = "array device slot"
      BY <1>2, <2>1 DEF ShelfOrder, Slots
  <2> QED
      BY <2>1, <2>2, <2>3
<1>11. \A p \in DOMAIN r.elements : p \in Nat
    BY <1>9, <1>6, <1>3, <1>5
<1>12. ReportHolds(r)
    BY <1>1, <1>10, <1>11 DEF ReportHolds, r
<1> QED
    BY <1>12 DEF r

\* A request made on a report is for the bay, or for the enclosure itself.
LEMMA RequestIs ==
    ASSUME HardwareIs(hw), NEW r, r # None, ReportHolds(r), NEW op \in {"ident", "fault", "power"},
           NEW target \in {None, Bay}, NEW on \in BOOLEAN, NEW w \in Writers,
           IF target = Bay THEN op = "fault" => w = "fleet" ELSE w # "fleet", w = "fleet" => op = "fault"
    PROVE  LET q == Request(op, target, on, r)
           IN  q # None => WriteIs(q) /\ Placed(w, q) /\ q.op = op /\ q.on = on
<1> DEFINE els == r.elements
           pos == IF target = None THEN FindEnclosure(els) ELSE FindSlot(els, target)
           q == Request(op, target, on, r)
<1> SUFFICES ASSUME q # None PROVE WriteIs(q) /\ Placed(w, q) /\ q.op = op /\ q.on = on
    OBVIOUS
<1>1. pos # None /\ q = [pc |-> "read", op |-> op, on |-> on, pos |-> pos, type |-> els[pos].type, left |-> Len(r.esps),
                         generation |-> r.generation, page |-> Quiet, of |-> r.generation]
    BY DEF Request
<1>2. Bay # None
    BY LayoutsAssumption
<1>3. \A p \in DOMAIN els : p \in Nat
    BY DEF ReportHolds
<1>4. CASE target = Bay
  <2> DEFINE found == {p \in DOMAIN els : ~els[p].overall /\ els[p].type \in Slots /\ els[p].bay = Bay}
  <2>1. pos \in found
    <3>1. pos = FirstOf(found)
        BY <1>2, <1>4 DEF FindSlot
    <3>2. found \in SUBSET Nat
        BY <1>3
    <3> HIDE DEF found, pos
    <3> QED
        BY <1>1, <3>1, <3>2, FirstIs
  <2>2. pos \in DOMAIN els /\ ~els[pos].overall /\ els[pos].type \in Slots /\ els[pos].bay = Bay
      BY <2>1
  <2> HIDE DEF pos, els, found, q
  <2>3. WriteIs(q) /\ q.op = op /\ q.on = on /\ q.generation = r.generation /\ q.pos = pos /\ q.type = els[pos].type
      BY <1>1, <2>2 DEF WriteIs, Raws, Quiet, ReportHolds
  <2>4. r.generation = hw.generation =>
          pos \in DOMAIN Order /\ Order[pos].type = els[pos].type /\ pos = BayIn(Order)
    <3> SUFFICES ASSUME r.generation = hw.generation
                 PROVE  pos \in DOMAIN Order /\ Order[pos].type = els[pos].type /\ pos = BayIn(Order)
        OBVIOUS
    <3>1. /\ pos \in DOMAIN Order /\ els[pos].type = Order[pos].type /\ els[pos].overall = Order[pos].overall
          /\ els[pos].bay = Order[pos].index
        BY <2>2 DEF ReportHolds, Shows, els
    <3>2. ShelfOrder(Order) /\ \A p \in DOMAIN Order : IsBay(Order[p]) => p = BayIn(Order)
        BY BayIsThere DEF HardwareIs, Order
    <3>3. Order[pos].type = "array device slot"
        BY <2>2, <3>1, <3>2 DEF Slots, ShelfOrder
    <3>4. IsBay(Order[pos])
        BY <2>2, <3>1, <3>3 DEF IsBay
    <3> QED
        BY <3>1, <3>2, <3>4
  <2>5. Placed(w, q)
    <3>1. w = "fleet" => q.op = "fault"
        BY <2>3
    <3>2. ~(w # "fleet" /\ q.op = "fault")
        BY <1>4, <2>3
    <3>3. q.generation <= hw.generation
        BY <2>3 DEF ReportHolds
    <3> QED
        BY <2>3, <2>4, <3>1, <3>2, <3>3 DEF Placed
  <2> QED
      BY <2>3, <2>5 DEF q
<1>5. CASE target # Bay
  <2> DEFINE found == {p \in DOMAIN els : els[p].type = "enclosure"}
             own == {p \in found : ~els[p].overall}
  <2>0. target = None /\ w # "fleet"
      BY <1>2, <1>5
  <2>1. pos \in found
    <3>1. pos = FirstOf(IF own # {} THEN own ELSE found)
        BY <2>0 DEF FindEnclosure
    <3>2. found \in SUBSET Nat /\ own \in SUBSET found
        BY <1>3
    <3> HIDE DEF found, own, pos
    <3>3. CASE own # {}
        BY <1>1, <3>1, <3>2, <3>3, FirstIs
    <3>4. CASE own = {}
        BY <1>1, <3>1, <3>2, <3>4, FirstIs
    <3> QED
        BY <3>3, <3>4
  <2>2. pos \in DOMAIN els /\ els[pos].type = "enclosure"
      BY <2>1
  <2> HIDE DEF pos, els, found, own, q
  <2>3. WriteIs(q) /\ q.op = op /\ q.on = on /\ q.generation = r.generation /\ q.pos = pos /\ q.type = els[pos].type
      BY <1>1, <2>2 DEF WriteIs, Raws, Quiet, ReportHolds
  <2>4. r.generation = hw.generation =>
          pos \in DOMAIN Order /\ Order[pos].type = els[pos].type /\ pos # BayIn(Order)
    <3> SUFFICES ASSUME r.generation = hw.generation
                 PROVE  pos \in DOMAIN Order /\ Order[pos].type = els[pos].type /\ pos # BayIn(Order)
        OBVIOUS
    <3>1. pos \in DOMAIN Order /\ els[pos].type = Order[pos].type
        BY <2>2 DEF ReportHolds, Shows, els
    <3>2. IsBay(Order[BayIn(Order)])
        BY BayIsThere DEF HardwareIs, Order
    <3> QED
        BY <2>2, <3>1, <3>2 DEF IsBay
  <2>5. Placed(w, q)
    <3>1. q.generation <= hw.generation
        BY <2>3 DEF ReportHolds
    <3> QED
        BY <2>0, <2>3, <2>4, <3>1 DEF Placed
  <2> QED
      BY <2>3, <2>5 DEF q
<1> QED
    BY <1>4, <1>5

\* A step that leaves the shelf and what is recorded of its bay.
LEMMA ShelfStays ==
    ASSUME EnclosureInv, UNCHANGED <<hw, lit, mixed>>, EnclosureTyped', ReportHolds(rep)', PassHolds',
           \A w \in Writers : WriteHolds(w)'
    PROVE  EnclosureInv'
<1>1. FaultBayIsLit'
    BY DEF EnclosureInv, FaultBayIsLit, SlotNow
<1> QED
    BY <1>1 DEF EnclosureInv

\* Of the shelf a report, a pass and a request rest on its generation and what it is made of.
LEMMA ReportStays ==
    ASSUME ReportHolds(rep), hw'.generation = hw.generation, hw'.layout = hw.layout, rep' = rep PROVE ReportHolds(rep)'
    BY DEF ReportHolds, Shows, Order
LEMMA PassStays ==
    ASSUME PassHolds, hw'.generation = hw.generation, hw'.layout = hw.layout,
           pass' = pass \/ (PassIs(pass') /\ pass'.rep = pass.rep /\ pass # Idle)
    PROVE  PassHolds'
<1>1. CASE pass' = pass
    BY <1>1 DEF PassHolds, ReportHolds, Shows, Order
<1>2. CASE PassIs(pass') /\ pass'.rep = pass.rep /\ pass # Idle
    BY <1>2 DEF PassHolds, ReportHolds, Shows, Order
<1> QED
    BY <1>1, <1>2
LEMMA WriteStays ==
    ASSUME NEW w \in Writers, WriteHolds(w), hw'.generation = hw.generation, hw'.layout = hw.layout, write'[w] = write[w]
    PROVE  WriteHolds(w)'
    BY DEF WriteHolds, Placed, Order

\* A request is made, or refused at once.
LEMMA Begins ==
    ASSUME EnclosureInv, NEW w \in Writers, write[w] = Idle, NEW q, q # None => WriteIs(q) /\ Placed(w, q),
           Begin(w, q), hw' = hw
    PROVE  /\ DOMAIN write' = Writers /\ \A v \in Writers : WriteHolds(v)'
           /\ \A v \in Writers : v # w => write'[v] = write[v]
<1>1. DOMAIN write = Writers /\ \A v \in Writers : WriteHolds(v)
    BY DEF EnclosureInv, EnclosureTyped
<1>2. DOMAIN write' = Writers /\ \A v \in Writers : v # w => write'[v] = write[v]
    BY <1>1 DEF Begin
<1>3. WriteHolds(w)'
  <2>1. CASE q = None
      BY <1>1, <2>1 DEF Begin, WriteHolds
  <2>2. CASE q # None
    <3>1. write'[w] = q /\ WriteIs(q) /\ Placed(w, q)
        BY <1>1, <2>2 DEF Begin
    <3> QED
        BY <3>1 DEF WriteHolds, Placed, Order
  <2> QED
      BY <2>1, <2>2
<1>4. \A v \in Writers : v # w => WriteHolds(v)'
    BY <1>1, <1>2, WriteStays
<1> QED
    BY <1>2, <1>3, <1>4

\* What the requesters note of the outcome.
LEMMA ConcludedIs ==
    ASSUME EnclosureInv, NEW w \in Writers, write[w] # Idle, NEW ok \in BOOLEAN, Concluded(w, ok)
    PROVE  /\ sent' \in [Leds2 -> Answers] /\ applied' \in Answers /\ lit' \in BOOLEAN
           /\ lit' = IF w = "fleet" /\ ok THEN write[w].on ELSE lit
           /\ w # "node" => pass' = pass
           /\ w = "node" => PassIs(pass') /\ pass'.rep = pass.rep /\ pass # Idle
<1>1. WriteHolds(w) /\ EnclosureTyped /\ PassHolds
    BY DEF EnclosureInv
<1>2. write[w].on \in BOOLEAN
    BY <1>1 DEF WriteHolds, WriteIs
<1>3. CASE w = "api"
    BY <1>1, <1>3 DEF Concluded, EnclosureTyped
<1>4. CASE w = "fleet"
    BY <1>1, <1>2, <1>4 DEF Concluded, EnclosureTyped
<1>5. CASE w = "node"
  <2>1. PassIs(pass) /\ pass # Idle /\ pass.todo # <<>>
      BY <1>1, <1>5 DEF PassHolds, EnclosureTyped
  <2> DEFINE todo == pass.todo
  <2>2. todo \in Seq(Items) /\ todo # <<>>
      BY <2>1 DEF PassIs
  <2> HIDE DEF todo
  <2>3. todo[1] \in Items /\ Tail(todo) \in Seq(Items)
      BY <2>2
  <2>4. IF todo[1] = "drive" THEN applied' = write[w].on /\ sent' = sent
        ELSE sent' = [sent EXCEPT ![todo[1]] = write[w].on] /\ applied' = applied
      BY <1>5 DEF Concluded, todo
  <2>5. pass' = [pass EXCEPT !.todo = Tail(todo)] /\ lit' = lit
      BY <1>5 DEF Concluded, todo
  <2>6. sent' \in [Leds2 -> Answers] /\ applied' \in Answers
    <3>1. sent \in [Leds2 -> Answers] /\ applied \in Answers /\ write[w].on \in Answers
        BY <1>1, <1>2 DEF EnclosureTyped, Answers
    <3>2. CASE todo[1] = "drive"
        BY <3>1, <3>2, <2>4
    <3>3. CASE todo[1] # "drive"
      <4>1. todo[1] \in Leds2
          BY <2>3, <3>3 DEF Items, Leds2
      <4> QED
          BY <3>1, <3>3, <4>1, <2>4
    <3> QED
        BY <3>2, <3>3
  <2>7. PassIs(pass') /\ pass'.rep = pass.rep
    <3> DEFINE a == pass
               rest == Tail(todo)
    <3>1. a = [pc |-> "leds", rep |-> a.rep, spec |-> a.spec, todo |-> a.todo]
          /\ a.spec \in [Leds2 \union {"drive"} -> Answers] /\ a.rep # None
        BY <2>1 DEF PassIs
    <3> HIDE DEF a, rest
    <3>2. [a EXCEPT !.todo = rest] = [pc |-> "leds", rep |-> a.rep, spec |-> a.spec, todo |-> rest]
        BY <3>1
    <3>3. pass' = [pc |-> "leds", rep |-> pass.rep, spec |-> pass.spec, todo |-> rest]
        BY <2>5, <3>2 DEF a, rest
    <3> QED
        BY <2>3, <3>1, <3>3 DEF PassIs, a, rest
  <2> QED
      BY <1>1, <1>5, <2>1, <2>5, <2>6, <2>7 DEF EnclosureTyped
<1> QED
    BY <1>3, <1>4, <1>5 DEF Writers

LEMMA LastLost ==
    ASSUME EnclosureInv, NEW w \in Writers, write[w] # Idle, write' = [write EXCEPT ![w] = Idle], Concluded(w, FALSE),
           UNCHANGED <<hw, rep, spec, failed, budget, mixed>>
    PROVE  EnclosureInv'
<1>1. EnclosureTyped /\ ReportHolds(rep) /\ PassHolds /\ \A v \in Writers : WriteHolds(v)
    BY DEF EnclosureInv
<1>2. /\ sent' \in [Leds2 -> Answers] /\ applied' \in Answers /\ lit' = lit
      /\ w # "node" => pass' = pass
      /\ w = "node" => PassIs(pass') /\ pass'.rep = pass.rep /\ pass # Idle
    BY ConcludedIs
<1>3. DOMAIN write' = Writers /\ write'[w] = Idle /\ \A v \in Writers : v # w => write'[v] = write[v]
    BY <1>1 DEF EnclosureTyped
<1>4. EnclosureTyped'
  <2>1. write'["node"] # Idle => pass' # Idle /\ pass'.todo # <<>>
      BY <1>1, <1>2, <1>3 DEF EnclosureTyped, Writers
  <2> QED
      BY <1>1, <1>2, <1>3, <2>1 DEF EnclosureTyped
<1>5. ReportHolds(rep)'
    BY <1>1, ReportStays
<1>6. PassHolds'
    BY <1>1, <1>2, PassStays
<1>7. ASSUME NEW v \in Writers PROVE WriteHolds(v)'
  <2>1. CASE v = w
      BY <1>3, <2>1 DEF WriteHolds
  <2>2. CASE v # w
      BY <1>1, <1>3, <2>2, WriteStays
  <2> QED
      BY <2>1, <2>2
<1> QED
    BY <1>2, <1>4, <1>5, <1>6, <1>7, ShelfStays

\* A request goes on to another page or another ESP.
LEMMA GoesOn ==
    ASSUME EnclosureInv, NEW w \in Writers, write[w] # Idle, NEW q, write' = [write EXCEPT ![w] = q],
           WriteIs(q), q.generation = write[w].generation, q.pos = write[w].pos, q.type = write[w].type, q.op = write[w].op,
           UNCHANGED <<hw, rep, spec, sent, applied, failed, lit, pass, budget, mixed>>
    PROVE  EnclosureInv'
<1>1. EnclosureTyped /\ ReportHolds(rep) /\ PassHolds /\ \A v \in Writers : WriteHolds(v)
    BY DEF EnclosureInv
<1>2. DOMAIN write' = Writers /\ write'[w] = q /\ \A v \in Writers : v # w => write'[v] = write[v]
    BY <1>1 DEF EnclosureTyped
<1>3. EnclosureTyped'
    BY <1>1, <1>2 DEF EnclosureTyped, Writers
<1>4. ReportHolds(rep)' /\ PassHolds'
    BY <1>1, ReportStays, PassStays
<1>5. WriteHolds(w)'
  <2>1. Placed(w, write[w])
      BY <1>1 DEF WriteHolds
  <2>2. Placed(w, q)
      BY <2>1 DEF Placed
  <2> QED
      BY <1>2, <2>2 DEF WriteHolds, Placed, Order
<1>6. \A v \in Writers : WriteHolds(v)'
    BY <1>1, <1>2, <1>5, WriteStays
<1> QED
    BY <1>3, <1>4, <1>6, ShelfStays

LEMMA UnansweredHolds ==
    ASSUME EnclosureInv, NEW w \in Writers, Unanswered(w) PROVE EnclosureInv'
<1>1. write[w] # Idle /\ WriteIs(write[w])
    BY DEF Unanswered, Idle, EnclosureInv, WriteHolds
<1>2. CASE write[w].left > 1
  <2> DEFINE q == [[write[w] EXCEPT !.pc = "read"] EXCEPT !.left = write[w].left - 1]
  <2>1. write' = [write EXCEPT ![w] = q]
      BY <1>2 DEF Unanswered
  <2>2. WriteIs(q) /\ q.generation = write[w].generation /\ q.pos = write[w].pos /\ q.type = write[w].type /\ q.op = write[w].op
    <3> DEFINE b == write[w]
    <3>1. WriteIs(b)
        BY <1>1
    <3> HIDE DEF b
    <3> DEFINE c == [b EXCEPT !.pc = "read"]
    <3>2. c = [pc |-> "read", op |-> b.op, on |-> b.on, pos |-> b.pos, type |-> b.type, left |-> b.left,
               generation |-> b.generation, page |-> b.page, of |-> b.of]
        BY <3>1 DEF WriteIs
    <3> HIDE DEF c
    <3>3. [c EXCEPT !.left = b.left - 1] =
             [pc |-> "read", op |-> b.op, on |-> b.on, pos |-> b.pos, type |-> b.type, left |-> b.left - 1,
              generation |-> b.generation, page |-> b.page, of |-> b.of]
        BY <3>2
    <3>4. q = [c EXCEPT !.left = b.left - 1]
        BY DEF b, c
    <3>5. q = [pc |-> "read", op |-> b.op, on |-> b.on, pos |-> b.pos, type |-> b.type, left |-> b.left - 1,
              generation |-> b.generation, page |-> b.page, of |-> b.of]
        BY <3>3, <3>4
    <3> HIDE DEF q
    <3> DEFINE n == b.left - 1
    <3> HIDE DEF n
    <3>6. q = [pc |-> "read", op |-> b.op, on |-> b.on, pos |-> b.pos, type |-> b.type, left |-> n,
              generation |-> b.generation, page |-> b.page, of |-> b.of]
        BY <3>5 DEF n
    <3>7. WriteIs(q) /\ q.generation = b.generation /\ q.pos = b.pos /\ q.type = b.type /\ q.op = b.op
        BY <3>1, <3>6 DEF WriteIs
    <3> QED
        BY <3>7 DEF b
  <2> HIDE DEF q
  <2> QED
      BY <1>1, <1>2, <2>1, <2>2, GoesOn DEF Unanswered
<1>3. CASE ~(write[w].left > 1)
    BY <1>1, <1>3, LastLost DEF Unanswered
<1> QED
    BY <1>2, <1>3

LEMMA ReadHolds ==
    ASSUME EnclosureInv, NEW w \in Writers, ReadPage(w) PROVE EnclosureInv'
<1>1. write[w] # Idle /\ WriteIs(write[w])
    BY DEF ReadPage, Idle, EnclosureInv, WriteHolds
<1> DEFINE page == hw.raw[write[w].pos]
<1>2. page \in Raws
    BY DEF ReadPage, EnclosureInv, EnclosureTyped, HardwareIs
<1> DEFINE q == [[[write[w] EXCEPT !.pc = "send"] EXCEPT !.page = page] EXCEPT !.of = hw.generation]
<1>3. write' = [write EXCEPT ![w] = q]
    BY DEF ReadPage
<1> HIDE DEF page
<1>4. WriteIs(q) /\ q.generation = write[w].generation /\ q.pos = write[w].pos /\ q.type = write[w].type /\ q.op = write[w].op
  <2> DEFINE b == write[w]
             g == hw.generation
  <2>1. WriteIs(b)
      BY <1>1
  <2> HIDE DEF b, g
  <2> DEFINE c == [b EXCEPT !.pc = "send"]
             e == [c EXCEPT !.page = page]
  <2>2. c = [pc |-> "send", op |-> b.op, on |-> b.on, pos |-> b.pos, type |-> b.type, left |-> b.left,
             generation |-> b.generation, page |-> b.page, of |-> b.of]
      BY <2>1 DEF WriteIs
  <2> HIDE DEF c
  <2>3. e = [pc |-> "send", op |-> b.op, on |-> b.on, pos |-> b.pos, type |-> b.type, left |-> b.left,
             generation |-> b.generation, page |-> page, of |-> b.of]
      BY <2>2
  <2> HIDE DEF e
  <2>4. [e EXCEPT !.of = g] = [pc |-> "send", op |-> b.op, on |-> b.on, pos |-> b.pos, type |-> b.type, left |-> b.left,
                               generation |-> b.generation, page |-> page, of |-> g]
      BY <2>3
  <2>5. q = [e EXCEPT !.of = g]
      BY DEF b, c, e, g
  <2> HIDE DEF q
  <2>6. WriteIs(q) /\ q.generation = b.generation /\ q.pos = b.pos /\ q.type = b.type /\ q.op = b.op
      BY <1>2, <2>1, <2>4, <2>5 DEF WriteIs
  <2> QED
      BY <2>6 DEF b
<1> HIDE DEF q
<1> QED
    BY <1>1, <1>3, <1>4, GoesOn DEF ReadPage

\* The shelf after a page: one element's indicators as the page says.
LEMMA PageTaken ==
    ASSUME EnclosureInv, NEW w \in Writers, SendPage(w)
    PROVE  LET q == write[w]
               bits == ControlBits(q.op, q.type, q.page, q.on)
           IN  /\ HardwareIs(hw') /\ hw'.layout = hw.layout /\ hw'.generation = hw.generation
               /\ \A p \in DOMAIN hw.raw : p # q.pos => hw'.raw[p] = hw.raw[p]
               /\ q.pos \in DOMAIN hw.raw => /\ hw'.raw[q.pos].ident = bits.ident /\ hw'.raw[q.pos].fault = bits.fault
                                             /\ hw'.raw[q.pos].off = bits.off
               /\ bits.fault = (IF q.op = "fault" THEN q.on ELSE q.page.fault)
               /\ bits.ident = (IF q.op = "ident" THEN q.on ELSE q.page.ident)
<1> DEFINE q == write[w]
           bits == ControlBits(q.op, q.type, q.page, q.on)
           elem == [[[hw.raw[q.pos] EXCEPT !.ident = bits.ident] EXCEPT !.fault = bits.fault] EXCEPT !.off = bits.off]
<1>1. WriteIs(q) /\ HardwareIs(hw)
    BY DEF SendPage, Idle, EnclosureInv, WriteHolds, EnclosureTyped
<1>2. hw' = [hw EXCEPT !.raw = [hw.raw EXCEPT ![q.pos] = elem]]
    BY DEF SendPage
<1>3. /\ bits.fault = (IF q.op = "fault" THEN q.on ELSE q.page.fault)
      /\ bits.ident = (IF q.op = "ident" THEN q.on ELSE q.page.ident)
      /\ bits.off \in BOOLEAN
  <2>1. q.op \in {"ident", "fault", "power"} /\ q.type \in Slots \union {"enclosure"}
        /\ q.on \in BOOLEAN /\ q.page.fault \in BOOLEAN /\ q.page.ident \in BOOLEAN
      BY <1>1 DEF WriteIs, Raws
  <2> HIDE DEF q
  <2>2. CASE q.op = "ident"
      BY <2>1, <2>2 DEF ControlBits, IdentBits
  <2>3. CASE q.op = "fault"
      BY <2>1, <2>3 DEF ControlBits, FaultBits
  <2>4. CASE q.op = "power"
      BY <2>1, <2>4 DEF ControlBits, PowerBits
  <2> QED
      BY <2>1, <2>2, <2>3, <2>4
<1>4. q.on \in BOOLEAN /\ q.page.fault \in BOOLEAN /\ q.page.ident \in BOOLEAN
    BY <1>1 DEF WriteIs, Raws
<1>5. bits.ident \in BOOLEAN /\ bits.fault \in BOOLEAN /\ bits.off \in BOOLEAN
    BY <1>3, <1>4
<1> HIDE DEF bits
<1>6. q.pos \in DOMAIN hw.raw => elem \in Raws /\ elem.ident = bits.ident /\ elem.fault = bits.fault /\ elem.off = bits.off
  <2> SUFFICES ASSUME q.pos \in DOMAIN hw.raw
               PROVE  elem \in Raws /\ elem.ident = bits.ident /\ elem.fault = bits.fault /\ elem.off = bits.off
      OBVIOUS
  <2>1. hw.raw[q.pos] \in Raws
      BY <1>1 DEF HardwareIs
  <2> QED
      BY <1>5, <2>1 DEF Raws
<1> HIDE DEF elem
<1> DEFINE raw == [hw.raw EXCEPT ![q.pos] = elem]
<1>7. /\ raw \in [DOMAIN PageOrder(Layouts[hw.layout]) -> Raws]
      /\ \A p \in DOMAIN hw.raw : p # q.pos => raw[p] = hw.raw[p]
      /\ q.pos \in DOMAIN hw.raw => raw[q.pos] = elem
    BY <1>1, <1>6 DEF HardwareIs
<1> HIDE DEF raw
<1>8. hw' = [layout |-> hw.layout, generation |-> hw.generation, raw |-> raw]
    BY <1>1, <1>2 DEF HardwareIs, raw
<1>9. HardwareIs(hw')
    BY <1>1, <1>7, <1>8 DEF HardwareIs
<1> QED
    BY <1>3, <1>6, <1>7, <1>8, <1>9 DEF bits

LEMMA PageHolds ==
    ASSUME EnclosureInv, NEW w \in Writers, SendPage(w) PROVE EnclosureInv'
<1> DEFINE q == write[w]
<1>1. EnclosureTyped /\ ReportHolds(rep) /\ PassHolds /\ (\A v \in Writers : WriteHolds(v)) /\ FaultBayIsLit
    BY DEF EnclosureInv
<1>2. q # Idle /\ WriteIs(q) /\ Placed(w, q)
    BY <1>1 DEF SendPage, Idle, WriteHolds
<1>3. /\ HardwareIs(hw') /\ hw'.layout = hw.layout /\ hw'.generation = hw.generation
      /\ \A p \in DOMAIN hw.raw : p # q.pos => hw'.raw[p] = hw.raw[p]
      /\ q.pos \in DOMAIN hw.raw => hw'.raw[q.pos].fault = IF q.op = "fault" THEN q.on ELSE q.page.fault
    BY PageTaken
<1>4. /\ sent' \in [Leds2 -> Answers] /\ applied' \in Answers /\ lit' \in BOOLEAN
      /\ lit' = IF w = "fleet" THEN q.on ELSE lit
      /\ pass' = pass \/ (PassIs(pass') /\ pass'.rep = pass.rep /\ pass # Idle)
      /\ w # "node" => pass' = pass
    BY <1>2, ConcludedIs DEF SendPage
<1>5. DOMAIN write' = Writers /\ write'[w] = Idle /\ \A v \in Writers : v # w => write'[v] = write[v]
    BY <1>1 DEF SendPage, EnclosureTyped
<1>6. /\ UNCHANGED <<rep, spec, failed>> /\ mixed' = (mixed \/ hw.raw[q.pos] # q.page \/ q.generation # hw.generation)
    BY DEF SendPage
<1>7. mixed' \in BOOLEAN
    BY <1>6
<1>8. EnclosureTyped'
  <2>1. write'["node"] # Idle => pass' # Idle /\ pass'.todo # <<>>
      BY <1>1, <1>4, <1>5 DEF EnclosureTyped, Writers
  <2> QED
      BY <1>1, <1>3, <1>4, <1>5, <1>6, <1>7, <2>1 DEF EnclosureTyped
<1>9. ReportHolds(rep)' /\ PassHolds'
    BY <1>1, <1>3, <1>4, <1>6, ReportStays, PassStays
<1>10. ASSUME NEW v \in Writers PROVE WriteHolds(v)'
  <2>1. CASE v = w
      BY <1>5, <2>1 DEF WriteHolds
  <2>2. CASE v # w
      BY <1>1, <1>3, <1>5, <2>2, WriteStays
  <2> QED
      BY <2>1, <2>2
<1>11. FaultBayIsLit'
  <2> DEFINE bay == BayIn(Order)
  <2> SUFFICES ASSUME ~mixed' PROVE hw'.raw[bay].fault = lit'
      BY <1>3 DEF FaultBayIsLit, SlotNow, Order
  <2>1. ~mixed /\ hw.raw[q.pos] = q.page /\ q.generation = hw.generation
      BY <1>6
  <2>2. hw.raw[bay].fault = lit
      BY <1>1, <2>1 DEF FaultBayIsLit, SlotNow, Order
  <2>3. bay \in DOMAIN hw.raw
      BY <1>1, BayIsThere DEF EnclosureTyped, HardwareIs, Order
  <2>4. /\ w = "fleet" => q.pos = bay /\ q.op = "fault"
        /\ w # "fleet" /\ q.op = "fault" => q.pos # bay
      BY <1>2, <2>1 DEF Placed
  <2> HIDE DEF bay, q
  <2>5. CASE q.pos = bay
    <3>1. hw'.raw[bay].fault = IF q.op = "fault" THEN q.on ELSE q.page.fault
        BY <1>3, <2>3, <2>5
    <3>2. CASE q.op = "fault"
        BY <1>4, <2>4, <2>5, <3>1, <3>2
    <3>3. CASE q.op # "fault"
        BY <1>4, <2>1, <2>2, <2>4, <2>5, <3>1, <3>3
    <3> QED
        BY <3>2, <3>3
  <2>6. CASE q.pos # bay
      BY <1>3, <1>4, <2>2, <2>3, <2>4, <2>6
  <2> QED
      BY <2>5, <2>6
<1> QED
    BY <1>8, <1>9, <1>10, <1>11 DEF EnclosureInv

LEMMA RequestsHold ==
    ASSUME EnclosureInv, NEW op \in {"ident", "power"}, NEW target \in {None, Bay}, NEW on \in BOOLEAN, Ask(op, target, on)
    PROVE  EnclosureInv'
<1> DEFINE q == Request(op, target, on, rep)
<1>1. EnclosureTyped /\ ReportHolds(rep) /\ PassHolds /\ write["api"] = Idle /\ rep # None /\ Begin("api", q)
      /\ UNCHANGED <<hw, rep, spec, sent, applied, failed, lit, pass, mixed>>
    BY DEF EnclosureInv, Ask
<1>2. HardwareIs(hw) /\ Bay # None
    BY <1>1, LayoutsAssumption DEF EnclosureTyped
<1>3. q # None => WriteIs(q) /\ Placed("api", q)
    BY <1>1, <1>2, RequestIs DEF Writers
<1> HIDE DEF q
<1>4. /\ DOMAIN write' = Writers /\ \A v \in Writers : WriteHolds(v)'
      /\ \A v \in Writers : v # "api" => write'[v] = write[v]
    BY <1>1, <1>3, Begins DEF Writers
<1>5. EnclosureTyped'
    BY <1>1, <1>4 DEF EnclosureTyped, Writers
<1> QED
    BY <1>1, <1>4, <1>5, ShelfStays, ReportStays, PassStays

LEMMA SyncHolds ==
    ASSUME EnclosureInv, SyncFaultLeds PROVE EnclosureInv'
<1>1. PICK on \in BOOLEAN : Begin("fleet", Request("fault", Bay, on, rep))
  <2> DEFINE on == Bay \in FailedMemberBays({[state |-> IF failed THEN "failed" ELSE "active", drive |-> "drive", label |-> None]},
                                            "drive" :> Bay)
  <2>1. on \in BOOLEAN /\ Begin("fleet", Request("fault", Bay, on, rep))
      BY DEF SyncFaultLeds
  <2> QED
      BY <2>1
<1> DEFINE q == Request("fault", Bay, on, rep)
<1>2. EnclosureTyped /\ ReportHolds(rep) /\ PassHolds /\ write["fleet"] = Idle /\ rep # None /\ Begin("fleet", q)
      /\ UNCHANGED <<hw, rep, spec, sent, applied, failed, lit, pass, mixed>>
    BY <1>1 DEF EnclosureInv, SyncFaultLeds
<1>3. HardwareIs(hw) /\ Bay # None
    BY <1>2, LayoutsAssumption DEF EnclosureTyped
<1>4. q # None => WriteIs(q) /\ Placed("fleet", q)
    BY <1>2, <1>3, RequestIs DEF Writers
<1> HIDE DEF q
<1>5. /\ DOMAIN write' = Writers /\ \A v \in Writers : WriteHolds(v)'
      /\ \A v \in Writers : v # "fleet" => write'[v] = write[v]
    BY <1>2, <1>4, Begins DEF Writers
<1>6. EnclosureTyped'
    BY <1>2, <1>5 DEF EnclosureTyped, Writers
<1> QED
    BY <1>2, <1>5, <1>6, ShelfStays, ReportStays, PassStays

LEMMA StartPassHolds ==
    ASSUME EnclosureInv, StartPass PROVE EnclosureInv'
<1>1. EnclosureTyped /\ ReportHolds(rep) /\ (\A v \in Writers : WriteHolds(v)) /\ pass = Idle /\ rep # None
      /\ UNCHANGED <<hw, rep, spec, applied, failed, lit, write, budget, mixed>>
    BY DEF EnclosureInv, StartPass
<1>2. pass' = [pc |-> "leds", rep |-> rep, spec |-> spec, todo |-> <<"identify", "faultLed", "drive">>]
    BY DEF StartPass
<1>3. sent' \in [Leds2 -> Answers]
  <2>1. sent' = [l \in Leds2 |-> IF sent[l] # None /\ sent[l] = Leds(rep)[l] THEN None ELSE sent[l]]
      BY DEF StartPass
  <2>2. \A l \in Leds2 : sent[l] \in Answers /\ None \in Answers
      BY <1>1 DEF EnclosureTyped, Answers
  <2> QED
      BY <2>1, <2>2
<1>4. PassIs(pass')
  <2>1. <<"identify", "faultLed", "drive">> \in Seq(Items)
      BY DEF Items
  <2>2. spec \in [Leds2 \union {"drive"} -> Answers]
      BY <1>1 DEF EnclosureTyped
  <2> QED
      BY <1>1, <1>2, <2>1, <2>2 DEF PassIs
<1>5. PassHolds'
    BY <1>1, <1>2, <1>4 DEF PassHolds, ReportHolds, Shows, Order
<1>6. EnclosureTyped'
    BY <1>1, <1>3 DEF EnclosureTyped
<1>7. \A v \in Writers : WriteHolds(v)'
    BY <1>1, WriteStays
<1> QED
    BY <1>1, <1>5, <1>6, <1>7, ShelfStays, ReportStays

LEMMA PassLedHolds ==
    ASSUME EnclosureInv, PassLed PROVE EnclosureInv'
<1>1. EnclosureTyped /\ ReportHolds(rep) /\ PassHolds /\ (\A v \in Writers : WriteHolds(v)) /\ write["node"] = Idle
      /\ UNCHANGED <<hw, rep, spec, failed, lit, budget, mixed>>
    BY DEF EnclosureInv, PassLed
<1>2. pass # Idle /\ PassIs(pass) /\ ReportHolds(pass.rep) /\ pass.todo # <<>>
    BY <1>1 DEF PassLed, PassHolds, Idle
<1> DEFINE todo == pass.todo
<1>3. todo \in Seq(Items) /\ todo # <<>>
    BY <1>2 DEF PassIs
<1> HIDE DEF todo
<1>4. todo[1] \in Items /\ Tail(todo) \in Seq(Items)
    BY <1>3
<1>5. CASE NextWanted /\ NextRequest # None
  <2> DEFINE q == NextRequest
             asked1 == pass.spec[todo[1]]
  <2>0. /\ todo[1] = "drive" => rep # None
        /\ asked1 # None
      BY <1>4, <1>5 DEF NextWanted, DriveWanted, LedWanted, todo, Items
  <2>1. asked1 \in BOOLEAN
    <3>1. asked1 \in Answers
        BY <1>2, <1>4 DEF PassIs, Leds2, Items
    <3> QED
        BY <2>0, <3>1 DEF Answers
  <2>2. /\ todo[1] = "drive" => q = Request("ident", Bay, asked1, rep)
        /\ todo[1] = "identify" => q = Request("ident", None, asked1, pass.rep)
        /\ todo[1] = "faultLed" => q = Request("fault", None, asked1, pass.rep)
      BY DEF NextRequest, todo
  <2>3. HardwareIs(hw) /\ Bay # None /\ pass.rep # None
      BY <1>1, <1>2, LayoutsAssumption DEF EnclosureTyped, PassIs
  <2>4. q # None => WriteIs(q) /\ Placed("node", q)
    <3> HIDE DEF asked1, q
    <3>1. CASE todo[1] = "drive"
        BY <1>1, <2>0, <2>1, <2>2, <2>3, <3>1, RequestIs DEF Writers
    <3>2. CASE todo[1] = "identify"
        BY <1>2, <2>1, <2>2, <2>3, <3>2, RequestIs DEF Writers
    <3>3. CASE todo[1] = "faultLed"
        BY <1>2, <2>1, <2>2, <2>3, <3>3, RequestIs DEF Writers
    <3> QED
        BY <1>4, <3>1, <3>2, <3>3 DEF Items
  <2>5. Begin("node", q) /\ UNCHANGED <<pass, sent, applied>>
      BY <1>5 DEF PassLed
  <2> HIDE DEF q
  <2>6. DOMAIN write' = Writers /\ \A v \in Writers : WriteHolds(v)'
      BY <1>1, <2>4, <2>5, Begins DEF Writers
  <2>7. EnclosureTyped'
      BY <1>1, <1>2, <2>5, <2>6 DEF EnclosureTyped
  <2> QED
      BY <1>1, <2>5, <2>6, <2>7, ShelfStays, ReportStays, PassStays
<1>6. CASE ~(NextWanted /\ NextRequest # None)
  <2>1. /\ pass' = [pass EXCEPT !.todo = Tail(todo)]
        /\ UNCHANGED <<write, sent>>
        /\ applied' = IF NextWanted /\ pass.todo[1] = "drive" THEN pass.spec["drive"] ELSE applied
      BY <1>6 DEF PassLed, todo
  <2>2. PassIs(pass') /\ pass'.rep = pass.rep
    <3> DEFINE a == pass
               rest == Tail(todo)
    <3>1. a = [pc |-> "leds", rep |-> a.rep, spec |-> a.spec, todo |-> a.todo]
          /\ a.spec \in [Leds2 \union {"drive"} -> Answers] /\ a.rep # None
        BY <1>2 DEF PassIs
    <3> HIDE DEF a, rest
    <3>2. [a EXCEPT !.todo = rest] = [pc |-> "leds", rep |-> a.rep, spec |-> a.spec, todo |-> rest]
        BY <3>1
    <3>3. pass' = [pc |-> "leds", rep |-> pass.rep, spec |-> pass.spec, todo |-> rest]
        BY <2>1, <3>2 DEF a, rest
    <3> QED
        BY <1>4, <3>1, <3>3 DEF PassIs, a, rest
  <2>3. applied' \in Answers
    <3>1. pass.spec["drive"] \in Answers /\ applied \in Answers
        BY <1>1, <1>2 DEF PassIs, EnclosureTyped
    <3> QED
        BY <2>1, <3>1
  <2>4. EnclosureTyped'
      BY <1>1, <2>1, <2>2, <2>3 DEF EnclosureTyped
  <2>5. \A v \in Writers : WriteHolds(v)'
      BY <1>1, <2>1, WriteStays
  <2>6. PassHolds'
      BY <1>1, <1>2, <2>2, PassStays
  <2> QED
      BY <1>1, <2>4, <2>5, <2>6, ShelfStays, ReportStays
<1> QED
    BY <1>5, <1>6

LEMMA EndPassHolds ==
    ASSUME EnclosureInv, EndPass PROVE EnclosureInv'
<1>1. EnclosureTyped /\ ReportHolds(rep) /\ (\A v \in Writers : WriteHolds(v)) /\ pass' = Idle /\ pass.todo = <<>>
      /\ UNCHANGED <<hw, rep, spec, sent, applied, failed, lit, write, budget, mixed>>
    BY DEF EnclosureInv, EndPass
<1>2. EnclosureTyped' /\ PassHolds'
    BY <1>1 DEF EnclosureTyped, PassHolds
<1>3. \A v \in Writers : WriteHolds(v)'
    BY <1>1, WriteStays
<1> QED
    BY <1>1, <1>2, <1>3, ShelfStays, ReportStays

LEMMA ScansHold ==
    ASSUME EnclosureInv, Scan \/ ScanPart PROVE EnclosureInv'
<1>1. EnclosureTyped /\ PassHolds /\ (\A v \in Writers : WriteHolds(v))
      /\ UNCHANGED <<hw, spec, sent, applied, failed, lit, write, pass, budget, mixed>>
    BY DEF EnclosureInv, Scan, ScanPart
<1>2. PICK up : rep' = Found(up)
    BY DEF Scan, ScanPart
<1>3. HardwareIs(hw)
    BY <1>1 DEF EnclosureTyped
<1>4. ReportHolds(rep)'
  <2>1. CASE Answering(up) = <<>>
      BY <1>2, <2>1 DEF Found, ReportHolds
  <2>2. CASE Answering(up) # <<>>
    <3> DEFINE r == ReportOf(Answering(up), hw.layout, hw.generation, hw.raw)
    <3>1. rep' = r
        BY <1>2, <2>2 DEF Found
    <3>2. ReportHolds(r)
        BY <1>3, ReportShows
    <3> HIDE DEF r
    <3> QED
        BY <1>1, <3>1, <3>2 DEF ReportHolds, Shows, Order
  <2> QED
      BY <2>1, <2>2
<1>5. EnclosureTyped'
    BY <1>1 DEF EnclosureTyped
<1>6. \A v \in Writers : WriteHolds(v)'
    BY <1>1, WriteStays
<1> QED
    BY <1>1, <1>4, <1>5, <1>6, ShelfStays, PassStays

LEMMA EditsHold ==
    ASSUME EnclosureInv, EditSpec \/ SwapMember PROVE EnclosureInv'
<1>1. EnclosureTyped /\ ReportHolds(rep) /\ PassHolds /\ (\A v \in Writers : WriteHolds(v))
      /\ UNCHANGED <<hw, rep, sent, applied, lit, write, pass, mixed>>
    BY DEF EnclosureInv, EditSpec, SwapMember
<1>2. spec' \in [Leds2 \union {"drive"} -> Answers] /\ failed' \in BOOLEAN
  <2>1. CASE EditSpec
    <3>1. PICK l \in DOMAIN spec, on \in {None, TRUE, FALSE} : spec' = [spec EXCEPT ![l] = on]
        BY <2>1 DEF EditSpec
    <3> QED
        BY <1>1, <2>1, <3>1 DEF EnclosureTyped, EditSpec, Answers
  <2>2. CASE SwapMember
      BY <1>1, <2>2 DEF EnclosureTyped, SwapMember
  <2> QED
      BY <2>1, <2>2
<1>3. EnclosureTyped'
    BY <1>1, <1>2 DEF EnclosureTyped
<1>4. \A v \in Writers : WriteHolds(v)'
    BY <1>1, WriteStays
<1> QED
    BY <1>1, <1>3, <1>4, ShelfStays, ReportStays, PassStays

\* Another configuration: the bay keeps what was asked of it, and nothing that was
\* read before is of this generation.
LEMMA RefitHolds ==
    ASSUME EnclosureInv, Refit PROVE EnclosureInv'
<1>1. EnclosureTyped /\ ReportHolds(rep) /\ PassHolds /\ (\A v \in Writers : WriteHolds(v)) /\ FaultBayIsLit
      /\ UNCHANGED <<rep, spec, sent, applied, failed, lit, write, pass, mixed>>
    BY DEF EnclosureInv, Refit
<1> DEFINE old == PageOrder(Layouts[hw.layout])
           Kept(e) == {p \in DOMAIN old : old[p] = e}
<1>2. PICK l \in DOMAIN Layouts \ {hw.layout} :
          hw' = [layout |-> l, generation |-> hw.generation + 1,
                 raw |-> [p \in DOMAIN PageOrder(Layouts[l]) |->
                            IF Kept(PageOrder(Layouts[l])[p]) = {} THEN Quiet
                            ELSE hw.raw[CHOOSE x \in Kept(PageOrder(Layouts[l])[p]) : TRUE]]]
    BY DEF Refit
<1> DEFINE new == PageOrder(Layouts[l])
           From(p) == CHOOSE x \in Kept(new[p]) : TRUE
           raw == [p \in DOMAIN new |-> IF Kept(new[p]) = {} THEN Quiet ELSE hw.raw[From(p)]]
<1>3. HardwareIs(hw) /\ hw.layout \in DOMAIN Layouts /\ hw.raw \in [DOMAIN old -> Raws] /\ hw.generation \in Nat
    BY <1>1 DEF EnclosureTyped, HardwareIs
<1>4. hw' = [layout |-> l, generation |-> hw.generation + 1, raw |-> raw]
    BY <1>2
<1>5. raw \in [DOMAIN new -> Raws]
  <2>1. ASSUME NEW p \in DOMAIN new PROVE (IF Kept(new[p]) = {} THEN Quiet ELSE hw.raw[From(p)]) \in Raws
    <3>1. CASE Kept(new[p]) = {}
        BY <3>1 DEF Quiet, Raws
    <3>2. CASE Kept(new[p]) # {}
      <4>1. From(p) \in Kept(new[p])
          BY <3>2
      <4>2. From(p) \in DOMAIN old
          BY <4>1
      <4> HIDE DEF From, old
      <4> QED
          BY <1>3, <3>2, <4>2
    <3> QED
        BY <3>1, <3>2
  <2> QED
      BY <2>1
<1> DEFINE bo == BayIn(old)
           bn == BayIn(new)
<1>6. /\ ShelfOrder(old) /\ bo \in DOMAIN old /\ IsBay(old[bo]) /\ \A p \in DOMAIN old : IsBay(old[p]) => p = bo
      /\ ShelfOrder(new) /\ bn \in DOMAIN new /\ IsBay(new[bn])
    BY <1>2, <1>3, BayIsThere
<1>7. raw[bn] = hw.raw[bo]
  <2>1. old[bo] = new[bn]
    <3>1. /\ old[bo] = [type |-> old[bo].type, overall |-> old[bo].overall, index |-> old[bo].index]
          /\ new[bn] = [type |-> new[bn].type, overall |-> new[bn].overall, index |-> new[bn].index]
          /\ old[bo].overall \in BOOLEAN /\ new[bn].overall \in BOOLEAN
        BY <1>6 DEF ShelfOrder
    <3>2. /\ old[bo].type = new[bn].type /\ old[bo].index = new[bn].index
          /\ ~old[bo].overall /\ ~new[bn].overall
        BY <1>6 DEF IsBay
    <3>3. old[bo].overall = new[bn].overall
        BY <3>1, <3>2
    <3> QED
        BY <3>1, <3>2, <3>3
  <2>2. bo \in Kept(new[bn]) /\ \A p \in Kept(new[bn]) : p = bo
    <3> HIDE DEF bo, bn, new, old
    <3> QED
        BY <1>6, <2>1
  <2>3. From(bn) = bo /\ Kept(new[bn]) # {}
      BY <2>2
  <2> HIDE DEF From, bo, bn, Kept, new
  <2> QED
      BY <1>6, <2>3
<1> HIDE DEF raw, old, new
<1>8. hw'.layout = l /\ hw'.generation = hw.generation + 1 /\ hw'.raw = raw
    BY <1>4
<1>9. HardwareIs(hw')
  <2>1. hw.generation + 1 \in Nat
      BY <1>3
  <2>2. hw' = [layout |-> hw'.layout, generation |-> hw'.generation, raw |-> hw'.raw]
      BY <1>4
  <2> QED
      BY <1>2, <1>5, <1>8, <2>1, <2>2 DEF HardwareIs, new
<1>10. EnclosureTyped'
    BY <1>1, <1>9 DEF EnclosureTyped
<1>11. ReportHolds(rep)'
    BY <1>1, <1>3, <1>8 DEF ReportHolds
<1>12. PassHolds'
    BY <1>1, <1>3, <1>8 DEF PassHolds, ReportHolds
<1>13. ASSUME NEW w \in Writers PROVE WriteHolds(w)'
  <2>1. write[w] = Idle \/ (WriteIs(write[w]) /\ Placed(w, write[w]))
      BY <1>1 DEF WriteHolds
  <2>2. CASE write[w] = Idle
      BY <1>1, <2>2 DEF WriteHolds
  <2>3. CASE WriteIs(write[w]) /\ Placed(w, write[w])
    <3>1. write[w].generation \in Nat /\ write[w].generation <= hw.generation
        BY <2>3 DEF WriteIs, Placed
    <3>2. write'[w].generation <= hw'.generation /\ write'[w].generation # hw'.generation
        BY <1>1, <1>3, <1>8, <3>1
    <3> QED
        BY <1>1, <2>3, <3>2 DEF WriteHolds, Placed
  <2> QED
      BY <2>1, <2>2, <2>3
<1>14. FaultBayIsLit'
  <2>1. SlotNow = hw.raw[bo]
      BY DEF SlotNow, old
  <2>2. SlotNow' = raw[bn]
      BY <1>8 DEF SlotNow, new
  <2> QED
      BY <1>1, <1>7, <2>1, <2>2 DEF FaultBayIsLit
<1> QED
    BY <1>10, <1>11, <1>12, <1>13, <1>14 DEF EnclosureInv

LEMMA EnclosureStarts == EInit => EnclosureInv
<1> SUFFICES ASSUME EInit PROVE EnclosureInv
    OBVIOUS
<1>1. 1 \in DOMAIN Layouts
    BY LayoutsAssumption
<1>2. Quiet \in Raws /\ Quiet.fault = FALSE
    BY DEF Quiet, Raws
<1>3. HardwareIs(hw) /\ hw.layout = 1 /\ hw.raw = [p \in DOMAIN PageOrder(Layouts[1]) |-> Quiet]
  <2> DEFINE raw == [p \in DOMAIN PageOrder(Layouts[1]) |-> Quiet]
  <2>1. raw \in [DOMAIN PageOrder(Layouts[1]) -> Raws]
      BY <1>2
  <2>2. hw = [layout |-> 1, generation |-> 0, raw |-> raw]
      BY DEF EInit
  <2> HIDE DEF raw
  <2>3. HardwareIs(hw) /\ hw.layout = 1 /\ hw.raw = raw
      BY <1>1, <2>1, <2>2 DEF HardwareIs
  <2> QED
      BY <2>3 DEF raw
<1>4. /\ spec = [l \in Leds2 \union {"drive"} |-> None] /\ sent = [l \in Leds2 |-> None] /\ applied = None
      /\ failed = FALSE /\ lit = FALSE /\ mixed = FALSE /\ write = [w \in Writers |-> Idle] /\ pass = Idle /\ rep = None
    BY DEF EInit
<1>5. spec \in [Leds2 \union {"drive"} -> Answers] /\ sent \in [Leds2 -> Answers] /\ applied \in Answers
    BY <1>4 DEF Answers
<1>6. EnclosureTyped
    BY <1>3, <1>4, <1>5 DEF EnclosureTyped, Writers
<1>7. ReportHolds(rep) /\ PassHolds /\ \A w \in Writers : WriteHolds(w)
    BY <1>4 DEF ReportHolds, PassHolds, WriteHolds
<1>8. FaultBayIsLit
  <2>1. BayIn(PageOrder(Layouts[1])) \in DOMAIN PageOrder(Layouts[1])
      BY <1>1, BayIsThere
  <2>2. SlotNow = Quiet
      BY <1>3, <2>1 DEF SlotNow
  <2> QED
      BY <1>2, <1>4, <2>2 DEF FaultBayIsLit
<1> QED
    BY <1>6, <1>7, <1>8 DEF EnclosureInv

LEMMA EnclosureStep == EnclosureInv /\ [ENext]_evars => EnclosureInv'
<1> SUFFICES ASSUME EnclosureInv, [ENext]_evars PROVE EnclosureInv'
    OBVIOUS
<1>1. CASE Scan \/ ScanPart
    BY <1>1, ScansHold
<1>2. CASE EditSpec \/ SwapMember
    BY <1>2, EditsHold
<1>3. CASE Refit
    BY <1>3, RefitHolds
<1>4. CASE AskLocate \/ AskPower
  <2>1. PICK op \in {"ident", "power"}, target \in {None, Bay}, on \in BOOLEAN : Ask(op, target, on)
      BY <1>4 DEF AskLocate, AskPower
  <2> QED
      BY <2>1, RequestsHold
<1>5. CASE SyncFaultLeds
    BY <1>5, SyncHolds
<1>6. CASE StartPass \/ PassLed \/ EndPass
    BY <1>6, StartPassHolds, PassLedHolds, EndPassHolds
<1>7. ASSUME NEW w \in Writers, Unanswered(w) \/ ReadPage(w) \/ SendPage(w) PROVE EnclosureInv'
    BY <1>7, UnansweredHolds, ReadHolds, PageHolds
<1>8. CASE UNCHANGED evars
  <2>1. EnclosureTyped' /\ UNCHANGED <<hw, lit, mixed, rep, pass, write>>
      BY <1>8 DEF evars, EnclosureInv, EnclosureTyped
  <2>2. \A w \in Writers : WriteHolds(w)'
      BY <2>1, WriteStays DEF EnclosureInv
  <2> QED
      BY <2>1, <2>2, ShelfStays, ReportStays, PassStays DEF EnclosureInv
<1> QED
    BY <1>1, <1>2, <1>3, <1>4, <1>5, <1>6, <1>7, <1>8 DEF ENext

LEMMA EnclosureShows == EnclosureInv => EnclosureOK
<1> SUFFICES ASSUME EnclosureInv PROVE EnclosureOK
    OBVIOUS
<1>1. \A p \in DOMAIN hw.raw : \A b \in Bits : hw.raw[p][b] \in BOOLEAN
  <2> SUFFICES ASSUME NEW p \in DOMAIN hw.raw, NEW b \in Bits PROVE hw.raw[p][b] \in BOOLEAN
      OBVIOUS
  <2>1. hw.raw[p] \in Raws
      BY DEF EnclosureInv, EnclosureTyped, HardwareIs
  <2>2. hw.raw[p].ident \in BOOLEAN /\ hw.raw[p].fault \in BOOLEAN /\ hw.raw[p].off \in BOOLEAN
      BY <2>1 DEF Raws
  <2>3. CASE b = "ident"
      BY <2>2, <2>3
  <2>4. CASE b = "fault"
      BY <2>2, <2>4
  <2>5. CASE b = "off"
      BY <2>2, <2>5
  <2> QED
      BY <2>3, <2>4, <2>5 DEF Bits
<1>2. \A w \in Writers : write[w].pc \in {"idle", "read", "send"}
  <2> SUFFICES ASSUME NEW w \in Writers PROVE write[w].pc \in {"idle", "read", "send"}
      OBVIOUS
  <2>1. write[w] = Idle \/ WriteIs(write[w])
      BY DEF EnclosureInv, WriteHolds
  <2>2. CASE write[w] = Idle
      BY <2>2 DEF Idle
  <2>3. CASE WriteIs(write[w])
      BY <2>3 DEF WriteIs
  <2> QED
      BY <2>1, <2>2, <2>3
<1>3. EnclosureTypes
    BY <1>1, <1>2 DEF EnclosureInv, EnclosureTyped, EnclosureTypes, Answers
<1> QED
    BY <1>3 DEF EnclosureInv, EnclosureOK

\* A step of a writer that ends its request and changes the shelf is a page taken.
LEMMA EndsWithPage ==
    ASSUME EnclosureInv, [ENext]_evars, NEW w \in Writers, write[w].pc = "send", write'[w] = Idle, hw' # hw
    PROVE  SendPage(w)
<1>1. write[w] # Idle /\ \A v \in Writers : v # w => [write EXCEPT ![v] = Idle][w] = write[w]
    BY DEF Idle
<1>2. ~Refit
    BY <1>1 DEF Refit
<1>3. PICK v \in Writers : SendPage(v)
    BY <1>2 DEF ENext, evars, Scan, ScanPart, EditSpec, SwapMember, AskLocate, AskPower, Ask, SyncFaultLeds, StartPass,
                PassLed, EndPass, Unanswered, ReadPage
<1>4. write' = [write EXCEPT ![v] = Idle]
    BY <1>3 DEF SendPage
<1>5. v = w
    BY <1>1, <1>4
<1> QED
    BY <1>3, <1>5

LEMMA OneLedStep ==
    ASSUME EnclosureInv, [ENext]_evars
    PROVE  \A w \in Writers : write[w].pc = "send" /\ write'[w] = Idle /\ hw' # hw =>
             \A p \in DOMAIN hw.raw, b \in {"ident", "fault"} :
                hw'.raw[p][b] # hw.raw[p][b] =>
                   p = write[w].pos /\ (write[w].op = b \/ hw.raw[p][b] # write[w].page[b]
                                        \/ write[w].generation # hw.generation)
<1> SUFFICES ASSUME NEW w \in Writers, write[w].pc = "send", write'[w] = Idle, hw' # hw,
                    NEW p \in DOMAIN hw.raw, NEW b \in {"ident", "fault"}, hw'.raw[p][b] # hw.raw[p][b]
             PROVE  p = write[w].pos /\ (write[w].op = b \/ hw.raw[p][b] # write[w].page[b])
    OBVIOUS
<1> DEFINE q == write[w]
<1>1. SendPage(w)
    BY EndsWithPage
<1>2. /\ \A x \in DOMAIN hw.raw : x # q.pos => hw'.raw[x] = hw.raw[x]
      /\ q.pos \in DOMAIN hw.raw => /\ hw'.raw[q.pos].ident = (IF q.op = "ident" THEN q.on ELSE q.page.ident)
                                    /\ hw'.raw[q.pos].fault = (IF q.op = "fault" THEN q.on ELSE q.page.fault)
    BY <1>1, PageTaken
<1> HIDE DEF q
<1>3. p = q.pos
    BY <1>2
<1>4. CASE b = "ident"
    BY <1>2, <1>3, <1>4 DEF q
<1>5. CASE b = "fault"
    BY <1>2, <1>3, <1>5 DEF q
<1> QED
    BY <1>3, <1>4, <1>5 DEF q

-----------------------------------------------------------------------------
(* Drive firmware.  The lock lets one update of a serving drive go on at a   *)
(* time, and from its look at the volumes to the reset nothing else is away. *)
Steps == {"none", "lock", "gate", "download", "activate", "ready", "verify", "recheck", "finish"}
FirmwareTyped ==
    /\ NodeIs(node)
    /\ activity \in [Drives -> {"idle", "updating", "missing"}]
    /\ request \in [Requests -> SUBSET Drives] /\ asked \subseteq Requests
    /\ update \in [Updates -> Steps] /\ outcome \in [Updates -> {"ok", "failed", "reset"}]
    /\ holder \in Updates \union {None}
    /\ down \subseteq Drives /\ leg \in [Drives -> {"ok", "stale"}] /\ away \subseteq node.serves
\* The task of u goes on with whatever the lock is for.
Within(u) == update[u] \notin {"none", "lock"}
\* A drive is marked as updating for one of its updates.
MarksHeld == \A d \in Drives : activity[d] = "updating" => \E r \in Requests : update[<<r, d>>] # "none"
\* One update of a serving drive is past the lock, and it has the lock.
LockHeld == /\ holder # None => Within(holder) /\ Serves(holder[2])
            /\ \A u \in Updates : /\ Serves(u[2]) /\ Within(u) => holder = u
                                  /\ update[u] = "lock" => Serves(u[2])
\* Each drive of a request is started once.
StartedOnce ==
    \A r \in Requests : \A d \in Drives :
        /\ r \notin asked => update[<<r, d>>] = "none"
        /\ d \in request[r] => r \in asked /\ update[<<r, d>>] = "none"
\* A drive that is away has a reason the engine sees.
AwaySeen == \A d \in away : d \in down \/ leg[d] = "stale"
OneAway == \A c \in away : \A d \in away : c = d
\* Between the gate and the reset no leg is away.
ClearToGo == \A u \in Updates : Gated(u) /\ update[u] \in {"download", "activate"} => away = {}
FirmwareInv == FirmwareTyped /\ MarksHeld /\ LockHeld /\ StartedOnce /\ AwaySeen /\ OneAway /\ ClearToGo

LEMMA FirmwareStarts == FwInit => FirmwareInv
<1> SUFFICES ASSUME FwInit PROVE FirmwareInv
    OBVIOUS
<1>1. NodeIs(node)
    BY NodesAssumption DEF FwInit
<1>2. FirmwareTyped
    BY <1>1 DEF FwInit, FirmwareTyped, Steps, NodeIs
<1>3. \A u \in Updates : update[u] = "none"
    BY DEF FwInit
<1>4. MarksHeld
    BY DEF FwInit, MarksHeld
<1>5. LockHeld
    BY <1>3 DEF FwInit, LockHeld, Within
<1>6. StartedOnce
    BY <1>3 DEF FwInit, StartedOnce, Updates
<1>7. AwaySeen /\ OneAway /\ ClearToGo
    BY DEF FwInit, AwaySeen, OneAway, ClearToGo
<1> QED
    BY <1>2, <1>4, <1>5, <1>6, <1>7 DEF FirmwareInv

\* A step of an update's task that keeps the lock, the marks and the legs.
LEMMA TaskGoesOn ==
    ASSUME FirmwareInv, NEW u \in Updates, NEW step \in Steps \ {"none", "lock"}, Within(u), To(u, step),
           step \in {"download", "activate"} /\ Gated(u) => away = {},
           UNCHANGED <<node, activity, request, asked, holder, down, leg, away>>,
           outcome' \in [Updates -> {"ok", "failed", "reset"}]
    PROVE  FirmwareInv'
<1> USE DEF FirmwareInv
<1>1. update' \in [Updates -> Steps] /\ update'[u] = step /\ \A v \in Updates : v # u => update'[v] = update[v]
    BY DEF To, FirmwareTyped
<1>2. FirmwareTyped'
    BY <1>1 DEF FirmwareTyped, NodeIs
<1>3. \A v \in Updates : /\ Within(v)' <=> Within(v)
                         /\ update'[v] = "none" <=> update[v] = "none"
                         /\ update'[v] = "lock" => update[v] = "lock"
    BY <1>1 DEF Within
<1>4. MarksHeld'
    BY <1>3 DEF MarksHeld, Updates
<1>5. LockHeld'
    BY <1>3 DEF LockHeld, Serves, FirmwareTyped
<1>6. StartedOnce'
    BY <1>3 DEF StartedOnce, Updates
<1>7. AwaySeen' /\ OneAway'
    BY DEF AwaySeen, OneAway
<1>8. \A v \in Updates : Gated(v)' <=> Gated(v)
    BY DEF Gated, Serves, Forced
<1>9. ClearToGo'
    BY <1>1, <1>8 DEF ClearToGo
<1> QED
    BY <1>2, <1>4, <1>5, <1>6, <1>7, <1>9

LEMMA EndsGoesOn ==
    ASSUME FirmwareInv, NEW u \in Updates, Within(u), Ends(u, "failed"),
           UNCHANGED <<node, activity, request, asked, holder, down, leg, away>>
    PROVE  FirmwareInv'
<1>1. To(u, "finish") /\ outcome' \in [Updates -> {"ok", "failed", "reset"}]
    BY DEF Ends, FirmwareInv, FirmwareTyped
<1> QED
    BY <1>1, TaskGoesOn DEF Steps

\* New code is started: the leg goes, the only one if its update is gated.
LEMMA ResetHolds ==
    ASSUME FirmwareInv, NEW u \in Updates, update[u] \in {"download", "activate"}, ResetDrive(u), To(u, "ready"),
           UNCHANGED <<node, activity, request, asked, outcome, holder, hurt>>, u[2] \notin down
    PROVE  FirmwareInv'
<1> DEFINE d == u[2]
<1> USE DEF FirmwareInv
<1>1. update' \in [Updates -> Steps] /\ update'[u] = "ready" /\ \A v \in Updates : v # u => update'[v] = update[v]
    BY DEF To, FirmwareTyped, Steps
<1>2. d \in Drives /\ down' = down \union {d} /\ leg' \in [Drives -> {"ok", "stale"}]
      /\ \A c \in Drives : leg[c] = "stale" => leg'[c] = "stale"
    BY DEF Updates, ResetDrive, FirmwareTyped
<1>3. IF Gated(u) THEN away' = {d} ELSE away' = away
    BY DEF ResetDrive, ClearToGo
<1>4. FirmwareTyped'
  <2>1. away' \subseteq node.serves
      BY <1>3 DEF Gated, Serves, FirmwareTyped
  <2> QED
      BY <1>1, <1>2, <2>1 DEF FirmwareTyped, NodeIs
<1>5. \A v \in Updates : /\ Within(v)' <=> Within(v)
                         /\ update'[v] = "none" <=> update[v] = "none"
                         /\ update'[v] = "lock" => update[v] = "lock"
    BY <1>1 DEF Within
<1>6. MarksHeld'
    BY <1>5 DEF MarksHeld, Updates
<1>7. LockHeld'
    BY <1>5 DEF LockHeld, Serves, FirmwareTyped
<1>8. StartedOnce'
    BY <1>5 DEF StartedOnce, Updates
<1>9. AwaySeen'
  <2>1. away \subseteq Drives
      BY DEF FirmwareTyped, NodeIs
  <2> QED
      BY <1>2, <1>3, <2>1 DEF AwaySeen
<1>10. OneAway'
    BY <1>3 DEF OneAway
<1>11. \A v \in Updates : Gated(v)' <=> Gated(v)
    BY DEF Gated, Serves, Forced
<1>12. ClearToGo'
  <2> SUFFICES ASSUME NEW v \in Updates, Gated(v), update'[v] \in {"download", "activate"} PROVE away' = {}
      BY <1>11 DEF ClearToGo
  <2>1. v # u /\ update[v] \in {"download", "activate"}
      BY <1>1
  <2>2. holder = v /\ away = {}
      BY <2>1 DEF LockHeld, ClearToGo, Gated, Within
  <2>3. ~Gated(u)
      BY <2>1, <2>2 DEF LockHeld, Gated, Within
  <2> QED
      BY <2>2, <2>3, <1>3
<1> QED
    BY <1>4, <1>6, <1>7, <1>8, <1>9, <1>10, <1>12

LEMMA RequestHolds ==
    ASSUME FirmwareInv, NEW r \in Requests, AskUpdate(r) PROVE FirmwareInv'
<1> USE DEF FirmwareInv, AskUpdate
<1>1. node.ask[r].drives \subseteq Drives
    BY DEF FirmwareTyped, NodeIs
<1>2. FirmwareTyped'
    BY <1>1 DEF FirmwareTyped, NodeIs
<1>3. StartedOnce'
    BY DEF StartedOnce, FirmwareTyped
<1>4. MarksHeld' /\ LockHeld'
    BY DEF MarksHeld, LockHeld, Within, Serves
<1>5. AwaySeen' /\ OneAway' /\ ClearToGo'
    BY DEF AwaySeen, OneAway, ClearToGo, Gated, Serves, Forced
<1> QED
    BY <1>2, <1>3, <1>4, <1>5

LEMMA StartHolds ==
    ASSUME FirmwareInv, NEW r \in Requests, NEW d \in Drives, StartUpdate(r, d) PROVE FirmwareInv'
<1> DEFINE u == <<r, d>>
           step == IF Serves(d) THEN "lock" ELSE "gate"
<1> USE DEF FirmwareInv, StartUpdate
<1>1. u \in Updates /\ update[u] = "none" /\ r \in asked
    BY DEF Updates, StartedOnce
<1>2. update'[u] = step /\ update' \in [Updates -> Steps] /\ \A v \in Updates : v # u => update'[v] = update[v]
    BY <1>1 DEF FirmwareTyped, Steps
<1>3. activity' \in [Drives -> {"idle", "updating", "missing"}] /\ \A c \in Drives : c # d => activity'[c] = activity[c]
    BY DEF FirmwareTyped
<1>4. request' \in [Requests -> SUBSET Drives] /\ request'[r] = request[r] \ {d}
      /\ \A q \in Requests : q # r => request'[q] = request[q]
    BY DEF FirmwareTyped
<1>5. FirmwareTyped'
    BY <1>2, <1>3, <1>4 DEF FirmwareTyped, NodeIs
<1>6. MarksHeld'
  <2>1. step # "none"
      OBVIOUS
  <2>2. \A v \in Updates : update[v] # "none" => update'[v] # "none"
      BY <1>1, <1>2
  <2>3. \A c \in Drives : activity'[c] = "updating" => \E q \in Requests : update'[<<q, c>>] # "none"
    <3> SUFFICES ASSUME NEW c \in Drives, activity'[c] = "updating" PROVE \E q \in Requests : update'[<<q, c>>] # "none"
        OBVIOUS
    <3>1. CASE c = d
        BY <3>1, <2>1, <1>2
    <3>2. CASE c # d
      <4>1. PICK q \in Requests : update[<<q, c>>] # "none"
          BY <3>2, <1>3 DEF MarksHeld
      <4> QED
          BY <4>1, <2>2 DEF Updates
    <3> QED
        BY <3>1, <3>2
  <2> QED
      BY <2>3 DEF MarksHeld
<1>7. \A v \in Updates : v # u => (Within(v)' <=> Within(v))
    BY <1>2 DEF Within
<1>8. holder # u
    BY <1>1, NodesAssumption DEF LockHeld, Within, Updates
<1>9. LockHeld'
  <2>1. holder # None => holder \in Updates /\ holder # u
      BY <1>8 DEF FirmwareTyped
  <2>2. /\ Serves(d) => ~Within(u)'
        /\ update'[u] = "lock" => Serves(d)
      BY <1>2 DEF Within
  <2>3. \A v \in Updates : Serves(v[2])' <=> Serves(v[2])
      BY DEF Serves
  <2>4. holder' # None => Within(holder)' /\ Serves(holder[2])'
      BY <1>7, <2>1, <2>3 DEF LockHeld, Serves, Within
  <2>5. ASSUME NEW v \in Updates PROVE /\ Serves(v[2])' /\ Within(v)' => holder' = v
                                       /\ update'[v] = "lock" => Serves(v[2])'
    <3>1. CASE v = u
        BY <3>1, <2>2, <2>3
    <3>2. CASE v # u
        BY <3>2, <2>3, <1>2, <1>7 DEF LockHeld
    <3> QED
        BY <3>1, <3>2
  <2> QED
      BY <2>4, <2>5 DEF LockHeld
<1>10. StartedOnce'
  <2> SUFFICES ASSUME NEW q \in Requests, NEW c \in Drives
               PROVE  /\ q \notin asked' => update'[<<q, c>>] = "none"
                      /\ c \in request'[q] => q \in asked' /\ update'[<<q, c>>] = "none"
      BY DEF StartedOnce
  <2>1. <<q, c>> \in Updates /\ asked' = asked
      BY DEF Updates
  <2>2. CASE q = r /\ c = d
      BY <2>2, <1>1, <1>4
  <2>3. CASE ~(q = r /\ c = d)
    <3>1. update'[<<q, c>>] = update[<<q, c>>]
        BY <2>1, <2>3, <1>2
    <3>2. c \in request'[q] => c \in request[q]
        BY <1>4
    <3> QED
        BY <2>1, <3>1, <3>2 DEF StartedOnce
  <2> QED
      BY <2>2, <2>3
<1>11. AwaySeen' /\ OneAway'
    BY DEF AwaySeen, OneAway
<1>12. ClearToGo'
    BY <1>2 DEF ClearToGo, Gated, Serves, Forced
<1> QED
    BY <1>5, <1>6, <1>9, <1>10, <1>11, <1>12

LEMMA LockTaken ==
    ASSUME FirmwareInv, NEW u \in Updates, TakeLock(u) PROVE FirmwareInv'
<1> USE DEF FirmwareInv, TakeLock
<1>1. update'[u] = "gate" /\ update' \in [Updates -> Steps] /\ \A v \in Updates : v # u => update'[v] = update[v]
    BY DEF To, FirmwareTyped, Steps
<1>2. FirmwareTyped'
    BY <1>1 DEF FirmwareTyped, NodeIs
<1>3. MarksHeld' /\ StartedOnce'
    BY <1>1 DEF MarksHeld, StartedOnce, Updates
<1>4. LockHeld'
  <2>1. Serves(u[2]) /\ u # None
      BY NodesAssumption DEF LockHeld, Updates
  <2>2. \A v \in Updates : v # u /\ Serves(v[2]) => ~Within(v)
      BY <2>1, NodesAssumption DEF LockHeld, Updates
  <2>3. /\ Within(u)'
        /\ \A v \in Updates : v # u => (Within(v)' <=> Within(v))
      BY <1>1 DEF Within
  <2> QED
      BY <1>1, <2>1, <2>2, <2>3 DEF LockHeld, Serves
<1>5. AwaySeen' /\ OneAway'
    BY DEF AwaySeen, OneAway
<1>6. ClearToGo'
    BY <1>1 DEF ClearToGo, Gated, Serves, Forced
<1> QED
    BY <1>2, <1>3, <1>4, <1>5, <1>6

LEMMA TaskHolds ==
    ASSUME FirmwareInv, NEW u \in Updates, Task(u) PROVE FirmwareInv'
<1>1. CASE TakeLock(u)
    BY <1>1, LockTaken
<1>2. CASE Gate(u)
  <2>0. Within(u) /\ outcome \in [Updates -> {"ok", "failed", "reset"}]
      BY <1>2 DEF Gate, Within, FirmwareInv, FirmwareTyped
  <2>1. CASE Gated(u) => Redundant
    <3>1. To(u, "download") /\ UNCHANGED <<node, activity, request, asked, outcome, holder, down, hurt, leg, away>>
        BY <1>2, <2>1 DEF Gate
    <3>2. Redundant => away = {}
      <4> SUFFICES ASSUME Redundant, NEW d \in away PROVE FALSE
          OBVIOUS
      <4> QED
          BY DEF Redundant, FirmwareInv, FirmwareTyped, AwaySeen
    <3>3. Gated(u) => away = {}
        BY <2>1, <3>2
    <3> QED
        BY <2>0, <3>1, <3>3, TaskGoesOn DEF Steps
  <2>2. CASE ~(Gated(u) => Redundant)
      BY <1>2, <2>0, <2>2, EndsGoesOn DEF Gate
  <2> QED
      BY <2>1, <2>2
<1>3. CASE Download(u)
  <2>0. Within(u) /\ update[u] = "download" /\ outcome \in [Updates -> {"ok", "failed", "reset"}]
      BY <1>3 DEF Download, Within, FirmwareInv, FirmwareTyped
  <2>1. CASE To(u, "activate") /\ UNCHANGED <<outcome, down, leg, away>>
    <3>1. Gated(u) => away = {}
        BY <2>0 DEF FirmwareInv, ClearToGo
    <3> QED
        BY <1>3, <2>0, <2>1, <3>1, TaskGoesOn DEF Steps, Download
  <2>2. CASE u[2] \notin down /\ ResetDrive(u) /\ To(u, "ready") /\ UNCHANGED outcome
      BY <1>3, <2>0, <2>2, ResetHolds DEF Download
  <2>3. CASE Ends(u, "failed") /\ UNCHANGED <<down, leg, away>>
      BY <1>3, <2>0, <2>3, EndsGoesOn DEF Download
  <2> QED
      BY <1>3, <2>1, <2>2, <2>3 DEF Download
<1>4. CASE Activate(u)
  <2>0. Within(u) /\ update[u] = "activate" /\ outcome \in [Updates -> {"ok", "failed", "reset"}]
      BY <1>4 DEF Activate, Within, FirmwareInv, FirmwareTyped
  <2>1. CASE u[2] \notin down /\ ResetDrive(u) /\ To(u, "ready") /\ UNCHANGED outcome
      BY <1>4, <2>0, <2>1, ResetHolds DEF Activate
  <2>2. CASE /\ To(u, "verify") /\ UNCHANGED <<down, leg, away>>
             /\ \E how \in {"ok", "reset"} : outcome' = [outcome EXCEPT ![u] = how]
    <3>1. outcome' \in [Updates -> {"ok", "failed", "reset"}]
        BY <2>0, <2>2
    <3> QED
        BY <1>4, <2>0, <2>2, <3>1, TaskGoesOn DEF Steps, Activate
  <2>3. CASE Ends(u, "failed") /\ UNCHANGED <<down, leg, away>>
      BY <1>4, <2>0, <2>3, EndsGoesOn DEF Activate
  <2> QED
      BY <1>4, <2>1, <2>2, <2>3 DEF Activate
<1>5. CASE Ready(u)
  <2>0. Within(u) /\ outcome \in [Updates -> {"ok", "failed", "reset"}]
      BY <1>5 DEF Ready, Within, FirmwareInv, FirmwareTyped
  <2>1. CASE Ends(u, "failed")
      BY <1>5, <2>0, <2>1, EndsGoesOn DEF Ready
  <2>2. CASE To(u, "verify") /\ UNCHANGED outcome
      BY <1>5, <2>0, <2>2, TaskGoesOn DEF Steps, Ready
  <2> QED
      BY <1>5, <2>1, <2>2 DEF Ready
<1>6. CASE Verify(u)
  <2>0. Within(u) /\ outcome \in [Updates -> {"ok", "failed", "reset"}]
      BY <1>6 DEF Verify, Within, FirmwareInv, FirmwareTyped
  <2>1. CASE Ends(u, "failed")
      BY <1>6, <2>0, <2>1, EndsGoesOn DEF Verify
  <2>2. CASE UNCHANGED outcome /\ To(u, "recheck")
      BY <1>6, <2>0, <2>2, TaskGoesOn DEF Steps, Verify
  <2>3. CASE UNCHANGED outcome /\ To(u, "finish")
      BY <1>6, <2>0, <2>3, TaskGoesOn DEF Steps, Verify
  <2> QED
      BY <1>6, <2>1, <2>2, <2>3 DEF Verify
<1>7. CASE RedundantAgain(u)
  <2>0. Within(u) /\ outcome \in [Updates -> {"ok", "failed", "reset"}]
      BY <1>7 DEF RedundantAgain, Within, FirmwareInv, FirmwareTyped
  <2> QED
      BY <1>7, <2>0, TaskGoesOn DEF Steps, RedundantAgain
<1>8. CASE Finish(u)
  <2> USE <1>8 DEF FirmwareInv, Finish
  <2>1. update'[u] = "none" /\ update' \in [Updates -> Steps] /\ \A v \in Updates : v # u => update'[v] = update[v]
      BY DEF To, FirmwareTyped, Steps
  <2>2. PICK r \in Requests, d \in Drives : u = <<r, d>>
      BY DEF Updates
  <2>3. activity' \in [Drives -> {"idle", "updating", "missing"}]
        /\ activity'[d] # "updating" /\ \A c \in Drives : c # d => activity'[c] = activity[c]
      BY <2>2 DEF FirmwareTyped
  <2>4. FirmwareTyped'
      BY <2>1, <2>3 DEF FirmwareTyped, NodeIs
  <2>5. MarksHeld'
    <3> SUFFICES ASSUME NEW c \in Drives, activity'[c] = "updating" PROVE \E q \in Requests : update'[<<q, c>>] # "none"
        BY DEF MarksHeld
    <3>1. c # d
        BY <2>3
    <3>2. PICK q \in Requests : update[<<q, c>>] # "none"
        BY <2>3, <3>1 DEF MarksHeld
    <3> QED
        BY <2>1, <2>2, <3>1, <3>2 DEF Updates
  <2>6. /\ ~Within(u)'
        /\ \A v \in Updates : v # u => (Within(v)' <=> Within(v))
      BY <2>1 DEF Within
  <2>7. \A v \in Updates : Serves(v[2])' <=> Serves(v[2])
      BY DEF Serves
  <2>8. holder' # None => Within(holder)' /\ Serves(holder[2])'
    <3> SUFFICES ASSUME holder' # None PROVE Within(holder)' /\ Serves(holder[2])'
        OBVIOUS
    <3>1. holder' = holder /\ holder # u /\ holder \in Updates
        BY DEF FirmwareTyped
    <3> QED
        BY <2>6, <2>7, <3>1 DEF LockHeld, Within, Serves
  <2>9. ASSUME NEW v \in Updates PROVE /\ Serves(v[2])' /\ Within(v)' => holder' = v
                                       /\ update'[v] = "lock" => Serves(v[2])'
    <3>1. CASE v = u
        BY <2>1, <2>6, <3>1
    <3>2. CASE v # u
      <4>1. holder = v => holder' = v
          BY <3>2
      <4> QED
          BY <3>2, <4>1, <2>1, <2>6, <2>7 DEF LockHeld
    <3> QED
        BY <3>1, <3>2
  <2>10. LockHeld'
      BY <2>8, <2>9 DEF LockHeld, Within, Serves
  <2>11. StartedOnce'
      BY <2>1 DEF StartedOnce, Updates
  <2>12. AwaySeen' /\ OneAway'
      BY DEF AwaySeen, OneAway
  <2>13. ClearToGo'
      BY <2>1 DEF ClearToGo, Gated, Serves, Forced
  <2> QED
      BY <2>4, <2>5, <2>10, <2>11, <2>12, <2>13
<1> QED
    BY <1>1, <1>2, <1>3, <1>4, <1>5, <1>6, <1>7, <1>8 DEF Task

\* What the marks, the lock and the requests rest on stays as it is.
LEMMA UpdatesStay ==
    ASSUME FirmwareInv, UNCHANGED <<update, holder, request, asked, outcome>>,
           NodeIs(node'), \A d \in Drives : Serves(d)' <=> Serves(d), \A u \in Updates : Gated(u)' => Gated(u),
           activity' \in [Drives -> {"idle", "updating", "missing"}],
           \A d \in Drives : activity'[d] = "updating" => activity[d] = "updating",
           down' \subseteq Drives, leg' \in [Drives -> {"ok", "stale"}], away' \subseteq away, AwaySeen'
    PROVE  FirmwareInv'
<1> USE DEF FirmwareInv
<1>1. away' \subseteq node'.serves
    BY DEF FirmwareTyped, Serves, NodeIs
<1>2. FirmwareTyped'
    BY <1>1 DEF FirmwareTyped
<1>3. MarksHeld'
    BY DEF MarksHeld
<1>4. \A u \in Updates : Serves(u[2])' <=> Serves(u[2])
    BY DEF Updates
<1>5. \A u \in Updates : Within(u)' <=> Within(u)
    BY DEF Within
<1>6. holder' # None => Within(holder)' /\ Serves(holder[2])'
    BY <1>4, <1>5 DEF LockHeld, Within, Serves, FirmwareTyped
<1>7. \A u \in Updates : Serves(u[2])' /\ Within(u)' => holder' = u
    BY <1>4, <1>5 DEF LockHeld
<1>8. \A u \in Updates : update'[u] = "lock" => Serves(u[2])'
    BY <1>4 DEF LockHeld
<1>9. LockHeld'
    BY <1>6, <1>7, <1>8 DEF LockHeld, Within, Serves
<1>10. StartedOnce'
    BY DEF StartedOnce
<1>11. OneAway'
    BY DEF OneAway
<1>12. ClearToGo'
    BY DEF ClearToGo
<1> QED
    BY <1>2, <1>3, <1>9, <1>10, <1>11, <1>12

\* What goes on around the updates: drives come back and are listed, legs are resynced.
LEMMA AroundHolds ==
    ASSUME FirmwareInv,
           \/ \E d \in Drives : DriveBack(d) \/ Resync(d)
           \/ SeeDrives \/ Hurt \/ Heal
    PROVE  FirmwareInv'
<1> USE DEF FirmwareInv
<1>0. /\ NodeIs(node) /\ activity \in [Drives -> {"idle", "updating", "missing"}] /\ down \subseteq Drives
      /\ leg \in [Drives -> {"ok", "stale"}] /\ AwaySeen /\ away \subseteq Drives
    BY DEF FirmwareTyped, NodeIs
<1>1. ASSUME NEW d \in Drives, DriveBack(d) PROVE FirmwareInv'
  <2>1. AwaySeen'
    <3> SUFFICES ASSUME NEW c \in away' PROVE c \in down' \/ leg'[c] = "stale"
        BY DEF AwaySeen
    <3>1. c \in away /\ (c = d => leg[d] = "stale")
        BY <1>0, <1>1 DEF DriveBack
    <3> QED
        BY <1>1, <1>0, <3>1 DEF DriveBack, AwaySeen
  <2>2. (\A c \in Drives : Serves(c)' <=> Serves(c)) /\ \A u \in Updates : Gated(u)' => Gated(u)
      BY <1>1 DEF DriveBack, Serves, Gated, Forced
  <2>3. away' \subseteq away
      BY <1>1 DEF DriveBack
  <2> QED
      BY <1>0, <1>1, <2>1, <2>2, <2>3, UpdatesStay DEF DriveBack, NodeIs
<1>2. ASSUME NEW d \in Drives, Resync(d) PROVE FirmwareInv'
  <2>1. AwaySeen'
    <3> SUFFICES ASSUME NEW c \in away' PROVE c \in down' \/ leg'[c] = "stale"
        BY DEF AwaySeen
    <3>1. c \in away /\ c # d
        BY <1>2 DEF Resync
    <3> QED
        BY <1>2, <1>0, <3>1 DEF Resync, AwaySeen
  <2>2. (\A c \in Drives : Serves(c)' <=> Serves(c)) /\ \A u \in Updates : Gated(u)' => Gated(u)
      BY <1>2 DEF Resync, Serves, Gated, Forced
  <2>3. away' \subseteq away /\ leg' \in [Drives -> {"ok", "stale"}]
      BY <1>0, <1>2 DEF Resync
  <2> QED
      BY <1>0, <1>2, <2>1, <2>2, <2>3, UpdatesStay DEF Resync, NodeIs
<1>3. CASE SeeDrives
  <2>1. /\ activity' \in [Drives -> {"idle", "updating", "missing"}]
        /\ \A d \in Drives : activity'[d] = "updating" => activity[d] = "updating"
      BY <1>0, <1>3 DEF SeeDrives
  <2>2. (\A c \in Drives : Serves(c)' <=> Serves(c)) /\ \A u \in Updates : Gated(u)' => Gated(u)
      BY <1>3 DEF SeeDrives, Serves, Gated, Forced
  <2>3. AwaySeen'
      BY <1>0, <1>3 DEF SeeDrives, AwaySeen
  <2> QED
      BY <1>0, <1>3, <2>1, <2>2, <2>3, UpdatesStay DEF SeeDrives, NodeIs
<1>4. CASE Hurt
  <2>1. NodeIs(node') /\ node'.serves = node.serves /\ node'.engine = node.engine /\ node'.ask = node.ask
      BY <1>0, <1>4 DEF Hurt, NodeIs
  <2>2. (\A c \in Drives : Serves(c)' <=> Serves(c)) /\ \A u \in Updates : Gated(u)' => Gated(u)
      BY <2>1 DEF Serves, Gated, Forced
  <2>3. AwaySeen'
      BY <1>0, <1>4 DEF Hurt, AwaySeen
  <2> QED
      BY <1>0, <1>4, <2>1, <2>2, <2>3, UpdatesStay DEF Hurt
<1>5. CASE Heal
  <2>2. (\A c \in Drives : Serves(c)' <=> Serves(c)) /\ \A u \in Updates : Gated(u)' => Gated(u)
      BY <1>5 DEF Heal, Serves, Gated, Forced
  <2>3. AwaySeen'
      BY <1>0, <1>5 DEF Heal, AwaySeen
  <2> QED
      BY <1>0, <1>5, <2>2, <2>3, UpdatesStay DEF Heal, NodeIs
<1> QED
    BY <1>1, <1>2, <1>3, <1>4, <1>5

\* The process starts again: no update, no request and no lock.
LEMMA RestartHolds ==
    ASSUME FirmwareInv, Restart PROVE FirmwareInv'
<1> USE DEF FirmwareInv, Restart
<1>1. NodeIs(node') /\ node'.serves = node.serves
    BY DEF FirmwareTyped, NodeIs
<1>2. \A u \in Updates : update'[u] = "none"
    OBVIOUS
<1>3. FirmwareTyped'
  <2>1. activity' \in [Drives -> {"idle", "updating", "missing"}]
      BY DEF FirmwareTyped
  <2>2. update' \in [Updates -> Steps] /\ request' \in [Requests -> SUBSET Drives]
        /\ outcome' \in [Updates -> {"ok", "failed", "reset"}]
      BY DEF Steps
  <2> QED
      BY <1>1, <2>1, <2>2 DEF FirmwareTyped
<1>4. MarksHeld'
    BY DEF MarksHeld
<1>5. LockHeld'
    BY <1>2 DEF LockHeld, Within
<1>6. StartedOnce'
    BY <1>2 DEF StartedOnce, Updates
<1>7. AwaySeen' /\ OneAway'
    BY DEF AwaySeen, OneAway
<1>8. ClearToGo'
    BY <1>2 DEF ClearToGo
<1> QED
    BY <1>3, <1>4, <1>5, <1>6, <1>7, <1>8

LEMMA FirmwareStep == FirmwareInv /\ [FwNext]_fvars => FirmwareInv'
<1> SUFFICES ASSUME FirmwareInv, [FwNext]_fvars PROVE FirmwareInv'
    OBVIOUS
<1>1. ASSUME NEW r \in Requests, AskUpdate(r) PROVE FirmwareInv'
    BY <1>1, RequestHolds
<1>2. ASSUME NEW r \in Requests, NEW d \in Drives, StartUpdate(r, d) PROVE FirmwareInv'
    BY <1>2, StartHolds
<1>3. ASSUME NEW u \in Updates, Task(u) PROVE FirmwareInv'
    BY <1>3, TaskHolds
<1>4. CASE (\E d \in Drives : DriveBack(d) \/ Resync(d)) \/ SeeDrives \/ Hurt \/ Heal
    BY <1>4, AroundHolds
<1>5. CASE Restart
    BY <1>5, RestartHolds
<1>6. CASE UNCHANGED fvars
  <2> USE <1>6 DEF FirmwareInv, fvars
  <2>1. FirmwareTyped' /\ MarksHeld' /\ StartedOnce'
      BY DEF FirmwareTyped, NodeIs, MarksHeld, StartedOnce
  <2>2. LockHeld'
      BY DEF LockHeld, Within, Serves
  <2>3. AwaySeen' /\ OneAway' /\ ClearToGo'
      BY DEF AwaySeen, OneAway, ClearToGo, Gated, Serves, Forced
  <2> QED
      BY <2>1, <2>2, <2>3
<1> QED
    BY <1>1, <1>2, <1>3, <1>4, <1>5, <1>6 DEF FwNext

LEMMA FirmwareShows == FirmwareInv => FirmwareOK
<1> SUFFICES ASSUME FirmwareInv PROVE FirmwareOK
    OBVIOUS
<1>1. FirmwareTypes
    BY DEF FirmwareInv, FirmwareTyped, FirmwareTypes, MarksHeld, LockHeld, Within
<1>2. Cardinality(away) <= 1
  <2>1. CASE away = {}
      BY <2>1, FS_EmptySet
  <2>2. CASE away # {}
    <3>1. PICK d \in away : TRUE
        BY <2>2
    <3>2. away = {d}
        BY <3>1 DEF FirmwareInv, OneAway
    <3>3. Cardinality(away) = 1
        BY <3>2, FS_Singleton
    <3> QED
        BY <3>3
  <2> QED
      BY <2>1, <2>2
<1> QED
    BY <1>1, <1>2 DEF FirmwareOK, OneLegAway

-----------------------------------------------------------------------------
(* Shelf firmware.  While a run is about to take its IOM away, a scan has    *)
(* seen two paths of every serving drive, and none has gone since.           *)
Pcs == {"none", "check", "before", "send", "chunks", "watch", "paths", "end", "over"}
Codes == {"idle", "awaiting", "updating", "done", "failed"}
Runs == [pc : Pcs, iom : Ioms, before : [Disks -> Nat], failed : BOOLEAN]
ShelfTyped ==
    /\ ShelfIs(shelf)
    /\ code \in [Ioms -> Codes] /\ gone \subseteq Ioms
    /\ path \in [Disks -> SUBSET Ioms] /\ listed \in [Disks -> SUBSET Ioms]
    /\ run \in [Starts -> Runs]
    /\ current \in Starts \union {None}
    /\ scanned \in BOOLEAN /\ excused \in BOOLEAN
\* The drives an update must not take away.
Needed == {d \in shelf.serving : shelf.wired[d] # {}}
OneRuns == \A s \in Starts : \A t \in Starts : IsRunning(s) /\ IsRunning(t) => s = t
\* An IOM that takes an image into flash is the one a run watches.
FlashWatched == \A i \in Ioms : code[i] = "updating" => \E s \in Starts : run[s].pc = "watch" /\ run[s].iom = i
\* What a scan has seen since an IOM last went is still there.
SeenIsThere == scanned => \A d \in Disks : listed[d] \subseteq path[d]
OnlyWired == \A d \in Disks : path[d] \subseteq shelf.wired[d] /\ listed[d] \subseteq shelf.wired[d]
Reached == \A d \in Needed : path[d] # {} /\ listed[d] # {}
\* The run is about to take its IOM away.
Touches(s) == \/ run[s].pc \in {"before", "send", "chunks"}
              \/ run[s].pc = "watch" /\ code[run[s].iom] = "updating"
TwoListed == \A d \in Needed : Cardinality(listed[d]) >= 2
TouchedWithTwo == \A s \in Starts : Touches(s) => scanned /\ TwoListed
TwoBefore == \A s \in Starts : run[s].pc \in {"send", "chunks", "watch", "paths"} =>
                 \A d \in Needed : run[s].before[d] >= 2
ShelfKept == OneRuns /\ FlashWatched /\ SeenIsThere /\ OnlyWired /\ Reached /\ TouchedWithTwo /\ TwoBefore
ShelfInv == ShelfTyped /\ (~excused /\ shelf.allow = {} => ShelfKept)

LEMMA IomsFew == IsFiniteSet(Ioms) /\ 1 \in Ioms
    BY ShelvesAssumption, FS_Interval DEF Ioms

\* Paths through more IOMs are at least as many.
LEMMA MorePaths ==
    ASSUME NEW P \in SUBSET Ioms, NEW Q \in SUBSET Ioms, P \subseteq Q
    PROVE  Cardinality(P) \in Nat /\ Cardinality(Q) \in Nat /\ Cardinality(P) <= Cardinality(Q)
    BY IomsFew, FS_Subset, FS_CardinalityType

\* One of two paths goes, one is left.
LEMMA OneLeft ==
    ASSUME NEW P \in SUBSET Ioms, NEW i \in Ioms, Cardinality(P) >= 2
    PROVE  P \ {i} # {}
<1> SUFFICES ASSUME P \subseteq {i} PROVE FALSE
    OBVIOUS
<1>1. P = {} \/ P = {i}
    OBVIOUS
<1> QED
    BY <1>1, FS_EmptySet, FS_Singleton

LEMMA ShelfStarts == IomInit => ShelfInv
<1> SUFFICES ASSUME IomInit PROVE ShelfInv
    OBVIOUS
<1>1. ShelfIs(shelf)
    BY ShelvesAssumption DEF IomInit
<1>2. run \in [Starts -> Runs] /\ \A s \in Starts : run[s].pc = "none"
    BY IomsFew DEF IomInit, Fresh, Runs, Pcs
<1>3. ShelfTyped
    BY <1>1, <1>2 DEF IomInit, ShelfTyped, ShelfIs, Codes
<1>4. OneRuns /\ TouchedWithTwo /\ TwoBefore
    BY <1>2 DEF OneRuns, IsRunning, TouchedWithTwo, Touches, TwoBefore
<1>5. FlashWatched /\ SeenIsThere /\ OnlyWired
    BY DEF IomInit, FlashWatched, SeenIsThere, OnlyWired
<1>6. Reached
    BY DEF IomInit, Reached, Needed
<1> QED
    BY <1>3, <1>4, <1>5, <1>6 DEF ShelfInv, ShelfKept

LEMMA ShelfShows == ShelfInv => DrivesKeepAPath
    BY DEF ShelfInv, ShelfKept, Reached, Needed, DrivesKeepAPath, Offline

\* A run's step in a shelf that keeps its paths: what it has to see to.
LEMMA RunGoesOn ==
    ASSUME ShelfTyped, ShelfKept, NEW s \in Starts, run' \in [Starts -> Runs],
           \A t \in Starts : t # s => run'[t] = run[t],
           UNCHANGED <<path, listed, scanned>>, shelf'.wired = shelf.wired, shelf'.serving = shelf.serving,
           IsRunning(s)' => IsRunning(s) \/ ~\E t \in Starts : IsRunning(t),
           code' = code \/ IsRunning(s),
           FlashWatched', Touches(s)' => scanned /\ TwoListed,
           run'[s].pc \in {"send", "chunks", "watch", "paths"} => \A d \in Needed : run'[s].before[d] >= 2
    PROVE  ShelfKept'
<1> USE DEF ShelfKept
<1>1. \A t \in Starts : t # s => (IsRunning(t)' <=> IsRunning(t))
    BY DEF IsRunning
<1>2. OneRuns'
  <2> SUFFICES ASSUME NEW t \in Starts, NEW v \in Starts, IsRunning(t)', IsRunning(v)' PROVE t = v
      BY DEF OneRuns
  <2>1. CASE t # s /\ v # s
      BY <2>1, <1>1 DEF OneRuns
  <2>2. CASE t = s /\ v # s
      BY <2>2, <1>1 DEF OneRuns
  <2>3. CASE t # s /\ v = s
      BY <2>3, <1>1 DEF OneRuns
  <2> QED
      BY <2>1, <2>2, <2>3
<1>3. Needed' = Needed
    BY DEF Needed
<1>4. SeenIsThere' /\ OnlyWired' /\ Reached'
    BY <1>3 DEF SeenIsThere, OnlyWired, Reached
<1>5. TouchedWithTwo'
  <2> SUFFICES ASSUME NEW t \in Starts, Touches(t)' PROVE scanned' /\ TwoListed'
      BY DEF TouchedWithTwo
  <2>1. TwoListed' <=> TwoListed
      BY <1>3 DEF TwoListed
  <2>2. CASE t = s
      BY <2>1, <2>2
  <2>3. CASE t # s
    <3>1. IsRunning(t)' /\ IsRunning(t)
        BY <1>1, <2>3 DEF Touches, IsRunning
    <3>2. code' = code
        BY <2>3, <3>1 DEF OneRuns
    <3>3. Touches(t)
        BY <2>3, <3>2 DEF Touches
    <3> QED
        BY <2>1, <3>3 DEF TouchedWithTwo
  <2> QED
      BY <2>2, <2>3
<1>6. TwoBefore'
    BY <1>3 DEF TwoBefore
<1> QED
    BY <1>2, <1>4, <1>5, <1>6

\* The IOMs that take an image into flash stay the watched ones.
LEMMA FlashStays ==
    ASSUME ShelfTyped, FlashWatched, NEW s \in Starts, \A t \in Starts : t # s => run'[t] = run[t],
           \A i \in Ioms : code'[i] = "updating" => code[i] = "updating",
           run[s].pc = "watch" => code'[run[s].iom] # "updating"
    PROVE  FlashWatched'
<1> SUFFICES ASSUME NEW i \in Ioms, code'[i] = "updating" PROVE \E t \in Starts : run'[t].pc = "watch" /\ run'[t].iom = i
    BY DEF FlashWatched
<1>1. PICK t \in Starts : run[t].pc = "watch" /\ run[t].iom = i
    BY DEF FlashWatched
<1>2. t # s
    BY <1>1
<1> QED
    BY <1>1, <1>2

\* The runs are as they should be when one of them goes to another step, or ends.
LEMMA RunTyped ==
    ASSUME ShelfTyped, NEW s \in Starts, NEW step \in Pcs,
           \/ Goes(s, step)
           \/ RunFails(s) /\ step = "end"
    PROVE  /\ run' \in [Starts -> Runs] /\ \A t \in Starts : t # s => run'[t] = run[t]
           /\ run'[s].pc = step /\ run'[s].iom = run[s].iom /\ run'[s].before = run[s].before
<1>1. run \in [Starts -> Runs] /\ run[s] \in Runs
    BY DEF ShelfTyped
<1>2. CASE Goes(s, step)
  <2>1. run' = [run EXCEPT ![s] = [run[s] EXCEPT !.pc = step]]
      BY <1>2 DEF Goes
  <2>2. [run[s] EXCEPT !.pc = step] \in Runs
      BY <1>1 DEF Runs
  <2> QED
      BY <1>1, <2>1, <2>2 DEF Runs
<1>3. CASE RunFails(s) /\ step = "end"
  <2>1. run' = [run EXCEPT ![s] = [run[s] EXCEPT !.pc = "end", !.failed = TRUE]]
      BY <1>3 DEF RunFails
  <2>2. [run[s] EXCEPT !.pc = "end", !.failed = TRUE] \in Runs
      BY <1>1 DEF Runs, Pcs
  <2> QED
      BY <1>1, <1>3, <2>1, <2>2 DEF Runs
<1> QED
    BY <1>2, <1>3

LEMMA AskHolds ==
    ASSUME ShelfInv, NEW s \in Starts, AskShelf(s) PROVE ShelfInv'
<1>1. ShelfTyped /\ run[s].pc = "none" /\ Goes(s, "check") /\ UNCHANGED <<shelf, code, gone, path, listed, current, scanned, excused>>
    BY DEF ShelfInv, AskShelf
<1>2. /\ run' \in [Starts -> Runs] /\ \A t \in Starts : t # s => run'[t] = run[t]
      /\ run'[s].pc = "check"
    BY <1>1, RunTyped DEF Pcs
<1>3. ShelfTyped'
    BY <1>1, <1>2 DEF ShelfTyped, ShelfIs
<1>4. ASSUME ~excused', shelf'.allow = {} PROVE ShelfKept'
  <2>1. ShelfKept
      BY <1>1, <1>4 DEF ShelfInv
  <2>2. FlashWatched'
      BY <1>1, <1>2, <2>1, FlashStays DEF ShelfKept
  <2>3. ~IsRunning(s)' /\ ~Touches(s)'
      BY <1>2 DEF IsRunning, Touches
  <2> QED
      BY <1>1, <1>2, <2>1, <2>2, <2>3, RunGoesOn
<1> QED
    BY <1>3, <1>4 DEF ShelfInv

LEMMA StartRunHolds ==
    ASSUME ShelfInv, NEW s \in Starts, StartRun(s) PROVE ShelfInv'
<1>1. ShelfTyped /\ run[s].pc = "check" /\ UNCHANGED <<shelf, code, gone, path, listed, scanned>>
    BY DEF ShelfInv, StartRun
<1>2. CASE PathLoss /\ s \notin shelf.allow
  <2>0. Goes(s, "over") /\ UNCHANGED <<current, excused>>
      BY <1>2 DEF StartRun
  <2>1. /\ run' \in [Starts -> Runs] /\ \A t \in Starts : t # s => run'[t] = run[t]
        /\ run'[s].pc = "over"
      BY <1>1, <2>0, RunTyped DEF Pcs
  <2>2. ShelfTyped'
      BY <1>1, <2>0, <2>1 DEF ShelfTyped, ShelfIs
  <2>3. ASSUME ~excused', shelf'.allow = {} PROVE ShelfKept'
    <3>1. ShelfKept
        BY <1>1, <2>0, <2>3 DEF ShelfInv
    <3>2. FlashWatched'
        BY <1>1, <2>1, <3>1, FlashStays DEF ShelfKept
    <3>3. ~IsRunning(s)' /\ ~Touches(s)'
        BY <2>1 DEF IsRunning, Touches
    <3> QED
        BY <1>1, <2>1, <3>1, <3>2, <3>3, RunGoesOn
  <2> QED
      BY <2>2, <2>3 DEF ShelfInv
<1>3. CASE ~(PathLoss /\ s \notin shelf.allow)
  <2>0. Goes(s, "before") /\ current' = s /\ excused' = (excused \/ ~scanned \/ \E t \in Starts : IsRunning(t))
      BY <1>3 DEF StartRun
  <2>1. /\ run' \in [Starts -> Runs] /\ \A t \in Starts : t # s => run'[t] = run[t]
        /\ run'[s].pc = "before"
      BY <1>1, <2>0, RunTyped DEF Pcs
  <2>2. excused' \in BOOLEAN
      BY <2>0
  <2>3. ShelfTyped'
      BY <1>1, <2>0, <2>1, <2>2 DEF ShelfTyped, ShelfIs
  <2>4. ASSUME ~excused', shelf'.allow = {} PROVE ShelfKept'
    <3>1. ~excused /\ scanned /\ ~\E t \in Starts : IsRunning(t)
        BY <2>0, <2>4
    <3>2. ShelfKept
        BY <1>1, <2>4, <3>1 DEF ShelfInv
    <3>3. FlashWatched'
        BY <1>1, <2>1, <3>2, FlashStays DEF ShelfKept
    <3>4. TwoListed
      <4> SUFFICES ASSUME NEW d \in Needed PROVE Cardinality(listed[d]) >= 2
          BY DEF TwoListed
      <4>1. ~PathLoss
          BY <1>1, <1>3, <2>4
      <4>2. d \in shelf.serving /\ listed[d] # {} /\ d \in Disks
          BY <1>1, <3>2 DEF ShelfKept, Reached, Needed, ShelfTyped, ShelfIs
      <4>3. ~(Cardinality(listed[d]) < 2)
          BY <4>1, <4>2 DEF PathLoss, LosesIts
      <4>4. Cardinality(listed[d]) \in Nat
          BY <1>1, <4>2, MorePaths DEF ShelfTyped
      <4> QED
          BY <4>3, <4>4
    <3> QED
        BY <1>1, <2>1, <3>1, <3>2, <3>3, <3>4, RunGoesOn
  <2> QED
      BY <2>3, <2>4 DEF ShelfInv
<1> QED
    BY <1>2, <1>3

LEMMA BeforeHolds ==
    ASSUME ShelfInv, NEW s \in Starts, Before(s) PROVE ShelfInv'
<1> DEFINE seen == [d \in Disks |-> Cardinality(listed[d])]
<1>1. ShelfTyped /\ run[s].pc = "before" /\ UNCHANGED <<shelf, code, gone, path, listed, current, scanned, excused>>
      /\ run' = [run EXCEPT ![s] = [run[s] EXCEPT !.pc = "send", !.before = seen]]
    BY DEF ShelfInv, Before
<1>2. run[s] \in Runs /\ run \in [Starts -> Runs]
    BY <1>1 DEF ShelfTyped
<1>3. seen \in [Disks -> Nat]
    BY <1>1, MorePaths DEF ShelfTyped
<1>4. \A d \in Disks : seen[d] = Cardinality(listed[d])
    OBVIOUS
<1> HIDE DEF seen
<1>5. [run[s] EXCEPT !.pc = "send", !.before = seen] \in Runs
    BY <1>2, <1>3 DEF Runs, Pcs
<1>6. /\ run' \in [Starts -> Runs] /\ \A t \in Starts : t # s => run'[t] = run[t]
      /\ run'[s].pc = "send" /\ run'[s].before = seen
    BY <1>1, <1>2, <1>5 DEF Runs
<1>7. ShelfTyped'
    BY <1>1, <1>6 DEF ShelfTyped, ShelfIs
<1>8. ASSUME ~excused', shelf'.allow = {} PROVE ShelfKept'
  <2>1. ShelfKept
      BY <1>1, <1>8 DEF ShelfInv
  <2>2. FlashWatched'
      BY <1>1, <1>6, <2>1, FlashStays DEF ShelfKept
  <2>3. IsRunning(s) /\ Touches(s)
      BY <1>1 DEF IsRunning, Touches
  <2>4. scanned /\ TwoListed
      BY <2>1, <2>3 DEF ShelfKept, TouchedWithTwo
  <2>5. Needed \subseteq Disks
      BY <1>1 DEF Needed, ShelfTyped, ShelfIs
  <2>6. \A d \in Needed : run'[s].before[d] >= 2
      BY <1>4, <1>6, <2>4, <2>5 DEF TwoListed
  <2> QED
      BY <1>1, <1>6, <2>1, <2>2, <2>3, <2>4, <2>6, RunGoesOn
<1> QED
    BY <1>7, <1>8 DEF ShelfInv

\* A run fails: it touches nothing more.
LEMMA FailHolds ==
    ASSUME ShelfInv, NEW s \in Starts, IsRunning(s), RunFails(s), ShelfIs(shelf'),
           shelf'.wired = shelf.wired, shelf'.serving = shelf.serving, shelf'.allow = shelf.allow,
           UNCHANGED <<gone, path, listed, current, scanned>>,
           code' \in [Ioms -> Codes], \A i \in Ioms : code'[i] = "updating" => code[i] = "updating",
           excused' \in BOOLEAN,
           ~excused' => ~excused /\ (run[s].pc = "watch" => code'[run[s].iom] # "updating")
    PROVE  ShelfInv'
<1>1. ShelfTyped
    BY DEF ShelfInv
<1>2. /\ run' \in [Starts -> Runs] /\ \A t \in Starts : t # s => run'[t] = run[t]
      /\ run'[s].pc = "end"
    BY <1>1, RunTyped DEF Pcs
<1>3. ShelfTyped'
    BY <1>1, <1>2 DEF ShelfTyped
<1>4. ASSUME ~excused', shelf'.allow = {} PROVE ShelfKept'
  <2>1. ShelfKept
      BY <1>4 DEF ShelfInv
  <2>2. FlashWatched'
      BY <1>1, <1>2, <1>4, <2>1, FlashStays DEF ShelfKept
  <2>3. ~Touches(s)'
      BY <1>2 DEF Touches
  <2> QED
      BY <1>1, <1>2, <2>1, <2>2, <2>3, RunGoesOn
<1> QED
    BY <1>3, <1>4 DEF ShelfInv

LEMMA SendHolds ==
    ASSUME ShelfInv, NEW s \in Starts, Send(s) PROVE ShelfInv'
<1> DEFINE i == run[s].iom
<1>1. ShelfTyped /\ run[s].pc = "send" /\ UNCHANGED <<shelf, gone, path, listed, current, scanned, excused>>
    BY DEF ShelfInv, Send
<1>2. i \in Ioms /\ code \in [Ioms -> Codes]
    BY <1>1 DEF ShelfTyped, Runs
<1>3. CASE i \in gone \/ Busy(i)
  <2>1. RunFails(s) /\ UNCHANGED code /\ IsRunning(s) /\ ShelfIs(shelf') /\ excused' \in BOOLEAN
      BY <1>1, <1>3 DEF Send, IsRunning, ShelfTyped, ShelfIs
  <2> QED
      BY <1>1, <1>2, <2>1, FailHolds
<1>4. CASE ~(i \in gone \/ Busy(i))
  <2>0. Goes(s, "chunks") /\ code' = [code EXCEPT ![i] = "awaiting"]
      BY <1>4 DEF Send
  <2>1. /\ run' \in [Starts -> Runs] /\ \A t \in Starts : t # s => run'[t] = run[t]
        /\ run'[s].pc = "chunks" /\ run'[s].before = run[s].before
      BY <1>1, <2>0, RunTyped DEF Pcs
  <2>2. code' \in [Ioms -> Codes] /\ \A j \in Ioms : code'[j] = "updating" => code[j] = "updating"
      BY <1>2, <2>0 DEF Codes
  <2>3. ShelfTyped'
      BY <1>1, <2>1, <2>2 DEF ShelfTyped, ShelfIs
  <2>4. ASSUME ~excused', shelf'.allow = {} PROVE ShelfKept'
    <3>1. ShelfKept
        BY <1>1, <2>4 DEF ShelfInv
    <3>2. FlashWatched'
        BY <1>1, <2>1, <2>2, <3>1, FlashStays DEF ShelfKept
    <3>3. IsRunning(s) /\ Touches(s)
        BY <1>1 DEF IsRunning, Touches
    <3>4. scanned /\ TwoListed /\ \A d \in Needed : run'[s].before[d] >= 2
        BY <1>1, <2>1, <3>1, <3>3 DEF ShelfKept, TouchedWithTwo, TwoBefore
    <3> QED
        BY <1>1, <2>1, <3>1, <3>2, <3>3, <3>4, RunGoesOn
  <2> QED
      BY <2>3, <2>4 DEF ShelfInv
<1> QED
    BY <1>3, <1>4

LEMMA ChunksHolds ==
    ASSUME ShelfInv, NEW s \in Starts, Chunks(s) PROVE ShelfInv'
<1> DEFINE i == run[s].iom
<1>1. ShelfTyped /\ run[s].pc = "chunks" /\ IsRunning(s) /\ UNCHANGED <<gone, path, listed, current, scanned, excused>>
    BY DEF ShelfInv, Chunks, IsRunning
<1>2. i \in Ioms /\ code \in [Ioms -> Codes] /\ ShelfIs(shelf) /\ excused \in BOOLEAN
    BY <1>1 DEF ShelfTyped, Runs
<1>3. CASE Goes(s, "watch") /\ code' = [code EXCEPT ![i] = "updating"] /\ UNCHANGED shelf
  <2>1. /\ run' \in [Starts -> Runs] /\ \A t \in Starts : t # s => run'[t] = run[t]
        /\ run'[s].pc = "watch" /\ run'[s].iom = i /\ run'[s].before = run[s].before
      BY <1>1, <1>3, RunTyped DEF Pcs
  <2>2. code' \in [Ioms -> Codes] /\ \A j \in Ioms : j # i => code'[j] = code[j]
      BY <1>2, <1>3 DEF Codes
  <2>3. ShelfTyped'
      BY <1>1, <1>3, <2>1, <2>2 DEF ShelfTyped, ShelfIs
  <2>4. ASSUME ~excused', shelf'.allow = {} PROVE ShelfKept'
    <3>1. ShelfKept
        BY <1>1, <1>3, <2>4 DEF ShelfInv
    <3>2. FlashWatched'
      <4> SUFFICES ASSUME NEW j \in Ioms, code'[j] = "updating" PROVE \E t \in Starts : run'[t].pc = "watch" /\ run'[t].iom = j
          BY DEF FlashWatched
      <4>1. CASE j = i
          BY <4>1, <2>1
      <4>2. CASE j # i
        <5>1. PICK t \in Starts : run[t].pc = "watch" /\ run[t].iom = j
            BY <3>1, <2>2, <4>2 DEF ShelfKept, FlashWatched
        <5> QED
            BY <5>1, <2>1, <1>1
      <4> QED
          BY <4>1, <4>2
    <3>3. Touches(s)
        BY <1>1 DEF Touches
    <3>4. scanned /\ TwoListed /\ \A d \in Needed : run'[s].before[d] >= 2
        BY <1>1, <2>1, <3>1, <3>3 DEF ShelfKept, TouchedWithTwo, TwoBefore
    <3> QED
        BY <1>1, <1>3, <2>1, <3>1, <3>2, <3>4, RunGoesOn
  <2> QED
      BY <2>3, <2>4 DEF ShelfInv
<1>4. CASE /\ shelf' = IF i \in gone THEN shelf ELSE [shelf EXCEPT !.fails = @ - 1]
           /\ RunFails(s)
           /\ \E c \in {code[i], "failed"} : code' = [code EXCEPT ![i] = c]
  <2>1. ShelfIs(shelf') /\ shelf'.wired = shelf.wired /\ shelf'.serving = shelf.serving /\ shelf'.allow = shelf.allow
      BY <1>2, <1>4 DEF ShelfIs
  <2>2. PICK c \in {code[i], "failed"} : code' = [code EXCEPT ![i] = c]
      BY <1>4
  <2>3. code' \in [Ioms -> Codes] /\ \A j \in Ioms : code'[j] = "updating" => code[j] = "updating"
      BY <1>2, <2>2 DEF Codes
  <2> QED
      BY <1>1, <1>2, <1>4, <2>1, <2>3, FailHolds
<1> QED
    BY <1>3, <1>4 DEF Chunks

LEMMA WatchHolds ==
    ASSUME ShelfInv, NEW s \in Starts, Watch(s) PROVE ShelfInv'
<1> DEFINE i == run[s].iom
<1>1. ShelfTyped /\ run[s].pc = "watch" /\ IsRunning(s) /\ UNCHANGED <<shelf, code, gone, path, listed, current, scanned>>
      /\ excused' = (excused \/ code[i] = "updating")
    BY DEF ShelfInv, Watch, IsRunning
<1>2. i \in Ioms /\ code \in [Ioms -> Codes] /\ ShelfIs(shelf) /\ excused \in BOOLEAN /\ excused' \in BOOLEAN
    BY <1>1 DEF ShelfTyped, Runs
<1>3. CASE i \notin gone /\ code[i] \in {"idle", "done"}
  <2>0. Goes(s, "paths")
      BY <1>3 DEF Watch
  <2>1. /\ run' \in [Starts -> Runs] /\ \A t \in Starts : t # s => run'[t] = run[t]
        /\ run'[s].pc = "paths" /\ run'[s].before = run[s].before
      BY <1>1, <2>0, RunTyped DEF Pcs
  <2>2. ShelfTyped'
      BY <1>1, <1>2, <2>1 DEF ShelfTyped, ShelfIs
  <2>3. ASSUME ~excused', shelf'.allow = {} PROVE ShelfKept'
    <3>1. ShelfKept
        BY <1>1, <2>3 DEF ShelfInv
    <3>2. FlashWatched'
        BY <1>1, <1>3, <2>1, <3>1, FlashStays DEF ShelfKept
    <3>3. ~Touches(s)'
        BY <2>1 DEF Touches
    <3>4. \A d \in Needed : run'[s].before[d] >= 2
        BY <1>1, <2>1, <3>1 DEF ShelfKept, TwoBefore
    <3> QED
        BY <1>1, <2>1, <3>1, <3>2, <3>3, <3>4, RunGoesOn
  <2> QED
      BY <2>2, <2>3 DEF ShelfInv
<1>4. CASE ~(i \notin gone /\ code[i] \in {"idle", "done"})
  <2>1. RunFails(s)
      BY <1>4 DEF Watch
  <2>2. ~excused' => ~excused /\ code'[i] # "updating"
      BY <1>1
  <2>3. ShelfIs(shelf')
      BY <1>1, <1>2
  <2> QED
      BY <1>1, <1>2, <2>1, <2>2, <2>3, FailHolds
<1> QED
    BY <1>3, <1>4

LEMMA PathsHolds ==
    ASSUME ShelfInv, NEW s \in Starts, PathsBack(s) PROVE ShelfInv'
<1>1. ShelfTyped /\ run[s].pc = "paths" /\ IsRunning(s) /\ UNCHANGED <<shelf, code, gone, path, listed, current, scanned>>
    BY DEF ShelfInv, PathsBack, IsRunning
<1>2. run[s] \in Runs /\ run \in [Starts -> Runs] /\ ShelfIs(shelf) /\ excused \in BOOLEAN /\ code \in [Ioms -> Codes]
    BY <1>1 DEF ShelfTyped
<1>3. CASE ~Back(s)
  <2>1. RunFails(s) /\ UNCHANGED excused
      BY <1>3 DEF PathsBack
  <2>2. ShelfIs(shelf') /\ excused' \in BOOLEAN
      BY <1>1, <1>2, <2>1
  <2> QED
      BY <1>1, <1>2, <2>1, <2>2, FailHolds
<1>4. CASE Back(s)
  <2> DEFINE step == IF run[s].iom < IomCount THEN "before" ELSE "end"
             next == IF run[s].iom < IomCount THEN run[s].iom + 1 ELSE run[s].iom
  <2>1. run' = [run EXCEPT ![s] = [run[s] EXCEPT !.pc = step, !.iom = next]] /\ excused' = (excused \/ ~scanned)
      BY <1>1, <1>4 DEF PathsBack
  <2>2. next \in Ioms
      BY <1>2, ShelvesAssumption DEF Runs, Ioms
  <2>3. step \in {"before", "end"}
      OBVIOUS
  <2> HIDE DEF step, next
  <2>4. [run[s] EXCEPT !.pc = step, !.iom = next] \in Runs
      BY <1>2, <2>2, <2>3 DEF Runs, Pcs
  <2>5. /\ run' \in [Starts -> Runs] /\ \A t \in Starts : t # s => run'[t] = run[t]
        /\ run'[s].pc = step
      BY <1>2, <2>1, <2>4 DEF Runs
  <2>6. ShelfTyped'
      BY <1>1, <2>1, <2>5 DEF ShelfTyped, ShelfIs
  <2>7. ASSUME ~excused', shelf'.allow = {} PROVE ShelfKept'
    <3>1. ~excused /\ scanned
        BY <2>1, <2>7
    <3>2. ShelfKept
        BY <1>1, <2>7, <3>1 DEF ShelfInv
    <3>3. FlashWatched'
        BY <1>1, <2>5, <3>2, FlashStays DEF ShelfKept
    <3>4. TwoListed
      <4> SUFFICES ASSUME NEW d \in Needed PROVE Cardinality(listed[d]) >= 2
          BY DEF TwoListed
      <4>1. d \in Disks
          BY <1>1 DEF Needed, ShelfTyped, ShelfIs
      <4>2. run[s].before[d] >= 2 /\ run[s].before[d] \in Nat
          BY <1>1, <1>2, <3>2, <4>1 DEF ShelfKept, TwoBefore, Runs
      <4>3. Cardinality(listed[d]) >= run[s].before[d]
          BY <1>4, <4>1 DEF Back
      <4>4. Cardinality(listed[d]) \in Nat
          BY <1>1, <4>1, MorePaths DEF ShelfTyped
      <4> QED
          BY <4>2, <4>3, <4>4
    <3>5. run'[s].pc \notin {"send", "chunks", "watch", "paths"}
        BY <2>3, <2>5
    <3> QED
        BY <1>1, <2>5, <3>1, <3>2, <3>3, <3>4, <3>5, RunGoesOn
  <2> QED
      BY <2>6, <2>7 DEF ShelfInv
<1> QED
    BY <1>3, <1>4

LEMMA EndHolds ==
    ASSUME ShelfInv, NEW s \in Starts, EndRun(s) PROVE ShelfInv'
<1>1. ShelfTyped /\ run[s].pc = "end" /\ UNCHANGED <<shelf, code, gone, path, listed, current, scanned, excused>>
      /\ run' = [run EXCEPT ![s] = [Fresh EXCEPT !.pc = "over", !.failed = run[s].failed]]
    BY DEF ShelfInv, EndRun
<1>2. run[s] \in Runs /\ run \in [Starts -> Runs]
    BY <1>1 DEF ShelfTyped
<1>3. [Fresh EXCEPT !.pc = "over", !.failed = run[s].failed] \in Runs
    BY <1>2, IomsFew DEF Fresh, Runs, Pcs
<1>4. /\ run' \in [Starts -> Runs] /\ \A t \in Starts : t # s => run'[t] = run[t]
      /\ run'[s].pc = "over"
    BY <1>1, <1>2, <1>3 DEF Fresh
<1>5. ShelfTyped'
    BY <1>1, <1>4 DEF ShelfTyped, ShelfIs
<1>6. ASSUME ~excused', shelf'.allow = {} PROVE ShelfKept'
  <2>1. ShelfKept
      BY <1>1, <1>6 DEF ShelfInv
  <2>2. FlashWatched'
      BY <1>1, <1>4, <2>1, FlashStays DEF ShelfKept
  <2>3. ~IsRunning(s)' /\ ~Touches(s)'
      BY <1>4 DEF IsRunning, Touches
  <2> QED
      BY <1>1, <1>4, <2>1, <2>2, <2>3, RunGoesOn
<1> QED
    BY <1>5, <1>6 DEF ShelfInv

\* What the shelf does: the runs are as they were, and touch no more than before.
LEMMA ShelfGoesOn ==
    ASSUME ShelfKept, ShelfTyped, UNCHANGED <<shelf, run>>, \A i \in Ioms : code'[i] = "updating" => code[i] = "updating",
           SeenIsThere', OnlyWired', Reached',
           \A s \in Starts : Touches(s)' /\ scanned /\ TwoListed => scanned' /\ TwoListed'
    PROVE  ShelfKept'
<1> USE DEF ShelfKept
<1>1. OneRuns' /\ FlashWatched'
    BY DEF OneRuns, IsRunning, FlashWatched
<1>2. Needed' = Needed
    BY DEF Needed
<1>3. TwoBefore'
    BY <1>2 DEF TwoBefore
<1>4. TouchedWithTwo'
  <2> SUFFICES ASSUME NEW s \in Starts, Touches(s)' PROVE scanned' /\ TwoListed'
      BY DEF TouchedWithTwo
  <2>1. run[s].iom \in Ioms
      BY DEF ShelfTyped, Runs
  <2>2. Touches(s)
      BY <2>1 DEF Touches
  <2> QED
      BY <2>2 DEF TouchedWithTwo
<1> QED
    BY <1>1, <1>3, <1>4

LEMMA FlashedHolds ==
    ASSUME ShelfInv, NEW i \in Ioms, Flashed(i) PROVE ShelfInv'
<1>1. ShelfTyped /\ code[i] = "updating" /\ UNCHANGED <<shelf, listed, run, current, excused>>
    BY DEF ShelfInv, Flashed
<1>2. PICK c \in {"idle", "done", "failed"} : code' = [code EXCEPT ![i] = c]
    BY DEF Flashed
<1>3. code' \in [Ioms -> Codes] /\ code'[i] # "updating" /\ \A j \in Ioms : code'[j] = "updating" => code[j] = "updating"
    BY <1>1, <1>2 DEF ShelfTyped, Codes
<1>4. CASE UNCHANGED <<gone, path, scanned>>
  <2>1. ShelfTyped'
      BY <1>1, <1>3, <1>4 DEF ShelfTyped, ShelfIs
  <2>2. ASSUME ~excused', shelf'.allow = {} PROVE ShelfKept'
    <3>1. ShelfKept
        BY <1>1, <2>2 DEF ShelfInv
    <3>2. SeenIsThere' /\ OnlyWired' /\ Reached' /\ TwoListed' = TwoListed
        BY <1>1, <1>4, <3>1 DEF ShelfKept, SeenIsThere, OnlyWired, Reached, Needed, TwoListed
    <3> QED
        BY <1>1, <1>3, <1>4, <3>1, <3>2, ShelfGoesOn
  <2> QED
      BY <2>1, <2>2 DEF ShelfInv
<1>5. CASE gone' = gone \union {i} /\ path' = [d \in Disks |-> path[d] \ {i}] /\ scanned' = FALSE
  <2>1. path' \in [Disks -> SUBSET Ioms] /\ \A d \in Disks : path'[d] = path[d] \ {i}
      BY <1>1, <1>5 DEF ShelfTyped
  <2>2. ShelfTyped'
      BY <1>1, <1>3, <1>5, <2>1 DEF ShelfTyped, ShelfIs
  <2>3. ASSUME ~excused', shelf'.allow = {} PROVE ShelfKept'
    <3>1. ShelfKept
        BY <1>1, <2>3 DEF ShelfInv
    <3>2. PICK s \in Starts : run[s].pc = "watch" /\ run[s].iom = i
        BY <1>1, <3>1 DEF ShelfKept, FlashWatched
    <3>3. scanned /\ TwoListed /\ IsRunning(s)
        BY <1>1, <3>1, <3>2 DEF ShelfKept, TouchedWithTwo, Touches, IsRunning
    <3>4. \A t \in Starts : ~Touches(t)'
      <4> SUFFICES ASSUME NEW t \in Starts, Touches(t)' PROVE FALSE
          OBVIOUS
      <4>1. IsRunning(t)
          BY <1>1 DEF Touches, IsRunning
      <4>2. t = s
          BY <3>1, <3>3, <4>1 DEF ShelfKept, OneRuns
      <4> QED
          BY <1>1, <1>3, <3>2, <4>2 DEF Touches
    <3>5. SeenIsThere'
        BY <1>5 DEF SeenIsThere
    <3>6. OnlyWired'
        BY <1>1, <2>1, <3>1 DEF ShelfKept, OnlyWired
    <3>7. Reached'
      <4> SUFFICES ASSUME NEW d \in Needed PROVE path'[d] # {} /\ listed'[d] # {}
          BY <1>1 DEF Reached, Needed
      <4>1. d \in Disks
          BY <1>1 DEF Needed, ShelfTyped, ShelfIs
      <4>2. listed[d] \subseteq path[d] /\ Cardinality(listed[d]) >= 2 /\ listed[d] \in SUBSET Ioms
          BY <1>1, <3>1, <3>3, <4>1 DEF ShelfKept, SeenIsThere, TwoListed, ShelfTyped
      <4>3. listed[d] \ {i} # {}
          BY <4>2, OneLeft
      <4> QED
          BY <1>1, <2>1, <4>1, <4>2, <4>3
    <3> QED
        BY <1>1, <1>3, <3>1, <3>4, <3>5, <3>6, <3>7, ShelfGoesOn
  <2> QED
      BY <2>2, <2>3 DEF ShelfInv
<1> QED
    BY <1>4, <1>5 DEF Flashed

LEMMA BackHolds ==
    ASSUME ShelfInv, NEW i \in Ioms, IomBack(i) PROVE ShelfInv'
<1>1. ShelfTyped /\ UNCHANGED <<shelf, code, path, listed, run, current, scanned, excused>> /\ gone' \subseteq gone
    BY DEF ShelfInv, IomBack
<1>2. ShelfTyped'
    BY <1>1 DEF ShelfTyped, ShelfIs
<1>3. ASSUME ~excused', shelf'.allow = {} PROVE ShelfKept'
  <2>1. ShelfKept
      BY <1>1, <1>3 DEF ShelfInv
  <2>2. SeenIsThere' /\ OnlyWired' /\ Reached' /\ TwoListed' = TwoListed
      BY <1>1, <2>1 DEF ShelfKept, SeenIsThere, OnlyWired, Reached, Needed, TwoListed
  <2> QED
      BY <1>1, <2>1, <2>2, ShelfGoesOn
<1> QED
    BY <1>2, <1>3 DEF ShelfInv

LEMMA PathHolds ==
    ASSUME ShelfInv, NEW d \in Disks, PathBack(d) PROVE ShelfInv'
<1>1. ShelfTyped /\ UNCHANGED <<shelf, code, gone, listed, run, current, scanned, excused>>
    BY DEF ShelfInv, PathBack
<1>2. PICK i \in shelf.wired[d] \ (gone \union path[d]) : path' = [path EXCEPT ![d] = path[d] \union {i}]
    BY DEF PathBack
<1>3. i \in Ioms /\ shelf.wired[d] \subseteq Ioms /\ i \in shelf.wired[d]
    BY <1>1, <1>2 DEF ShelfTyped, ShelfIs
<1>4. path' \in [Disks -> SUBSET Ioms] /\ path'[d] = path[d] \union {i} /\ \A c \in Disks : c # d => path'[c] = path[c]
    BY <1>1, <1>2, <1>3 DEF ShelfTyped
<1>5. \A c \in Disks : path[c] \subseteq path'[c]
    BY <1>4
<1>6. ShelfTyped'
    BY <1>1, <1>4 DEF ShelfTyped, ShelfIs
<1>7. ASSUME ~excused', shelf'.allow = {} PROVE ShelfKept'
  <2>1. ShelfKept
      BY <1>1, <1>7 DEF ShelfInv
  <2>2. SeenIsThere'
      BY <1>1, <1>5, <2>1 DEF ShelfKept, SeenIsThere
  <2>3. OnlyWired'
      BY <1>1, <1>3, <1>4, <2>1 DEF ShelfKept, OnlyWired
  <2>4. Needed \subseteq Disks /\ Needed' = Needed
      BY <1>1 DEF Needed, ShelfTyped, ShelfIs
  <2>5. Reached' /\ TwoListed' = TwoListed
      BY <1>1, <1>5, <2>1, <2>4 DEF ShelfKept, Reached, TwoListed
  <2> QED
      BY <1>1, <2>1, <2>2, <2>3, <2>5, ShelfGoesOn
<1> QED
    BY <1>6, <1>7 DEF ShelfInv

LEMMA PullHolds ==
    ASSUME ShelfInv, NEW d \in Disks, Pull(d) PROVE ShelfInv'
<1>1. ShelfTyped /\ UNCHANGED <<code, gone, listed, run, current, scanned>> /\ excused' = TRUE
    BY DEF ShelfInv, Pull
<1>2. PICK i \in shelf.wired[d] : /\ shelf' = [shelf EXCEPT !.pulls = @ - 1, !.wired[d] = @ \ {i}]
                                  /\ path' = [path EXCEPT ![d] = @ \ {i}]
    BY DEF Pull
<1>3. path' \in [Disks -> SUBSET Ioms]
    BY <1>1, <1>2 DEF ShelfTyped
<1>4. ShelfIs(shelf')
  <2> DEFINE left == [shelf.wired EXCEPT ![d] = @ \ {i}]
  <2>1. left \in [Disks -> SUBSET Ioms]
      BY <1>1 DEF ShelfTyped, ShelfIs
  <2>2. shelf' = [wired |-> left, serving |-> shelf.serving, allow |-> shelf.allow, starts |-> shelf.starts,
                  pulls |-> shelf.pulls - 1, fails |-> shelf.fails]
      BY <1>1, <1>2 DEF ShelfTyped, ShelfIs
  <2> HIDE DEF left
  <2> QED
      BY <1>1, <2>1, <2>2 DEF ShelfTyped, ShelfIs
<1>5. ShelfTyped'
    BY <1>1, <1>3, <1>4 DEF ShelfTyped
<1> QED
    BY <1>1, <1>5 DEF ShelfInv

LEMMA ScanHolds ==
    ASSUME ShelfInv, Discover PROVE ShelfInv'
<1>1. ShelfTyped /\ UNCHANGED <<shelf, code, gone, path, run, current, excused>> /\ listed' = path /\ scanned' = TRUE
    BY DEF ShelfInv, Discover
<1>2. ShelfTyped'
    BY <1>1 DEF ShelfTyped, ShelfIs
<1>3. ASSUME ~excused', shelf'.allow = {} PROVE ShelfKept'
  <2>1. ShelfKept
      BY <1>1, <1>3 DEF ShelfInv
  <2>2. SeenIsThere' /\ OnlyWired'
      BY <1>1, <2>1 DEF ShelfKept, SeenIsThere, OnlyWired
  <2>3. Needed' = Needed /\ Needed \subseteq Disks
      BY <1>1 DEF Needed, ShelfTyped, ShelfIs
  <2>4. Reached'
      BY <1>1, <2>1, <2>3 DEF ShelfKept, Reached
  <2>5. ASSUME scanned, TwoListed PROVE TwoListed'
    <3> SUFFICES ASSUME NEW d \in Needed PROVE Cardinality(path[d]) >= 2
        BY <1>1, <2>3 DEF TwoListed
    <3>1. listed[d] \subseteq path[d] /\ listed[d] \in SUBSET Ioms /\ path[d] \in SUBSET Ioms
        BY <1>1, <2>1, <2>3, <2>5 DEF ShelfKept, SeenIsThere, ShelfTyped
    <3>2. Cardinality(listed[d]) >= 2
        BY <2>5 DEF TwoListed
    <3> QED
        BY <3>1, <3>2, MorePaths
  <2> QED
      BY <1>1, <2>1, <2>2, <2>4, <2>5, ShelfGoesOn
<1> QED
    BY <1>2, <1>3 DEF ShelfInv

LEMMA ShelfStep == ShelfInv /\ [IomNext]_ivars => ShelfInv'
<1> SUFFICES ASSUME ShelfInv, [IomNext]_ivars PROVE ShelfInv'
    OBVIOUS
<1>1. ASSUME NEW s \in Starts, AskShelf(s) \/ RunStep(s) PROVE ShelfInv'
    BY <1>1, AskHolds, StartRunHolds, BeforeHolds, SendHolds, ChunksHolds, WatchHolds, PathsHolds, EndHolds DEF RunStep
<1>2. ASSUME NEW i \in Ioms, Flashed(i) \/ IomBack(i) PROVE ShelfInv'
    BY <1>2, FlashedHolds, BackHolds
<1>3. ASSUME NEW d \in Disks, PathBack(d) \/ Pull(d) PROVE ShelfInv'
    BY <1>3, PathHolds, PullHolds
<1>4. CASE Discover
    BY <1>4, ScanHolds
<1>5. CASE UNCHANGED ivars
  <2> USE <1>5 DEF ivars
  <2>1. ShelfTyped' = ShelfTyped
      BY DEF ShelfTyped, ShelfIs
  <2>2. OneRuns' = OneRuns /\ FlashWatched' = FlashWatched /\ SeenIsThere' = SeenIsThere /\ OnlyWired' = OnlyWired
      BY DEF OneRuns, IsRunning, FlashWatched, SeenIsThere, OnlyWired
  <2>3. Needed' = Needed
      BY DEF Needed
  <2>4. Reached' = Reached /\ TwoBefore' = TwoBefore /\ TwoListed' = TwoListed
      BY <2>3 DEF Reached, TwoBefore, TwoListed
  <2>5. TouchedWithTwo' = TouchedWithTwo
      BY <2>4 DEF TouchedWithTwo, Touches
  <2> QED
      BY <2>1, <2>2, <2>4, <2>5 DEF ShelfInv, ShelfKept
<1> QED
    BY <1>1, <1>2, <1>3, <1>4, <1>5 DEF IomNext

-----------------------------------------------------------------------------
(* The theorems.                                                             *)

\* Every behaviour of the composition is one of each part.
LEMMA HardwareIsKept ==
    HardwareSpec => [](EnclosureInv /\ FirmwareInv /\ ShelfInv)
<1>1. HardwareInit => EnclosureInv /\ FirmwareInv /\ ShelfInv
    BY EnclosureStarts, FirmwareStarts, ShelfStarts DEF HardwareInit
<1>2. [HardwareNext]_hwvars => [ENext]_evars /\ [FwNext]_fvars /\ [IomNext]_ivars
    BY DEF HardwareNext, hwvars, evars, fvars, ivars
<1>3. (EnclosureInv /\ FirmwareInv /\ ShelfInv) /\ [HardwareNext]_hwvars => (EnclosureInv /\ FirmwareInv /\ ShelfInv)'
    BY <1>2, EnclosureStep, FirmwareStep, ShelfStep
<1> QED
    BY <1>1, <1>3, PTL DEF HardwareSpec

(* A bay the fleet loop recorded as lit shows its fault LED and one it did not    *)
(* shows none, whatever the API, the specs and refits ask of the shelf, unless a  *)
(* page was built on bits that had changed (ses.rs, set_fault).                   *)
THEOREM EnclosureHolds == HardwareSpec => []EnclosureOK
    BY HardwareIsKept, EnclosureShows, PTL

(* One page changes one indicator of one element (ses.rs, build_ident_control).   *)
THEOREM OneLedHolds == HardwareSpec => OneLedAtATime
<1>1. [HardwareNext]_hwvars => [ENext]_evars
    BY DEF HardwareNext, hwvars, evars
<1>2. EnclosureInv /\ [HardwareNext]_hwvars =>
        [\A w \in Writers : write[w].pc = "send" /\ write'[w] = Idle /\ hw' # hw =>
           \A p \in DOMAIN hw.raw, b \in {"ident", "fault"} :
              hw'.raw[p][b] # hw.raw[p][b] =>
                 p = write[w].pos /\ (write[w].op = b \/ hw.raw[p][b] # write[w].page[b]
                                      \/ write[w].generation # hw.generation)]_evars
    BY <1>1, OneLedStep
<1> QED
    BY <1>2, HardwareIsKept, PTL DEF HardwareSpec, OneLedAtATime

(* The updates of drives that look at the volumes never have two legs away, their *)
(* marks and their lock belong to them (firmware.rs, start).                      *)
THEOREM FirmwareHolds == FwSpec => []FirmwareOK
<1>1. FwSpec => []FirmwareInv
    BY FirmwareStarts, FirmwareStep, PTL DEF FwSpec
<1> QED
    BY <1>1, FirmwareShows, PTL

(* A shelf's update never takes the last path of a drive that serves, outside the *)
(* cases DrivesKeepAPath names (iomfw.rs, start).                                 *)
THEOREM ShelfFirmwareHolds == IomSpec => []DrivesKeepAPath
<1>1. IomSpec => []ShelfInv
    BY ShelfStarts, ShelfStep, PTL DEF IomSpec
<1> QED
    BY <1>1, ShelfShows, PTL

(* No firmware update takes away data: the last leg of a placement, or the last   *)
(* path of a drive that serves (firmware.rs and iomfw.rs, start).                 *)
THEOREM UpdatesAreSafe == HardwareSpec => []UpdatesKeepAccess
<1>1. FirmwareInv /\ ShelfInv => UpdatesKeepAccess
    BY FirmwareShows, ShelfShows DEF UpdatesKeepAccess
<1> QED
    BY <1>1, HardwareIsKept, PTL
=============================================================================
