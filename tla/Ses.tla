-------------------------------- MODULE Ses --------------------------------
(***************************************************************************)
(* What a SAS shelf says about itself and what is read from it: SES pages  *)
(* into a report (ses.rs), the report into a summary (shelfview.rs) and    *)
(* into the conditions and LED decisions of the Shelf object (shelfobj.rs),*)
(* the control page one LED or power request sends, and the bays whose     *)
(* RAID member failed (fleet.rs).  Pure operators: the actors that use     *)
(* them are Enclosure's and Objects'.                                      *)
(*                                                                         *)
(* A page is the sequence of its elements, an element the record of the    *)
(* status bits anything below looks at: fault is what a client requested,  *)
(* sensed what the enclosure indicates by itself, flagged that a supply    *)
(* carries a flag.  Texts, voltages and fan speeds are left out.           *)
(***************************************************************************)
EXTENDS Absent, Naturals, SequencesExt, FiniteSetsExt

Slots == {"device slot", "array device slot"}
Bad == {"critical", "noncritical", "unrecoverable"}
Faulty == Slots \union {"power supply", "cooling", "temperature", "voltage", "current", "enclosure",
                         "esc electronics", "sas expander", "sas connector"}
Absent == {"not installed", "unsupported"}

(***************************************************************************)
(* Reading the pages.                                                      *)
(***************************************************************************)

\* Page order: for every type of the configuration page its overall element,
\* then its individual ones.
PageOrder(cfg) ==
    FlattenSeq([k \in DOMAIN cfg |->
        [i \in 1 .. cfg[k].count + 1 |->
            [type |-> cfg[k].type, overall |-> i = 1, index |-> IF i = 1 THEN 0 ELSE i - 2]]])

\* One element's bits by its type: only a slot tells a bay (an array slot is
\* numbered by its index) and that its device is off, only the types below ask
\* or show a fault, only a sensor is too hot.
Decode(header, raw) ==
    LET t == header.type
    IN  [type |-> t, overall |-> header.overall, index |-> header.index,
         status |-> raw.status, predicted |-> raw.predicted,
         ident |-> raw.ident, sas |-> None, address |-> raw.address,
         fault |-> raw.fault /\ t \in Faulty, sensed |-> raw.sensed /\ t \in Faulty,
         off |-> raw.off /\ t \in Slots,
         flagged |-> raw.flagged /\ t = "power supply",
         overtemp |-> raw.overtemp /\ t = "temperature", overlimit |-> raw.overlimit /\ t = "temperature",
         bay |-> CASE header.overall -> None
                   [] t = "device slot" /\ ~header.overall -> raw.bay
                   [] t = "array device slot" /\ ~header.overall -> header.index
                   [] OTHER -> None]

\* The status page against that order; a page that is too short ends early.
DecodeStatus(cfg, raw) ==
    LET order == PageOrder(cfg)
    IN  [p \in 1 .. Min({Len(order), Len(raw)}) |-> Decode(order[p], raw[p])]

\* The additional-status page: descriptors of SAS end devices; one that is
\* invalid (an empty bay) is passed over, and without EIP neither the element
\* nor the bay is told.
SlotAddresses(descriptors) ==
    LET kept == SelectSeq(descriptors, LAMBDA d : ~d.invalid)
    IN  [n \in DOMAIN kept |-> [element |-> IF kept[n].eip THEN kept[n].element ELSE None,
                                bay |-> IF kept[n].eip THEN kept[n].bay ELSE None, sas |-> kept[n].sas]]

\* The element an additional-status descriptor is about: the ELEMENT INDEX
\* counts individual elements; when it names no slot, the n-th slot.
AddressedElement(els, n, descriptor) ==
    LET individuals == SelectSeq([p \in DOMAIN els |-> p], LAMBDA p : ~els[p].overall)
        slots == SelectSeq(individuals, LAMBDA p : els[p].type \in Slots)
        named == IF descriptor.element = None \/ descriptor.element >= Len(individuals) THEN None
                 ELSE individuals[descriptor.element + 1]
    IN  CASE named # None /\ els[named].type \in Slots -> named
          [] n <= Len(slots) -> slots[n]
          [] OTHER -> None

\* One descriptor: the real bay number, the address in it, and bay -> addresses.
Address(acc, n, descriptor) ==
    LET p == AddressedElement(acc.els, n, descriptor)
        bay == IF descriptor.bay # None THEN descriptor.bay ELSE acc.els[p].bay
    IN  IF p = None THEN acc
        ELSE [els |-> [acc.els EXCEPT ![p].bay = bay,
                                      ![p].sas = IF descriptor.sas = {} THEN @ ELSE CHOOSE a \in descriptor.sas : TRUE],
              slots |-> IF descriptor.sas = {} THEN acc.slots ELSE (bay :> descriptor.sas) @@ acc.slots]

Addressed(els, addrs) ==
    FoldLeft(LAMBDA acc, n : Address(acc, n, addrs[n]),
             [els |-> els, slots |-> <<>>], [n \in DOMAIN addrs |-> n])

FirstOf(found) == IF found = {} THEN None ELSE Min(found)
FindSlot(els, bay) ==
    FirstOf({p \in DOMAIN els : ~els[p].overall /\ els[p].type \in Slots /\ els[p].bay = bay})
FindEnclosure(els) ==
    LET found == {p \in DOMAIN els : els[p].type = "enclosure"}
        own == {p \in found : ~els[p].overall}
    IN  FirstOf(IF own # {} THEN own ELSE found)

\* One shelf from the pages of one of its ESPs.
Assemble(esp, pages) ==
    LET read == Addressed(DecodeStatus(pages.config, pages.status), SlotAddresses(pages.additional))
    IN  [key |-> IF pages.id # None THEN pages.id ELSE esp,
         esps |-> <<esp>>, generation |-> pages.generation, flags |-> pages.flags,
         elements |-> read.els, slots |-> read.slots, through |-> FALSE]

\* A second IOM of a shelf already read: one more path, and the bays only it names.
MergeEsp(rep, other) ==
    [rep EXCEPT !.esps = @ \o other.esps, !.slots = @ @@ other.slots]

\* Every shelf of the node, from its ESPs in the order of their SCSI ids; an ESP
\* that is not in answers is passed over.
ScanShelves(esps, answers) ==
    FoldLeft(LAMBDA out, e :
                IF e \notin DOMAIN answers THEN out
                ELSE LET rep == Assemble(e, answers[e])
                     IN  IF rep.key \in DOMAIN out
                         THEN [out EXCEPT ![rep.key] = MergeEsp(@, rep)]
                         ELSE (rep.key :> rep) @@ out,
             <<>>, esps)

BayOf(rep, sas) ==
    LET bays == {b \in DOMAIN rep.slots : sas \in rep.slots[b]}
    IN  IF bays = {} THEN None ELSE Min(bays)

(***************************************************************************)
(* What the report says of the shelf.                                      *)
(***************************************************************************)
Of(rep, type) == SelectSeq(rep.elements, LAMBDA e : e.type = type /\ ~e.overall)
Installed(e) == e.status \notin Absent

\* The page's own flags speak first, the worst element after them.
Worst(rep) ==
    LET said == rep.flags \union {rep.elements[p].status : p \in DOMAIN rep.elements}
    IN  CASE rep.through -> "unknown"
          [] rep.flags # {} -> CHOOSE f \in rep.flags :
                f = "unrecoverable" \/ ("unrecoverable" \notin rep.flags /\ (f = "critical" \/ "critical" \notin rep.flags))
          [] "unrecoverable" \in said -> "unrecoverable"
          [] "critical" \in said -> "critical"
          [] "noncritical" \in said -> "noncritical"
          [] OTHER -> "ok"

Count(rep, type) ==
    LET there == SelectSeq(Of(rep, type), Installed)
    IN  <<Len(SelectSeq(there, LAMBDA e : e.status = "ok")), Len(there)>>

\* An IOM has a path when one of the shelf's ESPs sits on its expander; when
\* the expander's address is not told nobody knows.
IomPath(rep, iom) ==
    LET x == Of(rep, "iom expander")
    IN  IF iom.index + 1 > Len(x) THEN None ELSE IF x[iom.index + 1].address = None THEN None
        ELSE x[iom.index + 1].address \in ToSet(rep.esps)

Multipath(rep) ==
    LET ioms == SelectSeq(Of(rep, "esc electronics"), Installed)
    IN  [installed |-> Len(ioms), paths |-> Len(rep.esps),
         withPath |-> Len(SelectSeq(ioms, LAMBDA i : IomPath(rep, i) = TRUE))]

MultipathNote(rep) ==
    LET m == Multipath(rep)
    IN  CASE rep.through -> "controller"
          [] m.installed = 0 -> "no IOM"
          [] m.installed = 1 -> "single by hardware"
          [] m.paths >= 2 -> "multipath"
          [] OTHER -> "one path seen"

\* What is not OK: the elements, and a page flag no element explains.
Problems(rep) ==
    LET bad == {[type |-> rep.elements[p].type, index |-> rep.elements[p].index, status |-> rep.elements[p].status] :
                    p \in {q \in DOMAIN rep.elements : /\ ~rep.elements[q].overall
                                                       /\ \/ rep.elements[q].status \in Bad
                                                          \/ rep.elements[q].fault \/ rep.elements[q].sensed
                                                          \/ rep.elements[q].predicted}}
        flag == Worst([rep EXCEPT !.elements = <<>>])
    IN  IF rep.flags = {} \/ \E p \in bad : p.status = flag THEN bad
        ELSE bad \union {[type |-> "enclosure", index |-> None, status |-> flag]}

(***************************************************************************)
(* The Shelf object's conditions.                                          *)
(***************************************************************************)
BadSupplies(rep) ==
    SelectSeq(Of(rep, "power supply"), LAMBDA e : Installed(e) /\ (e.status \in Bad \/ (e.flagged /\ e.status # "ok")))
BadFans(rep) == SelectSeq(Of(rep, "cooling"), LAMBDA e : e.status \in Bad)
HotSensors(rep) ==
    SelectSeq(Of(rep, "temperature"),
              LAMBDA e : e.overtemp \/ e.overlimit \/ e.status \in {"critical", "unrecoverable"})
SinglePath(rep) ==
    LET m == Multipath(rep)
    IN  \/ ~rep.through /\ m.paths <= 1
        \/ m.installed >= 2 /\ m.withPath < m.installed /\ m.withPath > 0

\* kind -> TRUE for status "True".
Conditions(rep) ==
    [Healthy     |-> /\ Worst(rep) \notin Bad
                     /\ BadSupplies(rep) = <<>> /\ BadFans(rep) = <<>> /\ HotSensors(rep) = <<>>,
     SinglePath  |-> SinglePath(rep),
     PSUDegraded |-> BadSupplies(rep) # <<>>,
     FanDegraded |-> BadFans(rep) # <<>>,
     OverTemp    |-> HotSensors(rep) # <<>>]

\* The reason given with Healthy.
HealthyReason(rep) ==
    CASE rep.through -> "ThroughController"
      [] ~rep.through /\ Conditions(rep).Healthy -> "AllOk"
      [] OTHER -> Worst(rep)

\* The conditions that changed since the status on the object: one never
\* written before counts only when it is a problem.
IsBad(kind, status) == IF kind = "Healthy" THEN ~status ELSE status
TransitionsSeen(now, previous) == {k \in DOMAIN now \cap DOMAIN previous : previous[k] # now[k]} \* mutant
Transitions(now, previous) ==
    {k \in DOMAIN now : IF k \in DOMAIN previous THEN previous[k] # now[k] ELSE IsBad(k, now[k])}

(***************************************************************************)
(* LEDs.                                                                   *)
(***************************************************************************)

\* What the enclosure shows of its own two LEDs.
Leds(rep) ==
    LET p == FindEnclosure(rep.elements)
    IN  IF p = None THEN [identify |-> None, faultLed |-> None]
        ELSE [identify |-> rep.elements[p].ident, faultLed |-> rep.elements[p].fault]

\* A LED the Shelf's spec asks for that the enclosure does not show yet.
LedWanted(spec, rep, what) ==
    spec[what] # None /\ Leds(rep)[what] # None /\ Leds(rep)[what] # spec[what]

\* The control page for one element: only it is SELECTed, with the request
\* bits below; a slot's ident request keeps its fault bit and the reverse, a
\* power request keeps both.
IdentAlone(type, st, on) == [ident |-> on, fault |-> FALSE, off |-> FALSE] \* mutant
FaultAlone(type, st, on) == [ident |-> FALSE, fault |-> on, off |-> FALSE] \* mutant
IdentBits(type, st, on) ==
    [ident |-> on, fault |-> (type \in Slots \union {"enclosure"}) /\ st.fault, off |-> FALSE]
FaultBits(type, st, on) == [ident |-> st.ident, fault |-> on, off |-> FALSE]
PowerBits(type, st, on) == [ident |-> st.ident, fault |-> st.fault, off |-> ~on]
ControlBits(op, type, st, on) ==
    CASE op = "ident" -> IdentBits(type, st, on)
      [] op = "fault" -> FaultBits(type, st, on)
      [] op = "power" -> PowerBits(type, st, on)

\* Only a slot has power, only a slot or the enclosure a fault LED.
Buildable(op, type) ==
    CASE op = "ident" -> TRUE
      [] op = "fault" -> type \in Slots \union {"enclosure"}
      [] op = "power" -> type \in Slots

\* The bays of failed RAID members: by the member's drive when it is one of
\* ours and has a place, else by the member's own labels.
FailedMemberBays(members, places) ==
    {b \in {IF m.drive \in DOMAIN places /\ places[m.drive] # None THEN places[m.drive] ELSE m.label :
                m \in {x \in members : x.state = "failed"}} : b # None}
=============================================================================
