----------------------------- MODULE Enclosure -----------------------------
(***************************************************************************)
(* The LEDs and the bay power of one shelf, and everybody who writes them: *)
(* the API handlers, the fleet loop (fault LED of a bay whose RAID member  *)
(* failed) and the controller (LEDs a Shelf's or Drive's spec asks for).   *)
(* Each write is a status page read and a control page sent, through one   *)
(* ESP after the other, at a position found in the last report; nothing    *)
(* holds the shelf between the three.                                      *)
(***************************************************************************)
EXTENDS Ses, TLC

CONSTANTS Paths,        \* the shelf's ESPs, in the order they are tried
          Bay,          \* the bay with a drive in it
          Layouts,      \* what the shelf may be made of: configuration pages
          Budgets       \* bounds: how many API requests (asks), changes of a spec (edits),
                        \* failures and replacements of the bay's RAID member (swaps) and
                        \* changes of the shelf's configuration (refits) a behaviour has

VARIABLES hw,           \* the shelf: layout, generation and the elements' bits
          rep,          \* the last scan's report, or None
          spec,         \* what the Shelf (identify, faultLed) and Drive (drive) objects ask for
          sent,         \* shelf_led_sent
          applied,      \* drive_ident: the Drive's identify last applied, or None
          failed,       \* the engine lists a failed member in the bay
          lit,          \* fault_bays has the bay
          write,        \* each writer's request in the making
          pass,         \* the controller's pass
          budget,
          mixed         \* history: a control page was built on bits that had changed meanwhile

evars == <<hw, rep, spec, sent, applied, failed, lit, write, pass, budget, mixed>>

Leds2 == {"identify", "faultLed"}
Writers == {"api", "fleet", "node"}
Idle == [pc |-> "idle"]
Quiet == [status |-> "ok", ident |-> FALSE, fault |-> FALSE, off |-> FALSE, sensed |-> FALSE, predicted |-> FALSE,
          flagged |-> FALSE, overtemp |-> FALSE, overlimit |-> FALSE, bay |-> Bay, address |-> None]

\* The element of the bay in a shelf made like this.
IsBay(e) == ~e.overall /\ e.type = "array device slot" /\ e.index = Bay
BayIn(order) == CHOOSE p \in DOMAIN order : IsBay(order[p])
\* Shelves number their bays by their array slots, and what they are made of has the bay once.
ShelfOrder(order) ==
    /\ Len(order) \in Nat /\ DOMAIN order = 1 .. Len(order)
    /\ \A p \in DOMAIN order : /\ order[p] = [type |-> order[p].type, overall |-> order[p].overall, index |-> order[p].index]
                              /\ order[p].overall \in BOOLEAN /\ order[p].type # "device slot"
    /\ \E p \in DOMAIN order : IsBay(order[p])
    /\ \A p \in DOMAIN order : \A q \in DOMAIN order : IsBay(order[p]) /\ IsBay(order[q]) => p = q
ASSUME LayoutsAssumption ==
    Bay # None /\ 1 \in DOMAIN Layouts /\ \A l \in DOMAIN Layouts : ShelfOrder(PageOrder(Layouts[l]))

EInit ==
    /\ hw = [layout |-> 1, generation |-> 0, raw |-> [p \in DOMAIN PageOrder(Layouts[1]) |-> Quiet]]
    /\ rep = None
    /\ spec = [l \in Leds2 \union {"drive"} |-> None]
    /\ sent = [l \in Leds2 |-> None] /\ applied = None
    /\ failed = FALSE /\ lit = FALSE
    /\ write = [w \in Writers |-> Idle]
    /\ pass = Idle
    /\ budget \in Budgets
    /\ mixed = FALSE

(***************************************************************************)
(* A request: the position in the report, then read and send per ESP.      *)
(***************************************************************************)
Request(op, target, on, r) ==
    LET pos == IF target = None THEN FindEnclosure(r.elements) ELSE FindSlot(r.elements, target)
    IN  IF pos = None THEN None
        ELSE [pc |-> "read", op |-> op, on |-> on, pos |-> pos, type |-> r.elements[pos].type,
              left |-> Len(r.esps), generation |-> r.generation, page |-> Quiet, of |-> r.generation]

\* mutant: the controller keeps the drive's request among the enclosure's own.
ConcludedTwice(w, ok) ==
    CASE w = "api" -> UNCHANGED <<lit, sent, applied, pass>>
      [] w = "fleet" -> lit' = (IF ok THEN write[w].on ELSE lit) /\ UNCHANGED <<sent, applied, pass>>
      [] w = "node" -> /\ sent' = (pass.todo[1] :> write[w].on) @@ sent
                       /\ pass' = [pass EXCEPT !.todo = Tail(@)]
                       /\ UNCHANGED <<lit, applied>>

\* What the requester does with the outcome: the API answers, the fleet loop
\* records the bay, the controller notes the request either way and goes on.
Concluded(w, ok) ==
    CASE w = "api" -> UNCHANGED <<lit, sent, applied, pass>>
      [] w = "fleet" -> lit' = (IF ok THEN write[w].on ELSE lit) /\ UNCHANGED <<sent, applied, pass>>
      [] w = "node" ->
            /\ IF pass.todo[1] = "drive" THEN applied' = write[w].on /\ UNCHANGED sent
               ELSE sent' = [sent EXCEPT ![pass.todo[1]] = write[w].on] /\ UNCHANGED applied
            /\ pass' = [pass EXCEPT !.todo = Tail(@)]
            /\ UNCHANGED lit

\* The ESP does not answer or refuses the page: the next one, or an error.
Unanswered(w) ==
    /\ write[w].pc # "idle"
    /\ IF write[w].left > 1
       THEN write' = [write EXCEPT ![w].pc = "read", ![w].left = @ - 1] /\ UNCHANGED <<lit, sent, applied, pass>>
       ELSE write' = [write EXCEPT ![w] = Idle] /\ Concluded(w, FALSE)
    /\ UNCHANGED <<hw, rep, spec, failed, budget, mixed>>

\* A fresh status page; one too short to hold the element is an error of this ESP.
ReadPage(w) ==
    /\ write[w].pc = "read" /\ write[w].pos \in DOMAIN hw.raw /\ Buildable(write[w].op, write[w].type)
    /\ write' = [write EXCEPT ![w].pc = "send", ![w].page = hw.raw[write[w].pos], ![w].of = hw.generation]
    /\ UNCHANGED <<hw, rep, spec, sent, applied, failed, lit, pass, budget, mixed>>

\* The enclosure takes a control page of its own generation.
SendPage(w) ==
    LET q == write[w]
        bits == ControlBits(q.op, q.type, q.page, q.on)
    IN  /\ q.pc = "send" /\ q.of = hw.generation
        /\ hw' = [hw EXCEPT !.raw[q.pos] = [hw.raw[q.pos] EXCEPT !.ident = bits.ident, !.fault = bits.fault, !.off = bits.off]]
        /\ mixed' = (mixed \/ hw.raw[q.pos] # q.page \/ q.generation # hw.generation)
        /\ write' = [write EXCEPT ![w] = Idle]
        /\ Concluded(w, TRUE)
        /\ UNCHANGED <<rep, spec, failed, budget>>

\* A request for a position the report does not have is refused at once.
Begin(w, request) ==
    write' = [write EXCEPT ![w] = IF request = None THEN Idle ELSE request]

(***************************************************************************)
(* The writers.                                                            *)
(***************************************************************************)

\* POST .../locate and .../power: the shelf's report as it is now.
Ask(op, target, on) ==
    /\ write["api"] = Idle /\ rep # None /\ budget.asks > 0
    /\ Begin("api", Request(op, target, on, rep))
    /\ budget' = [budget EXCEPT !.asks = @ - 1]
    /\ UNCHANGED <<hw, rep, spec, sent, applied, failed, lit, pass, mixed>>

AskLocate == \E target \in {None, Bay}, on \in BOOLEAN : Ask("ident", target, on)
AskPower == \E on \in BOOLEAN : Ask("power", Bay, on)

\* sync_fault_leds: a bay with a failed member is lit, one we lit that has none
\* any more is put out.
SyncOnly(wanted) == Bay \in wanted /\ ~lit \* mutant: what it lit is never put out
Changed(wanted) == (Bay \in wanted) # lit
SyncFaultLeds ==
    LET wanted == FailedMemberBays({[state |-> IF failed THEN "failed" ELSE "active", drive |-> "drive", label |-> None]},
                                   "drive" :> Bay)
    IN  /\ write["fleet"] = Idle /\ rep # None
        /\ Changed(wanted)
        /\ Begin("fleet", Request("fault", Bay, Bay \in wanted, rep))
        /\ UNCHANGED <<hw, rep, spec, sent, applied, failed, lit, pass, budget, mixed>>

\* Controller::shelves, the LED part: requests the enclosure now shows are
\* forgotten; then each LED the spec asks for in turn, and the drive's.
StartPass ==
    /\ pass = Idle /\ rep # None
    /\ sent' = [l \in Leds2 |-> IF sent[l] # None /\ sent[l] = Leds(rep)[l] THEN None ELSE sent[l]]
    /\ pass' = [pc |-> "leds", rep |-> rep, spec |-> spec, todo |-> <<"identify", "faultLed", "drive">>]
    /\ UNCHANGED <<hw, rep, spec, applied, failed, lit, write, budget, mixed>>

\* What the next item of the pass sends, or None.
DriveWanted == pass.spec["drive"] # None /\ applied # pass.spec["drive"] /\ rep # None
NextWanted ==
    LET l == pass.todo[1]
    IN  IF l = "drive" THEN DriveWanted
        ELSE LedWanted(pass.spec, pass.rep, l) /\ sent[l] # pass.spec[l]
NextRequest ==
    LET l == pass.todo[1]
    IN  CASE l = "drive" -> Request("ident", Bay, pass.spec[l], rep)
          [] l = "identify" -> Request("ident", None, pass.spec[l], pass.rep)
          [] l = "faultLed" -> Request("fault", None, pass.spec[l], pass.rep)

PassLed ==
    /\ pass.pc = "leds" /\ pass.todo # <<>> /\ write["node"] = Idle
    /\ IF NextWanted /\ NextRequest # None
       THEN Begin("node", NextRequest) /\ UNCHANGED <<pass, sent, applied>>
       ELSE /\ pass' = [pass EXCEPT !.todo = Tail(@)]
            /\ IF NextWanted /\ pass.todo[1] = "drive" THEN applied' = pass.spec["drive"] ELSE UNCHANGED applied
            /\ UNCHANGED <<write, sent>>
    /\ UNCHANGED <<hw, rep, spec, failed, lit, budget, mixed>>

EndPass ==
    /\ pass.pc = "leds" /\ pass.todo = <<>>
    /\ pass' = Idle
    /\ UNCHANGED <<hw, rep, spec, sent, applied, failed, lit, write, budget, mixed>>

(***************************************************************************)
(* The scan, the user and the shelf itself.                                *)
(***************************************************************************)
\* What ScanShelves makes of the pages of those of its ESPs that answer, which
\* are the same for each.
ReportOf(there, layout, generation, raw) ==
    [key |-> "shelf", esps |-> there, generation |-> generation, flags |-> {},
     elements |-> DecodeStatus(Layouts[layout], raw), slots |-> <<>>, through |-> FALSE]
Answering(up) == SelectSeq(Paths, LAMBDA e : e \in up)
Found(up) == IF Answering(up) = <<>> THEN None ELSE ReportOf(Answering(up), hw.layout, hw.generation, hw.raw)
Scan == rep' = Found(ToSet(Paths)) /\ UNCHANGED <<hw, spec, sent, applied, failed, lit, write, pass, budget, mixed>>
\* Only some ESPs answer, or none: the shelf loses paths or drops out.
ScanPart ==
    /\ \E up \in {{}, {Paths[1]}} : rep' = Found(up)
    /\ UNCHANGED <<hw, spec, sent, applied, failed, lit, write, pass, budget, mixed>>

EditSpec ==
    /\ budget.edits > 0
    /\ \E l \in DOMAIN spec, on \in {None, TRUE, FALSE} :
           spec[l] # on /\ spec' = [spec EXCEPT ![l] = on]
    /\ budget' = [budget EXCEPT !.edits = @ - 1]
    /\ UNCHANGED <<hw, rep, sent, applied, failed, lit, write, pass, mixed>>

SwapMember ==
    /\ budget.swaps > 0
    /\ failed' = ~failed
    /\ budget' = [budget EXCEPT !.swaps = @ - 1]
    /\ UNCHANGED <<hw, rep, spec, sent, applied, lit, write, pass, mixed>>

\* A module is put in or taken out: another configuration, the slots and the
\* enclosure keep what was asked of them.
Refit ==
    /\ budget.refits > 0
    /\ \E l \in DOMAIN Layouts \ {hw.layout} :
           LET old == PageOrder(Layouts[hw.layout])
               new == PageOrder(Layouts[l])
               Kept(e) == {p \in DOMAIN old : old[p] = e}
           IN  hw' = [layout |-> l, generation |-> hw.generation + 1,
                      raw |-> [p \in DOMAIN new |->
                                  IF Kept(new[p]) = {} THEN Quiet ELSE hw.raw[CHOOSE q \in Kept(new[p]) : TRUE]]]
    /\ budget' = [budget EXCEPT !.refits = @ - 1]
    /\ UNCHANGED <<rep, spec, sent, applied, failed, lit, write, pass, mixed>>

ENext ==
    \/ Scan \/ ScanPart \/ EditSpec \/ SwapMember \/ Refit
    \/ AskLocate \/ AskPower
    \/ SyncFaultLeds
    \/ StartPass \/ PassLed \/ EndPass
    \/ \E w \in Writers : Unanswered(w) \/ ReadPage(w) \/ SendPage(w)

\* The loops run on; an enclosure that keeps being asked answers in the end.
EFairness ==
    /\ SF_evars(SyncFaultLeds) /\ WF_evars(Unanswered("fleet")) /\ SF_evars(ReadPage("fleet")) /\ SF_evars(SendPage("fleet"))

ESpec == EInit /\ [][ENext]_evars /\ EFairness

(***************************************************************************)
(* What holds.                                                             *)
(***************************************************************************)
Bits == {"ident", "fault", "off"}
SlotNow == hw.raw[BayIn(PageOrder(Layouts[hw.layout]))]

EnclosureTypes ==
    /\ \A p \in DOMAIN hw.raw, b \in Bits : hw.raw[p][b] \in BOOLEAN
    /\ \A w \in Writers : write[w].pc \in {"idle", "read", "send"}
    /\ sent \in [Leds2 -> BOOLEAN \union {None}] /\ applied \in BOOLEAN \union {None}

\* A bay the fleet loop recorded as lit shows its fault LED, and one it does
\* not has none: locating the bay, turning it off and on and the spec's LEDs
\* in between take nothing away.  (Unless a writer built its page on bits or
\* positions that changed under it: nothing locks the shelf.)
FaultBayIsLit == mixed \/ (SlotNow.fault = lit)
EnclosureOK == EnclosureTypes /\ FaultBayIsLit

\* One request changes one indicator of one element: every other bit of the
\* shelf is as it was when the writer read its page.  (The bay's power is
\* apart: LocateKeepsPower.)
OneLedAtATime ==
    [][\A w \in Writers : write[w].pc = "send" /\ write'[w] = Idle /\ hw' # hw =>
         \A p \in DOMAIN hw.raw, b \in {"ident", "fault"} :
            hw'.raw[p][b] # hw.raw[p][b] =>
               p = write[w].pos /\ (write[w].op = b \/ hw.raw[p][b] # write[w].page[b]
                                    \/ write[w].generation # hw.generation)]_evars

\* A failed member's bay ends up lit and a replaced one's dark, whatever else
\* is asked of the shelf meanwhile, if scans keep finding the shelf.
FaultFollowsMember == []<>(rep # None) => []<>(mixed \/ (SlotNow.fault = failed))

\* "a locate request never carries a fault or power-off request with it", and
\* the target "keeps the request bits its status already shows"
\* (docs/netapp-shelf.md:120): a locate request leaves the bay's power alone.
LocateKeepsPower ==
    [][\A w \in Writers : write[w].pc = "send" /\ write[w].op = "ident" /\ write'[w] = Idle /\ hw' # hw =>
          (mixed' \/ SlotNow'.off = SlotNow.off)]_evars
=============================================================================
