-------------------------------- MODULE Usage --------------------------------
(***************************************************************************)
(* A drive's usage out of the engine's slab and volume listings            *)
(* (usage.rs).  A drive here is what names it: a WWN, a serial and paths.  *)
(* Bytes are small numbers, a ratio of 1 to 16 is its factor.              *)
(***************************************************************************)
EXTENDS Absent, Integers, SequencesExt

\* slab_on: a slab that names a WWN is matched on it alone.
ByAnyName(ref, dr) == \* mutant: any name that fits
    ref.wwn = dr.wwn \/ ref.serial = dr.serial \/ ref.path \in dr.paths
SlabOn(ref, dr) ==
    IF ref.wwn # None THEN ref.wwn = dr.wwn
    ELSE IF ref.serial # None THEN ref.serial = dr.serial
    ELSE ref.path # None /\ ref.path \in dr.paths
\* placed_on: a drive over the fabric is another node's, whatever its serial.
PlacedOn(ref, dr) == ~ref.fabric /\ SlabOn(ref, dr)

Worst == <<"missing", "failed", "quarantined", "draining">>
Total(S, Of(_)) == MapThenSumSet(Of, S)
SlabBytes(mine) == Total(mine, LAMBDA s : s.total)
AllocatedBytes(mine) == Total(mine, LAMBDA s : s.allocated)
CommittedBytes(mine) == Total(mine, LAMBDA s : s.committed)

\* None: no volume carries a placement.  Largest first; an equal size is ordered by id.
VolumesOn(dr, volumes) ==
    LET placed == {v \in volumes : v.placement # None}
        Here(v) == {e \in v.placement : PlacedOn(e.ref, dr)}
        States(v) == {e.state : e \in Here(v)}
        State(v) == SelectSeq(Worst \o <<"ok">>, LAMBDA w : w \in States(v) \union {"ok"})[1]
        Row(v) == [id |-> v.id, bytes |-> Total(Here(v), LAMBDA e : e.bytes), state |-> State(v)]
        rows == {Row(v) : v \in {w \in placed : Here(w) # {}}}
    IN  IF placed = {} /\ volumes # {} THEN None
        ELSE SetToSortSeq(rows, LAMBDA a, b : a.bytes > b.bytes \/ (a.bytes = b.bytes /\ a.id < b.id))

Below(a, b) == IF a > b THEN a - b ELSE 0      \* saturating_sub
Factor(oc) == IF oc = 0 THEN 1 ELSE oc         \* 0: off

\* Usage::priced
Priced(u, oc) ==
    LET promisable == u.inSlabs * Factor(oc)
    IN  [u EXCEPT !.promisable = promisable,
                  !.headroom = IF u.committed = None THEN None ELSE Below(promisable, u.committed)]

\* compute: committed only when every slab here reports it.
Compute(dr, oc, slabs, now) ==
    LET mine == {s \in slabs : SlabOn(s.ref, dr)}
        used == AllocatedBytes(mine)
        inSlabs == SlabBytes(mine)
    IN  Priced([slabs |-> {s.id : s \in mine}, inSlabs |-> inSlabs, used |-> used,
                outside |-> Below(dr.capacity, inSlabs), free |-> Below(dr.capacity, used),
                committed |-> IF \E s \in mine : s.committed = None THEN None
                              ELSE CommittedBytes(mine),
                promisable |-> 0, headroom |-> None, at |-> now, volumes |-> None, volumesAt |-> None], oc)

\* refresh: the volumes of the last answer, with their time, when this one failed.
LosesTime(dr, oc, slabs, volumes, last, now) == \* mutant: old volumes as of now
    LET u == Compute(dr, oc, slabs, now)
    IN  IF volumes # None THEN [u EXCEPT !.volumes = VolumesOn(dr, volumes), !.volumesAt = now]
        ELSE IF last = None THEN u ELSE [u EXCEPT !.volumes = last.volumes, !.volumesAt = now]
Refresh(dr, oc, slabs, volumes, last, now) ==
    LET u == Compute(dr, oc, slabs, now)
        on == VolumesOn(dr, volumes)
    IN  IF volumes # None THEN [u EXCEPT !.volumes = on, !.volumesAt = IF on = None THEN None ELSE now]
        ELSE IF last = None THEN u
        ELSE [u EXCEPT !.volumes = last.volumes, !.volumesAt = last.volumesAt]
=============================================================================
