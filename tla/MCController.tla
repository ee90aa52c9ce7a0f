---------------------------- MODULE MCController ----------------------------
(* The bounds of the runs of Controller: one or two drives, one operation,  *)
(* one policy; each behaviour has a few kinds of trouble.                   *)
EXTENDS Controller

CONSTANTS d1, o1, p1

OneOp == {[drives |-> Drives, dry |-> FALSE, named |-> TRUE], [drives |-> Drives, dry |-> TRUE, named |-> TRUE]}
Plain == [drives |-> Drives, reformat |-> TRUE, requireData |-> FALSE, suspend |-> FALSE, dry |-> FALSE,
          valid |-> TRUE, here |-> TRUE]
SomePolicies == {Plain, [Plain EXCEPT !.suspend = TRUE], [Plain EXCEPT !.dry = TRUE, !.reformat = FALSE],
                 [Plain EXCEPT !.drives = {}, !.requireData = TRUE],
                 [Plain EXCEPT !.valid = FALSE], [Plain EXCEPT !.here = FALSE]}
Records == {CleanDrive, [CleanDrive EXCEPT !.hot = TRUE], [CleanDrive EXCEPT !.odd = TRUE],
            [CleanDrive EXCEPT !.foreign = TRUE]}

Calm == [k \in Trouble |-> 0]
With(f) == [k \in Trouble |-> IF k \in DOMAIN f THEN f[k] ELSE 0]
Ops1 == With([operation |-> 2, delete |-> 1, other |-> 2, fail |-> 1])
Ops2 == With([operation |-> 1, resume |-> 1, interrupt |-> 1, revoke |-> 1, down |-> 1, lost |-> 1])
Both == With([operation |-> 1, policy |-> 1, delete |-> 1, crash |-> 1])
Pol1 == With([policy |-> 1, edit |-> 1, record |-> 2, fail |-> 1, interrupt |-> 1])
Pol2 == With([policy |-> 1, interrupt |-> 1, lost |-> 1, crash |-> 1, down |-> 1])
Pol3 == With([policy |-> 2, delete |-> 1, fail |-> 1])
Modes == {Ops1, Ops2, Both, Pol1, Pol2, Pol3}
JustEdit == {Pol1}
JustOps == {Ops1}
=============================================================================
