----------------------------- MODULE MCServices -----------------------------
(* What the services are checked with: a few things that happen in each      *)
(* behaviour.                                                                *)
EXTENDS Services, TLC

CONSTANTS q1, q2

(* What happens to the state files from outside, a few things at a time.     *)
Bound(c, p, s, f) == [changes |-> c, pushes |-> p, stops |-> s, fails |-> f]
Few == {Bound(0, 1, 2, 0), Bound(0, 1, 1, 1), Bound(1, 0, 1, 1), Bound(0, 3, 1, 0)}

(* What happens to the journals, a few kinds of things in each behaviour.    *)
Kinds == {"grows", "resets", "months", "fails", "kills", "mounts", "events"}
Per(n, ks) == [k \in Kinds |-> IF k \in ks THEN n ELSE 0]
Some == {Per(2, {"grows", "kills", "fails"}), Per(2, {"grows", "months", "kills"}),
         Per(2, {"events", "kills", "fails"}), Per(2, {"events", "months", "kills"}),
         Per(2, {"grows", "resets", "mounts"}), Per(1, Kinds)}

(* Two calls of one user; of other callers; of other settings.               *)
CallOf(w, cred) == [write |-> w, dry |-> FALSE, cred |-> cred, tls |-> TRUE]
GateOf(k1, k2, changes) == [enforce |-> TRUE, anonymous |-> FALSE, kube |-> TRUE, admin |-> TRUE,
                            calls |-> (q1 :> k1 @@ q2 :> k2), changes |-> changes]
Read(cred) == CallOf(FALSE, cred)
Save(cred) == CallOf(TRUE, cred)
GatesFew == {GateOf(Save("bearer"), Save("bearer"), 2), GateOf(Save("cert"), Save("cert"), 2),
             GateOf(Read("bearer"), Save("bearer"), 1),
             GateOf(Save("admin"), Read("cert"), 0),
             [GateOf(Save("bearer"), Save("none"), 1) EXCEPT !.enforce = FALSE],
             [GateOf(Read("none"), Save("none"), 0) EXCEPT !.anonymous = TRUE],
             [GateOf([Read("none") EXCEPT !.tls = FALSE], Save("admin"), 0) EXCEPT !.admin = FALSE],
             [GateOf([Save("none") EXCEPT !.dry = TRUE], Save("cert"), 0) EXCEPT !.kube = FALSE]}

(* Calls that may be repeated or not, that close a drive, with one credential *)
(* or two, while the engine's token may change.                              *)
SceneOf(idem, closes, admin, rotates) == [idem |-> idem, closes |-> closes, admin |-> admin, rotates |-> rotates]
ScenesFew == {SceneOf(TRUE, FALSE, <<>>, TRUE), SceneOf(FALSE, FALSE, <<>>, TRUE),
              SceneOf(FALSE, FALSE, <<FALSE, TRUE>>, FALSE), SceneOf(TRUE, TRUE, <<FALSE, TRUE>>, FALSE),
              SceneOf(TRUE, TRUE, <<TRUE>>, FALSE), SceneOf(TRUE, TRUE, <<FALSE>>, FALSE)}
Afters == {0, 6}
=============================================================================
