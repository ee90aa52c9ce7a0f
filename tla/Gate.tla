-------------------------------- MODULE Gate --------------------------------
(***************************************************************************)
(* The gate before every request (kubeauth.rs; api/mod.rs, guard): what a  *)
(* route needs, the apiserver's reviews and their cache, the decision, and *)
(* the worker's uncached question before a destroying step, while roles,   *)
(* bearers and the apiserver come and go.                                  *)
(*                                                                         *)
(* One user, with a bearer or a client certificate; a tick of the clock is*)
(* longer than a call to the apiserver may take (retry::Policy::KUBE).     *)
(***************************************************************************)
EXTENDS Naturals, Sequences

CONSTANTS Calls,
          Ttl,          \* CACHE_TTL, in ticks
          Ticks,        \* bound: the clock
          Gates         \* the node's settings (enforce, anonymous, kube, admin), what each call is
                        \* (write, dry, cred, tls), and a bound on the changes outside

VARIABLES gate,         \* one of Gates
          may,          \* the user may do drive operations now
          known,        \* the apiserver recognises the bearer
          reachable,    \* the apiserver answers
          now,
          cache,        \* per credential and access: when the answer was put there, and the answer
          call,         \* per call: its step, the answer it carries, when it was decided or checked
          permitted     \* history: the ticks at which the user could do drive operations

gvars == <<gate, may, known, reachable, now, cache, call, permitted>>

(***************************************************************************)
(* What a request needs.  A route is its path's words after /api/v1, with  *)
(* its names left out: a form with parameters in the path is one route     *)
(* with its parent, as in classify.                                        *)
(***************************************************************************)
DriveOps == {"format", "firmware", "fleet", "test", "enroll"}
NoEnroll == DriveOps \ {"enroll"} \* mutant
OpsOfDrive == DriveOps
\* The POST, PUT, PATCH and DELETE routes of router(), as <<words, method>>.
WriteRoutes ==
    {<<<<"drives", w>>, "POST">> : w \in {"locate", "fleet", "drain", "health", "designation", "overcommit", "test",
                                           "enroll", "format", "firmware"}} \union
    {<<<<"shelves", w>>, "POST">> : w \in {"locate", "format", "firmware", "bays"}} \union
    {<<<<"drives">>, "DELETE">>, <<<<"drives", "drain">>, "DELETE">>, <<<<"drives", "overcommit">>, "PUT">>,
     <<<<"drives", "test", "cancel">>, "POST">>, <<<<"thermal", "limits">>, "PUT">>, <<<<"format">>, "POST">>,
     <<<<"firmware">>, "POST">>, <<<<"firmware", "images">>, "PUT">>, <<<<"firmware", "images">>, "DELETE">>,
     <<<<"worker", "jobs">>, "POST">>, <<<<"worker", "jobs", "id">>, "POST">>, <<<<"apis", "drives">>, "PATCH">>}

Classify(words, method) ==
    CASE words = <<"worker", "jobs">> \/ words \in {<<"format">>, <<"firmware">>} -> <<"driveoperations", "create">>
      [] words = <<"worker", "jobs", "id">> -> <<"driveoperations", "update">>
      [] words = <<"firmware", "images">> -> <<"firmwareimages", IF method = "DELETE" THEN "delete" ELSE "create">>
      [] words[1] = "shelves" /\ words[2] \in {"format", "firmware", "bays"} -> <<"driveoperations", "create">>
      [] words[1] = "shelves" /\ words[2] = "locate" -> <<"enclosures", "update">>
      [] words = <<"drives">> /\ method = "DELETE" -> <<"drives", "delete">>
      [] words = <<"drives", "test", "cancel">> -> <<"drives", "update">>
      [] words[1] = "drives" /\ Len(words) = 2 /\ words[2] \in OpsOfDrive -> <<"driveoperations", "create">>
      [] words[1] = "apis" -> <<"drives", "patch">>
      [] OTHER -> <<"drives", "update">>

\* What destroys a drive's contents, or a shelf's or a drive's firmware, or powers it off.
Destroys(words) ==
    \/ words[1] \in {"format", "firmware", "worker"} /\ words # <<"firmware", "images">>
    \/ /\ words[1] \in {"drives", "shelves"} /\ Len(words) = 2
       /\ words[2] \in {"format", "firmware", "fleet", "enroll", "bays"}

(***************************************************************************)
(* The calls.                                                              *)
(***************************************************************************)
NoAnswer == [at |-> 0, was |-> "none"]
NoCall == [pc |-> "none", answer |-> "none", at |-> 0]
Reviewed == {"bearer", "cert"} \X {"read", "write"}

\* The settings, and what each call is.
SettingsKnown ==
    /\ Ttl \in Nat
    /\ Gates \subseteq [enforce : BOOLEAN, anonymous : BOOLEAN, kube : BOOLEAN, admin : BOOLEAN, changes : Nat,
                        calls : [Calls -> [write : BOOLEAN, dry : BOOLEAN, tls : BOOLEAN,
                                           cred : {"bearer", "cert", "admin", "none"}]]]
ASSUME GateAssumption == SettingsKnown

GInit ==
    /\ gate \in Gates
    /\ may \in BOOLEAN /\ known = TRUE /\ reachable = TRUE /\ now = 0
    /\ cache = [k \in Reviewed |-> NoAnswer]
    /\ call = [c \in Calls |-> NoCall]
    /\ permitted = IF may THEN {0} ELSE {}

\* A job that is only a dry run is gated as a read.
IsWrite(c) == gate.calls[c].write /\ ~gate.calls[c].dry
Cred(c) == gate.calls[c].cred
Key(c) == <<Cred(c), IF IsWrite(c) THEN "write" ELSE "read">>

Step(c, pc, answer) == call' = [call EXCEPT ![c] = [pc |-> pc, answer |-> answer, at |-> now]]

\* What a read and a write are answered, once the caller's review is in; an audit gate
\* refuses no write.
Verdict(c, answer) ==
    IF answer = "allowed" \/ (IsWrite(c) /\ ~gate.enforce) THEN "run" ELSE "refused"

\* guard, up to the first question to the apiserver.
KeptForGood(k) == cache[k].was # "none" \* mutant: an answer is never too old
Kept(k) == cache[k].was # "none" /\ now - cache[k].at < Ttl
Arrive(c) ==
    /\ call[c].pc = "none"
    /\ LET open == gate.calls[c].tls \/ gate.anonymous
           reviewed == Cred(c) = "bearer" \/ (Cred(c) = "cert" /\ IsWrite(c))
       IN  \/ ~open /\ Step(c, "refused", "none")
           \/ open /\ Cred(c) = "admin" /\ Step(c, IF gate.admin THEN "run" ELSE Verdict(c, "unknown"),
                                                IF gate.admin THEN "allowed" ELSE "unknown")
           \/ open /\ Cred(c) = "none"
              /\ Step(c, IF gate.anonymous /\ ~IsWrite(c) THEN "run" ELSE Verdict(c, "none"), "none")
           \/ open /\ Cred(c) = "cert" /\ ~reviewed /\ Step(c, "run", "allowed")
           \/ open /\ reviewed /\ ~gate.kube /\ Step(c, Verdict(c, "unknown"), "unknown")
           \/ open /\ reviewed /\ gate.kube /\ Kept(Key(c)) /\ Step(c, Verdict(c, cache[Key(c)].was), cache[Key(c)].was)
           \/ open /\ reviewed /\ gate.kube /\ ~Kept(Key(c))
              /\ Step(c, IF Cred(c) = "bearer" THEN "token" ELSE "access", "none")
    /\ UNCHANGED <<gate, may, known, reachable, now, cache, permitted>>

\* TokenReview: who is it?  An apiserver that cannot be asked is no answer to keep.
AskToken(c) ==
    /\ call[c].pc = "token"
    /\ IF ~reachable THEN Step(c, Verdict(c, "unavailable"), "unavailable")
       ELSE IF ~known THEN Step(c, "answered", "unknown") ELSE Step(c, "access", "none")
    /\ UNCHANGED <<gate, may, known, reachable, now, cache, permitted>>

\* SubjectAccessReview: may it?  Reading is allowed to the user throughout.
AskAccess(c) ==
    /\ call[c].pc = "access"
    /\ IF ~reachable THEN Step(c, Verdict(c, "unavailable"), "unavailable")
       ELSE Step(c, "answered", IF may \/ ~IsWrite(c) THEN "allowed" ELSE "denied")
    /\ UNCHANGED <<gate, may, known, reachable, now, cache, permitted>>

\* The answer, back here: kept from now on, and decided on.
Decide(c) ==
    /\ call[c].pc = "answered"
    /\ cache' = [[k \in Reviewed |-> IF Kept(k) THEN cache[k] ELSE NoAnswer]
                    EXCEPT ![Key(c)] = [at |-> now, was |-> call[c].answer]]
    /\ Step(c, Verdict(c, call[c].answer), call[c].answer)
    /\ UNCHANGED <<gate, may, known, reachable, now, permitted>>

\* The handler runs; a write may leave a job, whose worker asks again, uncached, before it
\* destroys anything.
Handle(c) ==
    /\ call[c].pc = "run"
    /\ Step(c, IF IsWrite(c) THEN "job" ELSE "done", call[c].answer)
    /\ UNCHANGED <<gate, may, known, reachable, now, cache, permitted>>

HasUser(c) == Cred(c) \in {"bearer", "cert"} /\ call[c].answer \in {"allowed", "denied"}
Trusted(c) == call[c].answer = "allowed" \/ ~gate.enforce \* mutant: the first answer is enough
Recheck(c) ==
    \/ ~gate.enforce
    \/ HasUser(c) /\ may
    \/ ~HasUser(c) /\ Cred(c) = "admin" /\ call[c].answer = "allowed"

\* Refused for good, or destroyed; an apiserver that cannot be asked leaves the job waiting.
AskAgain(c) ==
    /\ call[c].pc = "job"
    /\ HasUser(c) => reachable
    /\ Step(c, IF Recheck(c) THEN "destroys" ELSE "refused", call[c].answer)
    /\ UNCHANGED <<gate, may, known, reachable, now, cache, permitted>>

(***************************************************************************)
(* Outside.                                                                *)
(***************************************************************************)
Asking(c) == call[c].pc \in {"token", "access", "answered", "run"}
Tick ==
    /\ now < Ticks /\ now' = now + 1
    /\ \A c \in Calls : Asking(c) => call[c].at = now
    /\ permitted' = IF may THEN permitted \union {now'} ELSE permitted
    /\ UNCHANGED <<gate, may, known, reachable, cache, call>>

\* A role is bound or unbound, the bearer expires, the apiserver goes or comes back.
ChangeOutside ==
    /\ gate.changes > 0 /\ gate' = [gate EXCEPT !.changes = @ - 1]
    /\ \/ may' = ~may /\ UNCHANGED <<known, reachable>>
       \/ known' = FALSE /\ known /\ UNCHANGED <<may, reachable>>
       \/ reachable' = ~reachable /\ UNCHANGED <<may, known>>
    /\ permitted' = IF may' THEN permitted \union {now} ELSE permitted
    /\ UNCHANGED <<now, cache, call>>

GNext ==
    \/ \E c \in Calls : \/ Arrive(c) \/ AskToken(c) \/ AskAccess(c) \/ Decide(c)
                        \/ Handle(c) \/ AskAgain(c)
    \/ Tick \/ ChangeOutside

GSpec == GInit /\ [][GNext]_gvars

-----------------------------------------------------------------------------
PermittedSince(t) == \E p \in permitted : p >= t
ByUser(c) == gate.enforce /\ IsWrite(c) /\ Cred(c) \in {"bearer", "cert"}

(* No route that destroys is gated as less than a drive operation, and no gate   *)
(* that enforces lets a write of a reviewed caller in that was not allowed       *)
(* within the cache's minute and the length of one review: however answers of    *)
(* concurrent calls overtake each other and replace one another in the cache     *)
(* (kubeauth.rs, classify and reviewed).                                         *)
LetsInByReview ==
    /\ \A r \in WriteRoutes : Destroys(r[1]) => Classify(r[1], r[2])[1] = "driveoperations"
    /\ \A c \in Calls : ByUser(c) /\ call[c].pc = "run" => PermittedSince(call[c].at - Ttl - 1)

(* What the worker destroys for a reviewed caller was allowed when it asked, and *)
(* not by an answer kept from before (kubeauth.rs, recheck).                     *)
DestroysByNow == \A c \in Calls : ByUser(c) /\ call[c].pc = "destroys" => call[c].at \in permitted

(* What the gate lets in and what the worker destroys (kubeauth.rs).             *)
GateOK == LetsInByReview /\ DestroysByNow
=============================================================================
