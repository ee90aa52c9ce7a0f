----------------------------- MODULE EngineCall -----------------------------
(***************************************************************************)
(* One call to the engine (stormblock.rs; retry/src/lib.rs): the tries a   *)
(* policy allows, their timeouts, backoff and Retry-After, what is retried *)
(* of a call that may not be made twice, the token that is read again, and *)
(* the credentials a destructive verb presents in turn.                    *)
(*                                                                         *)
(* Time is in units of the shortest timeout of a try.                      *)
(***************************************************************************)
EXTENDS Absent, Integers, Sequences

CONSTANTS Attempts, Base, MaxDelay, Deadline,  \* the policy
          Usual,                               \* the usual timeout of a try
          RetryAfters,                         \* what a 429 may ask for
          Scenes  \* what is called: idem (it may be sent twice), closes (it closes the drive), admin (of
                  \* each credential a destructive verb presents, in order, whether the engine takes it;
                  \* empty for an ordinary call), rotates (the engine may mint a new token)

VARIABLES scene,        \* one of Scenes
          token, minted,  \* the engine's node token, and what the file it is minted into holds
          cached, used, \* the node token this process remembers, and the one in the request; or None
          reread,       \* this try has read the token again
          nth,          \* the credential this request presents
          pc, try, elapsed,
          timeout,      \* of this try's requests
          applied,      \* how often the engine did it
          opened,       \* the engine has the drive open
          turned,       \* history: the token was rotated during the call
          result        \* None, "ok", "answer" (a refusal), "unauthorized", "error" or "gave up"

cvars == <<scene, token, minted, cached, used, reread, nth, pc, try, elapsed, timeout, applied, opened, turned, result>>

\* A policy, and what is called.
PolicyOK ==
    /\ Attempts \in Nat \ {0} /\ Deadline \in Nat \ {0} /\ Usual \in Nat \ {0}
    /\ RetryAfters \subseteq Nat
    /\ \A s \in Scenes : s.idem \in BOOLEAN /\ s.closes \in BOOLEAN /\ s.admin \in Seq(BOOLEAN)
ASSUME CallAssumption == PolicyOK
ASSUME NoneAssumption == None \notin Int /\ None \notin {"ok", "answer", "unauthorized", "error", "gave up"}

CInit ==
    /\ scene \in Scenes
    /\ token = 2 /\ minted \in {None, 2} /\ cached \in {None, 1, 2} /\ used = None /\ reread = FALSE /\ nth = 1
    /\ pc = "try" /\ try = 1 /\ elapsed = 0 /\ timeout = 0
    /\ applied = 0 /\ opened \in BOOLEAN /\ turned = FALSE /\ result = None

Least(a, b) == IF a < b THEN a ELSE b
Most(a, b) == IF a > b THEN a ELSE b

\* Policy::backoff after failed try n, and its jitter.
Backoff(n) == Least(Base * 2 ^ (n - 1), MaxDelay)
Jitter(d) == (d - d \div 2)..d

\* Attempt::timeout: cut to what is left, and never nothing.
Uncut == Usual \* mutant: the usual timeout, whatever is left
Timeout == Most(1, Least(Usual, Deadline - elapsed))

(***************************************************************************)
(* with_backoff, after a try.                                              *)
(***************************************************************************)
EndsTry(how, spent) ==
    /\ result' = how /\ pc' = "done" /\ elapsed' = elapsed + spent
    /\ UNCHANGED try

\* A transient failure: again after the delay, or given up.
Again(floor, spent) ==
    \E delay \in Jitter(Backoff(try)) :
        LET wait == Most(delay, floor)
        IN  IF try >= Attempts \/ elapsed + spent + wait >= Deadline
            THEN EndsTry("gave up", spent)
            ELSE /\ try' = try + 1 /\ pc' = "try" /\ elapsed' = elapsed + spent + wait
                 /\ UNCHANGED result

\* What may have reached the engine is repeated only when that does no harm.
AlwaysAgain(spent) == Again(0, spent) \* mutant
Lost(spent) == IF scene.idem THEN Again(0, spent) ELSE EndsTry("error", spent)

(***************************************************************************)
(* One try: its requests and what becomes of them.                         *)
(***************************************************************************)
\* The node token; looked up again while there is none.
Bearer == IF cached = None THEN minted ELSE cached
Present ==
    /\ pc = "try"
    /\ used' = Bearer /\ cached' = Bearer /\ nth' = 1 /\ reread' = FALSE
    /\ timeout' = Timeout /\ pc' = "sent"
    /\ UNCHANGED <<scene, token, minted, try, elapsed, applied, opened, turned, result>>

Ordinary == scene.admin = <<>>
Taken == IF Ordinary THEN used = token ELSE scene.admin[nth]

\* 401 or 403, soon or late: the next credential; or the token as it is in the file now.
Unauthorized ==
    /\ pc = "sent" /\ ~Taken
    /\ \E spent \in {0, timeout} :
         \/ /\ ~Ordinary /\ nth < Len(scene.admin)
            /\ nth' = nth + 1 /\ elapsed' = elapsed + spent
            /\ UNCHANGED <<cached, used, reread, pc, try, result>>
         \/ /\ Ordinary /\ ~reread /\ minted \notin {None, used}
            /\ cached' = minted /\ used' = minted /\ reread' = TRUE /\ elapsed' = elapsed + spent
            /\ UNCHANGED <<nth, pc, try, result>>
         \/ /\ IF Ordinary THEN reread \/ minted \in {None, used} ELSE nth = Len(scene.admin)
            /\ cached' = IF Ordinary /\ ~reread THEN minted ELSE cached
            /\ EndsTry("unauthorized", spent)
            /\ UNCHANGED <<used, reread, nth>>
    /\ UNCHANGED <<scene, token, minted, timeout, applied, opened, turned>>

Does == applied' = applied + 1 /\ opened' = (opened /\ ~scene.closes)
Sent == pc = "sent" /\ UNCHANGED <<scene, token, minted, cached, used, reread, nth, timeout, turned>>

\* The connection was refused: nothing reached the engine.
Unreached == Sent /\ Again(0, 1) /\ UNCHANGED <<applied, opened>>

\* Timed out, reset, or 5xx: done or not.
Unanswered ==
    /\ Sent /\ Taken
    /\ Does \/ UNCHANGED <<applied, opened>>
    /\ Lost(timeout)

\* 429: not processed.
TooMany == Sent /\ Taken /\ (\E a \in RetryAfters : Again(a, 0)) /\ UNCHANGED <<applied, opened>>

\* 4xx.  Closing a drive that is not open is one; after an earlier try it means that one did.
NotFound == scene.closes /\ ~opened
Answered ==
    /\ Sent /\ Taken /\ (scene.closes => ~opened)
    /\ EndsTry(IF NotFound /\ try > 1 THEN "ok" ELSE "answer", 0)
    /\ UNCHANGED <<applied, opened>>

\* 2xx, and a body that is read or lost.
Succeeds ==
    /\ Sent /\ Taken /\ ~NotFound
    /\ Does
    /\ EndsTry("ok", 0) \/ EndsTry("error", timeout)

\* The engine mints a new token, in its file at once.
Rotate ==
    /\ scene.rotates /\ ~turned /\ pc # "done"
    /\ token' = 3 /\ minted' = 3 /\ turned' = TRUE
    /\ UNCHANGED <<scene, cached, used, reread, nth, pc, try, elapsed, timeout, applied, opened, result>>

CNext == Present \/ Unauthorized \/ Unreached \/ Unanswered \/ TooMany \/ Answered \/ Succeeds \/ Rotate

CSpec == CInit /\ [][CNext]_cvars

-----------------------------------------------------------------------------
(* What the caller is told is so: done means done (closed, for a close), a       *)
(* refusal of a call sent once means not done, and a call is refused for its     *)
(* token only when the file does not hold the engine's, or it was rotated        *)
(* meanwhile (stormblock.rs, send_once, send_admin_once and delete_drive).       *)
TellsTheTruth ==
    /\ result = "ok" => IF scene.closes THEN ~opened ELSE applied > 0
    /\ result \in {"answer", "unauthorized"} /\ ~scene.idem => applied = 0
    /\ result = "unauthorized" /\ Ordinary /\ ~turned => minted # token

(* A call that may not be made twice is done at most once, whatever is lost,     *)
(* refused and retried (retry/src/lib.rs, classify_error and classify_status).   *)
DoneOnce == ~scene.idem => applied <= 1

(* A call ends within its policy's deadline, but for the refusals of its last    *)
(* try: each credential's request has the whole of the try's timeout             *)
(* (retry/src/lib.rs, with_backoff; stormblock.rs, call).                        *)
EndsInTime ==
    /\ try <= Attempts
    /\ elapsed <= Deadline + Usual * (IF Ordinary THEN 1 ELSE Len(scene.admin) - 1)
    /\ (Ordinary => ~reread) /\ nth = 1 => elapsed <= Deadline

(* A call tells the truth, does no harm by its retries and ends in time          *)
(* (stormblock.rs and retry/src/lib.rs).                                         *)
CallOK == TellsTheTruth /\ DoneOnce /\ EndsInTime
=============================================================================
