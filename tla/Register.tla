------------------------------ MODULE Register ------------------------------
(***************************************************************************)
(* What a state file promises (inventory.rs, write_atomic): the values a   *)
(* later start may find in it.  A save adds its value as one more that may *)
(* be found and settles on it; whatever stops the machine in between       *)
(* settles on one of them.  No value is ever half of one, and none comes   *)
(* back once a newer one has settled.                                      *)
(***************************************************************************)
EXTENDS Naturals

CONSTANT Unusable       \* what the file may be before this program wrote it
VARIABLE kept           \* the values a start may find: what (whole or unusable), and the newer the higher n

RInit == \E v \in kept : kept = {v} /\ v.what \in Unusable \union {"whole"} /\ v.n \in Nat

\* A newer value takes its place beside those that may still come back.
Put == \E v \in kept' : /\ v.what = "whole" /\ \A w \in kept : v.n > w.n
                        /\ kept' = kept \union {v}

\* It is settled which one it is.
Settle == \E v \in kept : kept' = {v}

\* What cannot be read may be moved out of the way.
MoveAside == /\ \A v \in kept : v.what \in Unusable
             /\ kept' = kept \union {[what |-> "absent", n |-> 0]}

RSpec == RInit /\ [][Put \/ Settle \/ MoveAside]_kept
=============================================================================
