------------------------------- MODULE Absent -------------------------------
(* The value of an Option that is None, for the modules that are checked     *)
(* together.                                                                 *)
CONSTANT None
=============================================================================
