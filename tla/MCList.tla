------------------------------- MODULE MCList -------------------------------
(* A small instance of List: two cells at first, which may grow to four     *)
(* and eight.                                                               *)
EXTENDS List
=============================================================================
