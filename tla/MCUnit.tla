------------------------------- MODULE MCUnit -------------------------------
(***************************************************************************)
(* Unit on a small instance: a code, which only records change, and a      *)
(* detector, which the staleness sweep changes, too.                       *)
(***************************************************************************)
EXTENDS Unit

CONSTANTS code, detector, h1, h2
=============================================================================
