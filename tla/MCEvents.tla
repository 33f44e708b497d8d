------------------------------ MODULE MCEvents ------------------------------
(***************************************************************************)
(* Events on a small instance: a code, and a detector whose battery may be *)
(* discharged.                                                             *)
(***************************************************************************)
EXTENDS Events

CONSTANTS c1, detector
=============================================================================
