----------------------------- MODULE MCDetectors -----------------------------
(***************************************************************************)
(* Detectors with two detectors, enough for one to close while the other   *)
(* stays open.                                                             *)
(***************************************************************************)
EXTENDS Detectors

CONSTANTS d1, d2
=============================================================================
