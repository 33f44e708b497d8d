------------------------------- MODULE MCCard -------------------------------
(***************************************************************************)
(* Card on a small instance: the card that manages a code and the one that *)
(* disarms with it, two alarm panels, and a user who logs out and in.      *)
(***************************************************************************)
EXTENDS Card, TLC

CONSTANTS manager, disarm, anna, house, flat

\* The panels are interchangeable.
Houses == Permutations({house, flat})
=============================================================================
