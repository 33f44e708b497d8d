---------------------------- MODULE MCSavedDisarm ----------------------------
(* A small instance of SavedDisarm for TLC. *)
EXTENDS SavedDisarm, TLC

CONSTANTS p1, a1, a2

OnePanel == {p1}
TwoAccounts == {a1, a2}
=============================================================================
