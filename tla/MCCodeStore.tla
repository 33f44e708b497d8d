----------------------------- MODULE MCCodeStore -----------------------------
(* Small instances of CodeStore for TLC. *)
EXTENDS CodeStore, TLC

CONSTANTS e1, e2, u1, u2, k1, k2, v1, v2

OneEntry == {e1}
TwoEntries == {e1, e2}
OneUser == {u1}
TwoUsers == {u1, u2}
OneKey == {k1}
TwoKeys == {k1, k2}
OneValue == {v1}
TwoValues == {v1, v2}

Symmetry == Permutations({e1, e2}) \cup Permutations({u1, u2})
              \cup Permutations({k1, k2}) \cup Permutations({v1, v2})
=============================================================================
