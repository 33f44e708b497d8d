------------------------------ MODULE CodeLimit ------------------------------
(***************************************************************************)
(* What USER-CODES.md promises of the saved-code API: the codes it gives   *)
(* to a panel keep a minimal distance, and no more than a few of them fall *)
(* into any window of time.  The limits are kept in memory: they reset     *)
(* when Home Assistant restarts.                                           *)
(***************************************************************************)
EXTENDS Naturals, FiniteSets

CONSTANTS
  Panel,    \* the control units (config entries)
  Gap,      \* least time between two codes (15 s)
  Window,   \* length of the window (300 s)
  Limit     \* codes in a window (3)

VARIABLES
  now,      \* a monotonic clock
  given     \* per panel, when codes were given to it since the start

vars == <<now, given>>

\* A set of times with the least distance.
Apart(times) == \A s, t \in times : s < t => t - s >= Gap

\* The times in the window that ends at t; of the fullest windows, one ends at a time in
\* the set.
InWindow(times, t) == {s \in times : s <= t /\ t < s + Window}

Few(times) == \A t \in times : Cardinality(InWindow(times, t)) <= Limit

Promise == \A p \in Panel : Apart(given[p]) /\ Few(given[p])

Init == now = 0 /\ given = [p \in Panel |-> {}]

\* Any code may be given that leaves the promise standing; at most one at a time.
Give(p) ==
  /\ now \notin given[p]
  /\ given' = [given EXCEPT ![p] = @ \cup {now}]
  /\ Promise'
  /\ UNCHANGED now

Tick == now' = now + 1 /\ UNCHANGED given

Restart == given' = [p \in Panel |-> {}] /\ UNCHANGED now

Next == Tick \/ Restart \/ \E p \in Panel : Give(p)

Spec == Init /\ [][Next]_vars
=============================================================================
