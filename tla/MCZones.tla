------------------------------- MODULE MCZones -------------------------------
(***************************************************************************)
(* Zones on small instances.                                               *)
(***************************************************************************)
EXTENDS Zones

\* A request in a split system changes no zone: what its keys do to the panel, the panel
\* also does by itself.  It is left out there to keep the instance small.
FewRequests == [m \in Modes |-> IF m = "split" THEN 0 ELSE 1]
=============================================================================
