---------------------------- MODULE MCPacketLoop ----------------------------
(***************************************************************************)
(* PacketLoop on small instances: one background query asked for by two    *)
(* callers, one code sequence with the default budget, and the settings    *)
(* command with its completion.                                            *)
(***************************************************************************)
EXTENDS PacketLoop

CONSTANTS d1, d2,   \* "Details"
          code,     \* an arm or disarm sequence with the configured code
          settings  \* "Get settings", whose caller waits

AllDetails == {d1, d2} \cap Command
WithCompletion == {settings} \cap Command

KeysOf == [c \in Command |-> IF c = code THEN 2 ELSE 1]
BudgetOf == [c \in Command |-> IF c = code THEN 2 ELSE 1]
=============================================================================
