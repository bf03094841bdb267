--------------------------- MODULE MCRegistrySync ---------------------------
(* A small instance of RegistrySync: two events, and three files that      *)
(* differ in an event, in a definition, or in both.                         *)
EXTENDS RegistrySync

CONSTANTS d1, d2

Is(d) == [def |-> d, status |-> "active"]
MCFiles == {[e \in Events |-> Is(d1)],
            [e \in Events |-> Is(d2)],
            [e \in Events |-> IF e = "task_a" THEN Is(d2) ELSE Absent]}
MCPuts == {Is(d2)}
=============================================================================
