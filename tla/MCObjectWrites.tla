--------------------------- MODULE MCObjectWrites ---------------------------
EXTENDS ObjectWrites

MCValues == {[tag |-> t, val |-> n] : t \in {"Real", "Unsigned"}, n \in {2, 3}}
              \cup {[tag |-> "Boolean", val |-> n] : n \in {0, 1}}
              \cup {[tag |-> "Enumerated", val |-> 1], [tag |-> "Null", val |-> 0]}

MCPriorities == 0..NumPriorities + 1 \cup {None}
=============================================================================
