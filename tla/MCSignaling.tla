---------------------------- MODULE MCSignaling ----------------------------
EXTENDS Signaling

B(r, u, c, e, a) == [role |-> r, updates |-> u, channels |-> c, events |-> e, asks |-> a]

\* A slave with updates of its own and of its peer, with channels; a master.
MCBudgets == {B("slave", 3, 0, 1, 0), B("slave", 1, 3, 1, 0), B("master", 3, 0, 0, 1), B("master", 1, 2, 0, 1)}
=============================================================================
