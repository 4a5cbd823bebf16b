--------------------------- MODULE MCBondStorage ---------------------------
EXTENDS BondStorage

B(p, c, d, r, f) == [pairings |-> p, cccds |-> c, dbs |-> d, restarts |-> r, faults |-> f]

\* Bonds, subscriptions and databases with and without faults; the unbonded databases.
MCBudgets == {B(3, 1, 0, 2, 1), B(2, 2, 1, 1, 0), B(1, 2, 1, 1, 1), B(0, 0, 6, 2, 2)}
=============================================================================
