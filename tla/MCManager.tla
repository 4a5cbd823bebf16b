----------------------------- MODULE MCManager -----------------------------
(***************************************************************************)
(* The manager for TLC: the scanner and the initiator of ConnectionManager *)
(* beside Advertising, whose steps interleave.  The budgets chosen at the  *)
(* start let one of the two do most of the work.                           *)
(***************************************************************************)
EXTENDS ConnectionManager, Advertising

MCDevice == 1 .. 3

Open(active, duplicates) == [active |-> active, filters |-> {}, filterDuplicates |-> duplicates]
Filtered(S) == [active |-> FALSE, filters |-> S, filterDuplicates |-> FALSE]

\* Scanners with address filters and at most one connect; scanners without, and three.
Central ==
  {[kinds |-> {Filtered({1}), Filtered({2, 3}), Open(TRUE, FALSE)}, scans |-> 3, connects |-> 1,
    peers |-> {1}, drops |-> 0, rejects |-> 0],
   [kinds |-> {Open(FALSE, TRUE)}, scans |-> 1, connects |-> 3,
    peers |-> {1, 2}, drops |-> 0, rejects |-> 0],
   [kinds |-> {}, scans |-> 0, connects |-> 3, peers |-> {1, 2}, drops |-> 1, rejects |-> 1]}

\* What is left to the scanner and the initiator beside every start of advertising.
Peripheral ==
  [kinds |-> {Open(FALSE, FALSE)}, scans |-> 1, connects |-> 0, peers |-> {}, drops |-> 0,
   rejects |-> 0]
MCBudgets == Central \cup {Peripheral}

\* A filtered scan and two connects.
MCShared ==
  {[kinds |-> {Filtered({3})}, scans |-> 1, connects |-> 2, peers |-> {1, 2},
    drops |-> 0, rejects |-> 0]}

\* Active and passive scanners, with and without a filter of repeated reports.
MCRepeats ==
  {[kinds |-> {Open(TRUE, FALSE), Open(FALSE, TRUE), Open(FALSE, FALSE)}, scans |-> 3,
    connects |-> 0, peers |-> {}, drops |-> 0, rejects |-> 0]}

ManagerInit == Init /\ AdvInit /\ (budget \in Central => starts = MaxStarts)
ManagerNext ==
  \/ Next /\ UNCHANGED advVars
  \/ AdvNext /\ UNCHANGED vars
ManagerSpec == ManagerInit /\ [][ManagerNext]_<<vars, advVars>> /\ Fairness
=============================================================================
