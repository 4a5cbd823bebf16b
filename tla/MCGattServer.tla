---------------------------- MODULE MCGattServer ----------------------------
(***************************************************************************)
(* The GATT server for TLC: the database and the prepared writes of one    *)
(* bearer, whose steps interleave; the budgets chosen at the start let one *)
(* of the two move.                                                        *)
(***************************************************************************)
EXTENDS GattServerDb, PreparedWrites

MCIncludes == [s \in Service |-> {}]
MCIncluding == [s \in Service |-> IF s = "c" THEN {"a"} ELSE {}]
MCAllowed == [s \in Service |-> IF s = "a" THEN {0, 1} ELSE {0, 1, 2}]

NoDb == [adds |-> 0, removals |-> 0, links |-> 0, writes |-> 0, bonds |-> FALSE]
\* Changes of the database among peers that are not bonded; bonds over a database that
\* stays as it is once it was set up.
MCDbBudgets ==
  {[adds |-> 3, removals |-> 2, links |-> 2, writes |-> 1, bonds |-> FALSE],
   [adds |-> 1, removals |-> 0, links |-> 3, writes |-> 3, bonds |-> TRUE], NoDb}
MCReuse == {[adds |-> 2, removals |-> 1, links |-> 2, writes |-> 1, bonds |-> TRUE]}

MCHandler == [a \in Attribute |-> IF a = "v" THEN "value" ELSE
                                  IF a = "w" THEN "onWrite" ELSE "onPartialWrite"]

Init ==
  /\ DbInit /\ PrepInit
  /\ dbBudget = NoDb \/ pieces = 0
Next ==
  \/ DbNext /\ UNCHANGED prepVars
  \/ PrepNext /\ UNCHANGED dbVars
vars == <<dbVars, prepVars>>

\* The application calls back for every write, and says whether it permits a piece.
Fairness ==
  /\ WF_prepVars(\E permitted \in BOOLEAN : Authorized(permitted) /\ UNCHANGED dbVars)
  /\ \A e \in 1 .. MaxExecutions : \A i \in 1 .. 3 :
       WF_prepVars(/\ e \in DOMAIN executions /\ i \in DOMAIN executions[e].results
                   /\ \E result \in {"ok", "error"} : WriteCallback(e, i, result)
                   /\ UNCHANGED dbVars)
Spec == Init /\ [][Next]_vars /\ Fairness

\* An execution is answered once the application has called back.
EveryExecutionAnswered == []<>(currentExecution = 0)
=============================================================================
