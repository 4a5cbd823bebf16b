----------------------------- MODULE MCSmpPairing -----------------------------
EXTENDS SmpPairing

F(io, mitm, sc, dist) == [io |-> io, mitm |-> mitm, sc |-> sc, bond |-> TRUE, dist |-> dist]
Default(sc) == F("NoInputNoOutput", FALSE, sc, AllKeys)
MCDefaults == [x \in Sides |-> Default(TRUE)]
\* The slave also answers as a device without Secure Connections would.
MCOffers == [x \in Sides |->
  IF x = Master THEN {F("KeyboardDisplay", TRUE, TRUE, {"initId", "rspEnc"})}
  ELSE {F("KeyboardDisplay", FALSE, TRUE, {"initId"}), F("KeyboardOnly", TRUE, TRUE, {"rspId"}),
        F("DisplayOnly", FALSE, FALSE, AllKeys)}]
MCBudgets == {[calls |-> 3, slow |-> FALSE], [calls |-> 2, slow |-> TRUE]}
MCSlow == {[calls |-> 3, slow |-> TRUE]}
=============================================================================
