---------------------------- MODULE GattServerDb ----------------------------
(***************************************************************************)
(* The GATT server database (GattServerDb in lib/internal/gatt.js): where  *)
(* services are placed among the 16-bit handles, the attributes that are   *)
(* looked up by handle, and the subscriptions (the Client Characteristic   *)
(* Configuration descriptors), one value per connection, which the storage *)
(* keeps by handle for the peers that are bonded.  Every service has one   *)
(* characteristic that can be subscribed to; its descriptor is the last    *)
(* attribute of the service.                                               *)
(***************************************************************************)
EXTENDS Integers, Sequences, SequencesExt, FiniteSetsExt

CONSTANTS
  Peer,
  Service,
  Includes,     (* the services a service includes                           *)
  Allowed,      (* what may be written to the descriptor of a service         *)
  BuiltIn,      (* handles of the services every database has                 *)
  Limit,        (* the handle no service reaches: 0xffff                      *)
  Proposals,    (* start handles an application asks for; 0 asks for none     *)
  DbBudgets     (* what may happen in a behaviour: see the assumption         *)

Nobody == "nobody"
System == "system"   \* the services that are always there

ASSUME DbAssumption ==
  /\ Service \cap {Nobody, System} = {}
  /\ Includes \in [Service -> SUBSET Service] /\ \A s \in Service : IsFiniteSet(Includes[s])
  /\ Allowed \in [Service -> SUBSET (0 .. 3)] /\ \A s \in Service : 0 \in Allowed[s]
  /\ BuiltIn \in Nat /\ Limit \in Nat /\ BuiltIn < Limit
  /\ Proposals \subseteq Nat
  /\ DbBudgets \subseteq [adds : Nat, removals : Nat, links : Nat, writes : Nat, bonds : BOOLEAN]

VARIABLES
  allServices,   \* the services in the database with their handles, in order
  attDb,         \* the service an attribute belongs to, by handle
  attDbLength,   \* of the array
  cccds,         \* per service and peer, the value of the descriptor; -1 is none
  up,            \* the peers that are connected
  bonded,        \* the peers there are keys for
  stored,        \* the values the storage has, by peer and handle
  told,          \* what onSubscriptionChange last told the application
  wrote,         \* history: what the peer asked for
  dbBudget

dbVars == <<allServices, attDb, attDbLength, cccds, up, bonded, stored, told, wrote, dbBudget>>

Handle == 1 .. Limit - 1

InDb == {allServices[i].service : i \in DOMAIN allServices} \ {System}
EntryOf(all, s) == all[CHOOSE i \in DOMAIN all : all[i].service = s]
CccdOf(s) == EntryOf(allServices, s).last

DbInit ==
  /\ allServices = <<[service |-> System, first |-> 1, last |-> BuiltIn]>>
  /\ attDb = [h \in Handle |-> IF h <= BuiltIn THEN System ELSE Nobody]
  /\ attDbLength = BuiltIn + 1
  /\ cccds = [s \in Service |-> [p \in Peer |-> -1]]
  /\ up = {} /\ bonded = {}
  /\ stored = [p \in Peer |-> [h \in Handle |-> 0]]
  /\ told = [s \in Service |-> [p \in Peer |-> 0]]
  /\ wrote = [s \in Service |-> [p \in Peer |-> 0]]
  /\ dbBudget \in DbBudgets

-----------------------------------------------------------------------------
(* addServices and removeService *)

\* The service declaration, the included services, and the characteristic's declaration,
\* value and descriptor.
NumberOfHandles(s) == 4 + Cardinality(Includes[s])

\* The gaps between the services: before the i-th, and after the last.
GapStart(all, i) == IF i = 1 THEN 1 ELSE all[i - 1].last + 1
GapEnd(all, i) == IF i > Len(all) THEN Limit ELSE all[i].first

HasRoom(all, i, first, n) == GapStart(all, i) <= first /\ first + n <= GapEnd(all, i)

\* A service goes where it asks to be, else into the first gap that takes it. (0 handles
\* left is what stands for no place.)
Place(all, wish) ==
  LET n == NumberOfHandles(wish.service)
      At(i, first) == InsertAt(all, i, [service |-> wish.service, first |-> first,
                                        last |-> first + n - 1])
      gaps == 1 .. Len(all) + 1
      asked == {i \in gaps : wish.startHandle # 0 /\ HasRoom(all, i, wish.startHandle, n)}
      open == {i \in gaps : HasRoom(all, i, GapStart(all, i), n)}
  IN CASE asked # {} -> At(Min(asked), wish.startHandle)
       [] asked = {} /\ open # {} -> At(Min(open), GapStart(all, Min(open)))
       [] OTHER -> all

\* One service or two are added in a call.
Placed(wishes) ==
  LET one == Place(allServices, wishes[1])
  IN IF Len(wishes) = 1 THEN one ELSE Place(one, wishes[2])

\* When one of the services finds no place, those before it are taken out again. (Slip:
\* they are not.)
FailedHalfway(wishes) == Placed(wishes)
Failed(wishes) == allServices

\* The attributes of the new services. Serializing the UUID of an included service
\* throws: what comes after the declaration of that service is never added.
Attributes(all, wishes) ==
  LET broken == {i \in DOMAIN wishes : Includes[wishes[i].service] # {}}
      upTo == IF broken = {} THEN Len(wishes) ELSE Min(broken)
      Added(h) == {i \in 1 .. upTo :
                     LET e == EntryOf(all, wishes[i].service)
                     IN h \in e.first .. (IF i \in broken THEN e.first ELSE e.last)}
  IN [h \in Handle |-> IF Added(h) = {} THEN attDb[h] ELSE wishes[Min(Added(h))].service]

HighestOf(db) == Max({h \in Handle : db[h] # Nobody} \cup {0})

AddServices(wishes) ==
  LET ids == {wishes[i].service : i \in DOMAIN wishes}
      placed == Placed(wishes)
      ok == Len(placed) = Len(allServices) + Len(wishes)
      after == IF ok THEN Attributes(placed, wishes) ELSE attDb
  IN /\ dbBudget.adds > 0 /\ ids \cap InDb = {} /\ Cardinality(ids) = Len(wishes)
     /\ dbBudget' = [dbBudget EXCEPT !.adds = @ - 1]
     /\ allServices' = IF ok THEN placed ELSE Failed(wishes)
     /\ attDb' = after
     /\ attDbLength' = Max({attDbLength, HighestOf(after) + 1})
     \* The characteristics are new objects, and the application begins anew with them.
     /\ cccds' = [s \in Service |-> IF ok /\ s \in ids THEN [p \in Peer |-> -1] ELSE cccds[s]]
     /\ told' = [s \in Service |-> IF ok /\ s \in ids THEN [p \in Peer |-> 0] ELSE told[s]]
     /\ wrote' = [s \in Service |-> IF ok /\ s \in ids THEN [p \in Peer |-> 0] ELSE wrote[s]]
     /\ UNCHANGED <<up, bonded, stored>>

LengthAfter(entry, db) ==
  IF attDbLength = entry.last + 1 THEN HighestOf(db) + 1 ELSE attDbLength

RemoveService(s) ==
  /\ dbBudget.removals > 0 /\ s \in InDb
  /\ dbBudget' = [dbBudget EXCEPT !.removals = @ - 1]
  /\ LET e == EntryOf(allServices, s)
         after == [h \in Handle |-> IF h \in e.first .. e.last THEN Nobody ELSE attDb[h]]
     IN /\ attDb' = after
        /\ attDbLength' = LengthAfter(e, after)
  /\ allServices' = RemoveAt(allServices, CHOOSE i \in DOMAIN allServices : allServices[i].service = s)
  /\ UNCHANGED <<cccds, up, bonded, stored, told, wrote>>

-----------------------------------------------------------------------------
(* Subscriptions. A change concerns the services that are in the database then. *)

InEach(f, p, value) ==
  [s \in Service |-> IF s \in InDb THEN [f[s] EXCEPT ![p] = value[s]] ELSE f[s]]

ValueOf(s, p) == IF cccds[s][p] = -1 THEN 0 ELSE cccds[s][p]

\* Before the connection is handed out the values of a bonded peer are read from the
\* storage; afterwards the application is told of those that are not 0.
Connect(p) ==
  /\ p \notin up /\ dbBudget.links > 0
  /\ dbBudget' = [dbBudget EXCEPT !.links = @ - 1]
  /\ up' = up \cup {p}
  /\ IF p \in bonded
     THEN /\ cccds' = InEach(cccds, p, [s \in InDb |-> stored[p][CccdOf(s)]])
          /\ told' = InEach(told, p, [s \in InDb |-> IF stored[p][CccdOf(s)] # 0
                                                     THEN stored[p][CccdOf(s)] ELSE told[s][p]])
     ELSE UNCHANGED <<cccds, told>>
  /\ UNCHANGED <<allServices, attDb, attDbLength, bonded, stored, wrote>>

\* Slip: the application is not told that a subscription ended with its connection.
ToldAfterDisconnectAsBefore(p) == told

ToldAfterDisconnect(p) == InEach(told, p, [s \in InDb |-> IF ValueOf(s, p) # 0 THEN 0 ELSE told[s][p]])

Disconnect(p) ==
  /\ p \in up
  /\ up' = up \ {p}
  /\ told' = ToldAfterDisconnect(p)
  /\ cccds' = InEach(cccds, p, [s \in InDb |-> -1])
  /\ wrote' = IF p \in bonded THEN wrote ELSE InEach(wrote, p, [s \in InDb |-> 0])
  /\ UNCHANGED <<allServices, attDb, attDbLength, bonded, stored, dbBudget>>

\* Slip: pairing keeps the keys but not the values written before it.
StoredOnBondingLater(p) == stored

StoredOnBonding(p) ==
  [stored EXCEPT ![p] = [h \in Handle |-> IF \E s \in InDb : CccdOf(s) = h
                                          THEN ValueOf(CHOOSE s \in InDb : CccdOf(s) = h, p)
                                          ELSE @[h]]]

\* Pairing with bonding completes.
OnBonded(p) ==
  /\ dbBudget.bonds /\ p \in up
  /\ bonded' = bonded \cup {p}
  /\ stored' = StoredOnBonding(p)
  /\ UNCHANGED <<allServices, attDb, attDbLength, cccds, up, told, wrote, dbBudget>>

\* A write to the descriptor of a service, by its handle.
WriteCccd(p, h, v) ==
  /\ p \in up /\ dbBudget.writes > 0 /\ attDb[h] \in InDb /\ h = CccdOf(attDb[h])
  /\ dbBudget' = [dbBudget EXCEPT !.writes = @ - 1]
  /\ LET s == attDb[h]
     IN IF v \in Allowed[s]
        THEN /\ cccds' = [cccds EXCEPT ![s][p] = v]
             /\ stored' = IF p \in bonded /\ ValueOf(s, p) # v
                          THEN [stored EXCEPT ![p][h] = v] ELSE stored
             /\ told' = [told EXCEPT ![s][p] = v]
             /\ wrote' = [wrote EXCEPT ![s][p] = v]
        ELSE UNCHANGED <<cccds, stored, told, wrote>>
  /\ UNCHANGED <<allServices, attDb, attDbLength, up, bonded>>

\* removeBond of the manager refuses a peer that is connected.
RemoveBond(p) ==
  /\ p \in bonded \ up
  /\ bonded' = bonded \ {p}
  /\ stored' = [stored EXCEPT ![p] = [h \in Handle |-> 0]]
  /\ wrote' = [s \in Service |-> [wrote[s] EXCEPT ![p] = 0]]
  /\ UNCHANGED <<allServices, attDb, attDbLength, cccds, up, told, dbBudget>>

Wish == [service : Service, startHandle : Proposals]

DbNext ==
  \/ \E w \in Wish : AddServices(<<w>>) \/ \E x \in Wish : AddServices(<<w, x>>)
  \/ \E s \in Service : RemoveService(s)
  \/ \E p \in Peer : Connect(p) \/ Disconnect(p) \/ OnBonded(p) \/ RemoveBond(p)
  \/ \E p \in Peer, h \in Handle, v \in 0 .. 3 : WriteCccd(p, h, v)

DbSpec == DbInit /\ [][DbNext]_dbVars

-----------------------------------------------------------------------------
(* Properties. *)

\* The attributes are those of the services, each at its handles, the services do not
\* overlap, and the array ends with the last of them: also after an addServices that
\* failed at its second service, and after removals in any order.
DbMatchesServices ==
  /\ \A i \in DOMAIN allServices : i > 1 => allServices[i - 1].last < allServices[i].first
  /\ \A h \in Handle : attDb[h] =
       LET of == {i \in DOMAIN allServices : h \in allServices[i].first .. allServices[i].last}
       IN IF of = {} THEN Nobody ELSE allServices[Min(of)].service
  /\ attDbLength = HighestOf(attDb) + 1

\* What the application was last told of a subscription is what notify goes by.
ApplicationKnowsSubscribers ==
  \A s \in InDb, p \in Peer : told[s][p] = IF p \in up THEN ValueOf(s, p) ELSE 0

\* A subscription is what the peer itself asked for: in this connection or, once it is
\* bonded, in an earlier one (docs/api/gatt-server.md, onSubscriptionChange).
SubscriptionsAreThePeers ==
  \A s \in InDb, p \in up : ValueOf(s, p) = wrote[s][p]
=============================================================================
