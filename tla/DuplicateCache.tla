--------------------------- MODULE DuplicateCache ---------------------------
(***************************************************************************)
(* The cache of lib/internal/utils.js that filters duplicate advertisements*)
(* and bounds the number of stored GATT databases: a map of nodes, meant to*)
(* be a list as well, of which the first node is evicted when it is full.  *)
(*                                                                         *)
(* add never sets the next field of the node that was last, so next is null*)
(* in every node: where the code takes the successor of a node it gets     *)
(* null.  The fields prev and last are read only to set one another and are*)
(* left out, and so are the values.                                        *)
(*                                                                         *)
(* The definitions between a comment and the operator it is about are slips*)
(* of that operator; the properties tell each of them from the code.       *)
(***************************************************************************)
EXTENDS Naturals, FiniteSets

CONSTANTS
  Key,      (* addresses *)
  Capacity  (* what the constructor is given: 1024 or 50 *)

ASSUME CacheAssumption == Capacity \in Nat \ {0} /\ "null" \notin Key

VARIABLES
  nodeMap,   \* keys that have a node
  first,     \* key of the node the list begins with, or "null"
  capacity   \* room left

vars == <<nodeMap, first, capacity>>

\* The cache is well formed; in particular the room left is never above the capacity.
TypeOK ==
  /\ nodeMap \subseteq Key
  /\ first \in Key \cup {"null"}
  /\ capacity \in 0 .. Capacity

Init ==
  /\ nodeMap = {}
  /\ first = "null"
  /\ capacity = Capacity

\* first when the node of key k is gone.
FirstWithout(k) == IF first = k THEN "null" ELSE first

\* first when the node of key k was added to a list that begins with f.
FirstWith(f, k) == IF f = "null" THEN k ELSE f

\* Room when key k was removed.
RoomWithoutAlways(k) == capacity + 1
RoomWithout(k) == IF k \in nodeMap THEN capacity + 1 ELSE capacity

Remove(k) ==
  /\ k \in nodeMap
  /\ nodeMap' = nodeMap \ {k}
  /\ first' = FirstWithout(k)
  /\ capacity' = RoomWithout(k)

\* add, of a key that is in the cache or for which there is room: the node, if any,
\* is removed and a new one added.
Add(k) ==
  /\ RoomWithout(k) # 0
  /\ nodeMap' = nodeMap \cup {k}
  /\ first' = FirstWith(FirstWithout(k), k)
  /\ capacity' = RoomWithout(k) - 1

\* add, of a new key to a full cache: the first node goes.
AddEvicting(k) ==
  /\ RoomWithout(k) = 0
  /\ first # "null"
  /\ nodeMap' = (nodeMap \ {first}) \cup {k}
  /\ first' = FirstWith(FirstWithout(first), k)
  /\ UNCHANGED capacity

Next == \E k \in Key : Remove(k) \/ Add(k) \/ AddEvicting(k)

Spec == Init /\ [][Next]_vars

-----------------------------------------------------------------------------
(* Properties. *)

\* Every operation keeps the books: the nodes in the map and the room left add up to the
\* capacity, also when a key is added again or a node evicted.
RoomAccounting == Cardinality(nodeMap) + capacity = Capacity

\* A full cache always has a node to evict, although every removal of the first node
\* forgets the rest of the list; otherwise add would throw.
VictimExists == capacity = 0 => first \in nodeMap

\* The books are kept and a full cache can evict: add never throws and never overfills.
CacheIsSound == RoomAccounting /\ VictimExists
=============================================================================
