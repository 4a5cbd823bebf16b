---------------------------- MODULE BondStorage ----------------------------
(***************************************************************************)
(* The bond storage (lib/internal/storage.js): what is known of each peer  *)
(* is kept in memory, read from the files when the own address is first    *)
(* used, and written through to the files by every change.  Peers that are *)
(* not bonded only have a GATT database stored, of at most Capacity peers  *)
(* (the DuplicateCache this module extends, whose evictions unlink files). *)
(*                                                                         *)
(* The files are written with writeFileSync, which a crash of the process  *)
(* or an error of the file system may leave undone or cut off in the       *)
(* middle; a file that was cut off does not parse and counts as absent     *)
(* when it is read.  The process may be restarted at any time.             *)
(*                                                                         *)
(* A key is the number of the pairing it is from; 0 is none.  Encryption   *)
(* keys of both directions are one key, and one handle stands for all.     *)
(***************************************************************************)
EXTENDS DuplicateCache, Integers, Sequences, Functions, Subsequences

CONSTANTS
  Peer,          (* identity addresses                                      *)
  Budgets        (* what may happen in a behaviour: see the assumption      *)

ASSUME StorageAssumption ==
  /\ "torn" \notin Key
  /\ Budgets \subseteq [pairings : Nat, cccds : Nat, dbs : Nat, restarts : Nat, faults : Nat]

VARIABLES
  loaded,        \* the own address has an entry in cache
  irks, ltks,    \* cache: keys by peer
  cccdValues,    \* cache: value of the handle by peer; -1 is none
  bondedDbs,     \* cache: bondedPeerGattDbs, by the pairing under which they were stored
  keysFile,      \* bonds/<peer>/keys.json: a record, Absent or Torn
  cccdFile,      \* bonds/<peer>/gatt_server_cccds/<handle>.json: a value, -1 or Torn
  dbFile,        \* bonds/<peer>/gatt_client_cache.json
  unbonded,      \* unbonded/<peer>/gatt_client_cache.json, oldest timestamp first
  bond,          \* history: the keys of the bond that was last made with the peer
  subscribed,    \* history: the value that was last stored for the peer
  troubled,      \* history: per peer and kind of file, that the last write or removal failed
  budget

bonds == <<irks, ltks, cccdValues, bondedDbs>>
bondFiles == <<keysFile, cccdFile, dbFile>>
unbondedCache == <<nodeMap, first, capacity>>
history == <<bond, subscribed, troubled>>
storageVars == <<loaded, bonds, bondFiles, unbondedCache, unbonded, history, budget>>

NoKeys == [irk |-> 0, ltk |-> 0]
Absent == -1
Torn == -2

\* Keys as a file or none.
AbsentKeys == [irk |-> Absent, ltk |-> Absent]
TornKeys == [irk |-> Torn, ltk |-> Torn]

StorageInit ==
  /\ loaded = FALSE
  /\ irks = [p \in Peer |-> 0] /\ ltks = [p \in Peer |-> 0]
  /\ cccdValues = [p \in Peer |-> Absent] /\ bondedDbs = [p \in Peer |-> Absent]
  /\ keysFile = [p \in Peer |-> AbsentKeys]
  /\ cccdFile = [p \in Peer |-> Absent] /\ dbFile = [p \in Peer |-> Absent]
  /\ unbonded = <<>>
  /\ Init
  /\ bond = [p \in Peer |-> NoKeys]
  /\ subscribed = [p \in Peer |-> Absent]
  /\ troubled = {}
  /\ budget \in Budgets

-----------------------------------------------------------------------------
(* init *)

\* What a restart makes of the files of a peer.
KeysIn(file) == IF file \in {AbsentKeys, TornKeys} THEN NoKeys ELSE file
ValueIn(file) == IF file = Torn THEN Absent ELSE file

\* Slip: the directories of peers without keys are skipped.
LoadedKeysFirst(p) == IF keysFile[p].irk > 0 THEN keysFile[p] ELSE NoKeys
LoadedKeys(p) == KeysIn(keysFile[p])

\* The first use of the own address reads the files; the GATT databases of peers that
\* are not bonded go into the cache in the order of their timestamps. There are never
\* more of them than the cache takes (EvictedFilesAreGone).
Load ==
  /\ ~loaded /\ loaded' = TRUE
  /\ irks' = [p \in Peer |-> LoadedKeys(p).irk]
  /\ ltks' = [p \in Peer |-> LoadedKeys(p).ltk]
  /\ cccdValues' = [p \in Peer |-> ValueIn(cccdFile[p])]
  /\ bondedDbs' = [p \in Peer |-> ValueIn(dbFile[p])]
  /\ nodeMap' = Range(unbonded)
  /\ first' = IF unbonded = <<>> THEN "null" ELSE Head(unbonded)
  /\ capacity' = Capacity - Len(unbonded)
  /\ UNCHANGED <<bondFiles, unbonded, history, budget>>

-----------------------------------------------------------------------------
(* Writing. "done" is a write that succeeds, "fails" one that throws, which *)
(* writeFile catches, "crashes" one during which the process ends.          *)

Ending == {"done", "fails", "crashes"}

\* Outcomes for a file that holds old.
WrittenTo(old, new, torn, ending) == IF ending = "done" THEN {new} ELSE {old, torn}

\* With the process, everything in memory goes.
Forgotten ==
  /\ loaded' = FALSE
  /\ irks' = [p \in Peer |-> 0] /\ ltks' = [p \in Peer |-> 0]
  /\ cccdValues' = [p \in Peer |-> Absent] /\ bondedDbs' = [p \in Peer |-> Absent]
  /\ nodeMap' = {} /\ first' = "null" /\ capacity' = Capacity

Spend(what, ending) ==
  /\ budget[what] > 0
  /\ ending # "done" => budget.faults > 0
  /\ budget' = [budget EXCEPT ![what] = @ - 1, !.faults = IF ending = "done" THEN @ ELSE @ - 1]

\* What goes wrong is forgotten when the file is next written or removed.
Troubled(p, kinds, ending) ==
  troubled' = IF ending = "done" THEN troubled \ ({p} \X kinds) ELSE troubled \cup ({p} \X kinds)

-----------------------------------------------------------------------------
(* storeKeys, storeCccd, storeGattCache *)

\* Pairing number n left an identity key, encryption keys, or both. An identity key of
\* an earlier pairing is kept in the cache, but not in the file.
StoreKeys(p, n, irk, ltk, ending) ==
  /\ loaded /\ n > bond[p].irk /\ n > bond[p].ltk
  /\ {irk, ltk} \subseteq {0, n} /\ n \in {irk, ltk}
  /\ Spend("pairings", ending)
  /\ \E file \in WrittenTo(keysFile[p], [irk |-> irk, ltk |-> ltk], TornKeys, ending) :
       keysFile' = [keysFile EXCEPT ![p] = file]
  /\ bond' = [bond EXCEPT ![p] = [irk |-> irk, ltk |-> ltk]]
  /\ Troubled(p, {"keys"}, ending)
  /\ IF ending = "crashes" THEN Forgotten
     ELSE /\ irks' = [irks EXCEPT ![p] = IF irk = 0 THEN @ ELSE irk]
          /\ ltks' = [ltks EXCEPT ![p] = ltk]
          /\ UNCHANGED <<loaded, cccdValues, bondedDbs, unbondedCache>>
  /\ UNCHANGED <<cccdFile, dbFile, unbonded, subscribed>>

\* A value that is no change is not written.
IsChange(p, v) == cccdValues[p] # v

StoreCccd(p, v, ending) ==
  /\ loaded /\ (irks[p] # 0 \/ ltks[p] # 0)
  /\ subscribed' = [subscribed EXCEPT ![p] = v]
  /\ Spend("cccds", ending)
  /\ IF IsChange(p, v)
     THEN /\ \E file \in WrittenTo(cccdFile[p], v, Torn, ending) :
               cccdFile' = [cccdFile EXCEPT ![p] = file]
          /\ Troubled(p, {"cccd"}, ending)
          /\ IF ending = "crashes" THEN Forgotten
             ELSE /\ cccdValues' = [cccdValues EXCEPT ![p] = v]
                  /\ UNCHANGED <<loaded, irks, ltks, bondedDbs, unbondedCache>>
     ELSE /\ ending = "done"
          /\ UNCHANGED <<loaded, bonds, cccdFile, unbondedCache, troubled>>
  /\ UNCHANGED <<keysFile, dbFile, unbonded, bond>>

\* The database of a peer whose bond was made by pairing n.
StoreBondedDb(p, ending) ==
  /\ loaded /\ ltks[p] # 0
  /\ Spend("dbs", ending)
  /\ \E file \in WrittenTo(dbFile[p], ltks[p], Torn, ending) :
       dbFile' = [dbFile EXCEPT ![p] = file]
  /\ UNCHANGED troubled
  /\ IF ending = "crashes" THEN Forgotten
     ELSE /\ bondedDbs' = [bondedDbs EXCEPT ![p] = ltks[p]]
          /\ UNCHANGED <<loaded, irks, ltks, cccdValues, unbondedCache>>
  /\ UNCHANGED <<keysFile, cccdFile, unbonded, bond, subscribed>>

Without(files, k) == Pick(files, {i \in DOMAIN files : files[i] # k})

\* The files when the cache gives up the first key to take k: the 'remove' listener
\* unlinks one. (Slip: the file of the new key.)
AfterEvictionOf(k, files) == Without(files, k)
AfterEviction(k, files) == IF first = "null" THEN files ELSE Without(files, first)

\* An unbonded peer's database. The eviction unlinks before the new file is written, and
\* a crash may come before the one or the other.
StoreUnbondedDb(k, ending) ==
  /\ loaded /\ Spend("dbs", ending)
  /\ LET left == IF RoomWithout(k) = 0 THEN AfterEviction(k, unbonded) ELSE unbonded
     IN CASE ending = "done"    -> unbonded' = Append(Without(left, k), k)
          [] ending = "fails"   -> unbonded' \in {left, Without(left, k)}
          [] ending = "crashes" -> unbonded' \in {unbonded, left, Without(left, k)}
  /\ IF ending = "crashes" THEN Forgotten
     ELSE /\ Add(k) \/ AddEvicting(k)
          /\ UNCHANGED <<loaded, bonds>>
  /\ UNCHANGED <<bondFiles, history>>

-----------------------------------------------------------------------------
(* removeBond *)

\* What is left of a peer's directory: nothing, or, when the removal does not get to its
\* end, some of the files.
LeftOf(p, ending) ==
  IF ending = "done" THEN {[keys |-> AbsentKeys, cccd |-> Absent, db |-> Absent]}
  ELSE [keys : {keysFile[p], AbsentKeys}, cccd : {cccdFile[p], Absent}, db : {dbFile[p], Absent}]

\* The manager refuses peers that are connected. The GATT database stays in the cache.
RemoveBond(p, ending) ==
  /\ loaded
  /\ irks[p] # 0 \/ ltks[p] # 0 \/ cccdValues[p] # Absent
  /\ ending # "done" => budget.faults > 0
  /\ budget' = [budget EXCEPT !.faults = IF ending = "done" THEN @ ELSE @ - 1]
  /\ \E left \in LeftOf(p, ending) :
       /\ keysFile' = [keysFile EXCEPT ![p] = left.keys]
       /\ cccdFile' = [cccdFile EXCEPT ![p] = left.cccd]
       /\ dbFile' = [dbFile EXCEPT ![p] = left.db]
  /\ bond' = [bond EXCEPT ![p] = NoKeys]
  /\ subscribed' = [subscribed EXCEPT ![p] = Absent]
  /\ Troubled(p, {"keys", "cccd"}, ending)
  /\ IF ending = "crashes" THEN Forgotten
     ELSE /\ irks' = [irks EXCEPT ![p] = 0] /\ ltks' = [ltks EXCEPT ![p] = 0]
          /\ cccdValues' = [cccdValues EXCEPT ![p] = Absent]
          /\ UNCHANGED <<loaded, bondedDbs, unbondedCache>>
  /\ UNCHANGED unbonded

\* The process ends between two calls and is started again.
Restart ==
  /\ loaded /\ budget.restarts > 0
  /\ budget' = [budget EXCEPT !.restarts = @ - 1]
  /\ Forgotten
  /\ UNCHANGED <<bondFiles, unbonded, history>>

Pairing == 1 .. 3

StorageNext ==
  \/ Load \/ Restart
  \/ \E e \in Ending :
       \/ \E p \in Peer :
            \/ \E n \in Pairing, irk, ltk \in Pairing \cup {0} : StoreKeys(p, n, irk, ltk, e)
            \/ \E v \in 0 .. 1 : StoreCccd(p, v, e)
            \/ StoreBondedDb(p, e)
            \/ RemoveBond(p, e)
       \/ \E k \in Key : StoreUnbondedDb(k, e)

StorageSpec == StorageInit /\ [][StorageNext]_storageVars

-----------------------------------------------------------------------------
(* Properties. *)

\* getKeys answers with the keys of the last pairing, or with none after removeBond, and
\* so it will after any number of restarts, once the keys were written: also when an
\* earlier write or removal went wrong.
KeysSurviveRestart ==
  \A p \in {p \in Peer : <<p, "keys">> \notin troubled} :
    /\ loaded => ltks[p] = bond[p].ltk
    /\ LoadedKeys(p).ltk = bond[p].ltk

\* The values of the descriptors that were last stored for a peer are those getCccd
\* gives, also after a restart, and removing the bond removes them.
SubscriptionsSurviveRestart ==
  \A p \in {p \in Peer : <<p, "cccd">> \notin troubled} :
    /\ loaded => cccdValues[p] = subscribed[p]
    /\ ValueIn(cccdFile[p]) = subscribed[p]

\* The databases on disk are among those of the cache, so that there are never more than
\* Capacity of them: what the cache gives up is unlinked, whatever crashed before.
EvictedFilesAreGone ==
  /\ loaded => Range(unbonded) \subseteq nodeMap
  /\ Len(unbonded) <= Capacity

\* What a peer and this device know of each other survives a restart of the program.
BondsSurviveRestart == KeysSurviveRestart /\ SubscriptionsSurviveRestart
=============================================================================
