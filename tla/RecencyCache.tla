---------------------------- MODULE RecencyCache ----------------------------
(***************************************************************************)
(* What the documentation of BoundedCache (backend/src/cache.rs) promises, *)
(* without a recency list: a bounded map that, when a new key arrives and  *)
(* the map is full, gives up the one entry every other entry was used      *)
(* after.  The recency of keys is a relation: <<a, b>> \in newer when the  *)
(* last use of a came after the last use of b.  Keys that left the map     *)
(* keep their place in the relation until they are used again.             *)
(***************************************************************************)
EXTENDS Naturals, FiniteSets

CONSTANTS
    Key,        \* identifiers of cached entries
    Value,      \* what is cached
    Capacity,   \* the maximum number of entries
    NoValue     \* the answer None

VARIABLES
    store,      \* the cached entries: a function from the present keys
    newer,      \* pairs of keys, the first used after the second
    reply       \* what the last operation returned

vars == <<store, newer, reply>>

Init ==
    /\ store = [k \in {} |-> NoValue]
    /\ newer = {}
    /\ reply = NoValue

\* The relation after a use of k: k is newer than every other key.
UsedNow(k) ==
    {p \in newer : p[2] # k} \cup ({k} \X (Key \ {k}))

LeastRecent ==
    {k \in DOMAIN store : \A j \in DOMAIN store : <<k, j>> \notin newer}

Kept(k) ==
    IF k \in DOMAIN store \/ Cardinality(DOMAIN store) < Capacity
    THEN DOMAIN store
    ELSE DOMAIN store \ LeastRecent

Get(k) ==
    /\ UNCHANGED store
    /\ IF k \in DOMAIN store
       THEN reply' = store[k] /\ newer' = UsedNow(k)
       ELSE reply' = NoValue /\ UNCHANGED newer

Put(k, v) ==
    /\ store' = [x \in Kept(k) \cup {k} |-> IF x = k THEN v ELSE store[x]]
    /\ newer' = UsedNow(k)

Insert(k, v) == Put(k, v) /\ reply' = NoValue

GetOrInsertWith(k, v) ==
    IF k \in DOMAIN store
    THEN Get(k)
    ELSE Put(k, v) /\ reply' = v

Remove(k) ==
    /\ store' = [x \in DOMAIN store \ {k} |-> store[x]]
    /\ reply' = NoValue
    /\ UNCHANGED newer

Next ==
    \E k \in Key :
        \/ Get(k)
        \/ Remove(k)
        \/ \E v \in Value : Insert(k, v) \/ GetOrInsertWith(k, v)

Spec == Init /\ [][Next]_vars
=============================================================================
