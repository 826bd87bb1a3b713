------------------------------ MODULE LruCache ------------------------------
(***************************************************************************)
(* BoundedCache (backend/src/cache.rs), the bounded map behind connections, *)
(* discoveries, SQL cursors and Blob rows.  It is an lru::LruCache under a  *)
(* mutex, so every operation is one atomic step.  The crate keeps a hash    *)
(* map and a recency list; here the list is the sequence `order`, least     *)
(* recently used first, and the map is the function `val`.                  *)
(***************************************************************************)
EXTENDS Naturals, Sequences, FiniteSets

CONSTANTS
    Key,        \* identifiers of cached entries
    Value,      \* what is cached
    Capacity,   \* the maximum number of entries
    NoValue     \* the answer None

\* BoundedCache::new panics on a zero capacity.
ASSUME LruAssumption ==
    /\ IsFiniteSet(Key)
    /\ Capacity \in Nat \ {0}
    /\ NoValue \notin Value

VARIABLES
    order,      \* the recency list, the least recently used key first
    val,        \* the hash map
    reply,      \* what the last operation returned
    newer,      \* history: <<a, b>> when a was last used after b
    expected    \* history: keys inserted and not removed by a caller since

vars == <<order, val, reply, newer, expected>>

Keys(s) == {s[i] : i \in 1..Len(s)}

Present == Keys(order)

Init ==
    /\ order = << >>
    /\ val = [k \in {} |-> NoValue]
    /\ reply = NoValue
    /\ newer = {}
    /\ expected = {}

\* The list with k unlinked.
Detach(s, k) ==
    LET at == CHOOSE i \in 1..Len(s) : s[i] = k
    IN  [j \in 1..(Len(s) - 1) |-> IF j < at THEN s[j] ELSE s[j + 1]]

\* History: after a use of k, k is newer than every other key.
UsedNow(k) == {p \in newer : p[2] # k} \cup ({k} \X (Key \ {k}))

\* A hit that forgets to move the entry in the recency list.
HitWithoutPromotion(k) ==
    /\ k \in Present
    /\ reply' = val[k]
    /\ newer' = UsedNow(k)
    /\ UNCHANGED <<order, val, expected>>

\* lru::LruCache::get on a present key and on an absent one.
Hit(k) ==
    /\ k \in Present
    /\ order' = Append(Detach(order, k), k)
    /\ reply' = val[k]
    /\ newer' = UsedNow(k)
    /\ UNCHANGED <<val, expected>>

Miss(k) ==
    /\ k \notin Present
    /\ reply' = NoValue
    /\ UNCHANGED <<order, val, newer, expected>>

\* A put that forgets the capacity, and one that evicts for a replaced key.
RoomUnbounded(k) == IF k \in Present THEN Detach(order, k) ELSE order

RoomEvictsOnReplace(k) ==
    LET full == IF Len(order) = Capacity THEN Tail(order) ELSE order
    IN  IF k \in Keys(full) THEN Detach(full, k) ELSE full

\* lru::LruCache::put: replace in place, else evict the head when full.
Room(k) ==
    IF k \in Present THEN Detach(order, k)
    ELSE IF Len(order) = Capacity THEN Tail(order)
    ELSE order

Put(k, v) ==
    /\ order' = Append(Room(k), k)
    /\ val' = [x \in Keys(Room(k)) \cup {k} |->
                  IF x = k THEN v ELSE val[x]]
    /\ newer' = UsedNow(k)
    /\ expected' = expected \cup {k}

Get(k) == Hit(k) \/ Miss(k)

Insert(k, v) == Put(k, v) /\ reply' = NoValue

\* create() runs under the lock, so nothing comes between test and put.
GetOrInsertWith(k, v) ==
    \/ Hit(k)
    \/ k \notin Present /\ Put(k, v) /\ reply' = v

\* lru::LruCache::pop.
Remove(k) ==
    /\ order' = IF k \in Present THEN Detach(order, k) ELSE order
    /\ val' = [x \in DOMAIN val \ {k} |-> val[x]]
    /\ reply' = NoValue
    /\ expected' = expected \ {k}
    /\ UNCHANGED newer

Next ==
    \E k \in Key :
        \/ Get(k)
        \/ Remove(k)
        \/ \E v \in Value : Insert(k, v) \/ GetOrInsertWith(k, v)

Spec == Init /\ [][Next]_vars

-----------------------------------------------------------------------------
(* Properties *)

NoDuplicates(s) == \A i, j \in 1..Len(s) : s[i] = s[j] => i = j

\* The list holds each present key once, the hash map exactly those keys
\* (the two structures of the crate agree), and no more than Capacity.
TypeOK ==
    /\ order \in Seq(Key)
    /\ NoDuplicates(order)
    /\ val \in [Present -> Value]
    /\ reply \in Value \cup {NoValue}
    /\ newer \in SUBSET (Key \X Key)
    /\ expected \in SUBSET Key
    /\ Len(order) <= Capacity

\* cache.rs promises least-recently-used eviction: an entry its callers have
\* not removed can be missing only after Capacity other keys were used since
\* its own last use.  Sessions, cursors and discoveries rely on this window.
RetentionWindow ==
    \A k \in expected \ Present :
        Cardinality({j \in Key : <<j, k>> \in newer}) >= Capacity

\* Every operation of the list-and-map cache is an operation of the map that
\* evicts by recency: the entries are those of val, the answers the same.
Recency == INSTANCE RecencyCache WITH store <- val
RefinesRecencyCache == Recency!Spec
=============================================================================
