------------------------------ MODULE Sessions ------------------------------
(***************************************************************************)
(* Discoveries and dataset sessions (backend/src/api/state.rs, dataset.rs): *)
(* two LRU caches of entries that expire when idle.  A request clones the   *)
(* entry out of its cache, reads the clock, and only then takes the lock of *)
(* the time of last access; another request may do the same in between, or  *)
(* the entry may leave the cache while its clone is in use.                 *)
(*                                                                         *)
(* MaxSkew bounds the time between reading the clock and taking the lock;   *)
(* the code has no bound, the operating system gives it a small one.        *)
(***************************************************************************)
EXTENDS Naturals, Sequences

CONSTANTS
    Task,       \* concurrent requests
    Capacity,   \* MAX_CONNECTIONS, MAX_DISCOVERIES
    Ttl,        \* CONNECTION_IDLE_TTL, DISCOVERY_IDLE_TTL
    MaxSkew,    \* the bound above
    MaxTime,    \* bound: the clock
    MaxIds      \* bound: ids of each kind

ASSUME SessionsAssumption ==
    /\ Capacity \in Nat \ {0} /\ Ttl \in Nat \ {0} /\ MaxSkew \in Nat
    /\ MaxTime \in Nat /\ MaxIds \in Nat

Kind == {"discovery", "connection"}
Id == 1..MaxIds

VARIABLES
    clock,
    issued,     \* ids handed out, of each kind
    order,      \* the caches: ids in order of use, the latest last
    last,       \* last_accessed of each entry, shared by its clones
    pc,         \* where each request is
    kind, id,   \* the entry a request asks for, or the kind it builds
    now,        \* the clock as the request read it
    used,       \* history: when each entry was last accessed
    seen        \* history: `used` when the request found its entry

entries == <<issued, order, last>>
vars == <<clock, entries, pc, kind, id, now, used, seen>>

Init ==
    /\ clock = 0
    /\ issued = [k \in Kind |-> 0]
    /\ order = [k \in Kind |-> << >>]
    /\ last = [k \in Kind |-> [i \in Id |-> 0]]
    /\ pc = [t \in Task |-> "idle"]
    /\ kind = [t \in Task |-> "discovery"] /\ id = [t \in Task |-> 0]
    /\ now = [t \in Task |-> 0]
    /\ used = last /\ seen = [t \in Task |-> 0]

Elements(s) == {s[n] : n \in 1..Len(s)}

Present(k) == Elements(order[k])

\* The list with i unlinked, which an evicted entry is not in any more.
Without(s, i) ==
    LET at == CHOOSE n \in 1..Len(s) : s[n] = i
    IN  IF i \in Elements(s)
        THEN [n \in 1..(Len(s) - 1) |-> IF n < at THEN s[n] ELSE s[n + 1]]
        ELSE s

Leave(t) ==
    /\ pc' = [pc EXCEPT ![t] = "idle"] /\ kind' = [kind EXCEPT ![t] = "discovery"]
    /\ id' = [id EXCEPT ![t] = 0]
    /\ now' = [now EXCEPT ![t] = 0] /\ seen' = [seen EXCEPT ![t] = 0]

-----------------------------------------------------------------------------
(* connected_session and discovered.  An id that is not in its cache is      *)
(* answered 410 and changes nothing.                                        *)

Lookup(t, k, i) ==
    /\ pc[t] = "idle" /\ i \in Present(k)
    /\ order' = [order EXCEPT ![k] = Append(Without(@, i), i)]
    /\ pc' = [pc EXCEPT ![t] = "cloned"]
    /\ kind' = [kind EXCEPT ![t] = k] /\ id' = [id EXCEPT ![t] = i]
    /\ seen' = [seen EXCEPT ![t] = used[k][i]]
    /\ UNCHANGED <<clock, issued, last, now, used>>

\* IdleEntry::access takes the time before it takes the lock.
ReadClock(t) ==
    /\ pc[t] = "cloned"
    /\ pc' = [pc EXCEPT ![t] = "timed"] /\ now' = [now EXCEPT ![t] = clock]
    /\ UNCHANGED <<clock, entries, kind, id, used, seen>>

\* duration_since is zero when another request was here with a later time.
IdleFor(t) ==
    LET then == last[kind[t]][id[t]]
    IN  IF then <= now[t] THEN now[t] - then ELSE 0

\* An access that does not look how long the entry was idle.
AliveAlways(t) == TRUE

Alive(t) == IdleFor(t) < Ttl

\* An access that is not noted.
NotesNothing(t) == last[kind[t]][id[t]]

Noted(t) == now[t]

\* The access: its time is noted, even when that is earlier than what another
\* request has noted.  A discovery is then opened at a reference.
Access(t) ==
    /\ pc[t] = "timed" /\ Alive(t)
    /\ last' = [last EXCEPT ![kind[t]][id[t]] = Noted(t)]
    /\ used' = [used EXCEPT ![kind[t]][id[t]] = clock]
    /\ IF kind[t] = "discovery"
       THEN /\ pc' = [pc EXCEPT ![t] = "building"]
            /\ kind' = [kind EXCEPT ![t] = "connection"]
            /\ id' = [id EXCEPT ![t] = 0]
            /\ now' = [now EXCEPT ![t] = 0] /\ seen' = [seen EXCEPT ![t] = 0]
       ELSE Leave(t)
    /\ UNCHANGED <<clock, issued, order>>

Expired(t) ==
    /\ pc[t] = "timed" /\ ~Alive(t)
    /\ pc' = [pc EXCEPT ![t] = "expired"]
    /\ UNCHANGED <<clock, entries, kind, id, now, used, seen>>

\* The lock is free again: whoever accessed the entry meanwhile loses it too.
RemoveExpired(t) ==
    /\ pc[t] = "expired"
    /\ order' = [order EXCEPT ![kind[t]] = Without(@, id[t])]
    /\ Leave(t)
    /\ UNCHANGED <<clock, issued, last, used>>

-----------------------------------------------------------------------------
(* discover and connect *)

Discover(t) ==
    /\ pc[t] = "idle"
    /\ pc' = [pc EXCEPT ![t] = "building"]
    /\ UNCHANGED <<clock, entries, kind, id, now, used, seen>>

\* Eviction that comes one entry late.
RoomForOneMore(s) == IF Len(s) > Capacity THEN Tail(s) ELSE s

\* A full cache gives up the entry used least recently.
Room(s) == IF Len(s) = Capacity THEN Tail(s) ELSE s

\* Insert of a new entry, which is stamped as it is made.
Insert(t) ==
    LET k == kind[t]
        i == issued[k] + 1
    IN  /\ pc[t] = "building" /\ i \in Id
        /\ issued' = [issued EXCEPT ![k] = i]
        /\ order' = [order EXCEPT ![k] = Append(Room(@), i)]
        /\ last' = [last EXCEPT ![k][i] = clock]
        /\ used' = [used EXCEPT ![k][i] = clock]
        /\ Leave(t)
        /\ UNCHANGED clock

\* The dataset or the reference cannot be opened, or the client left.
Fail(t) ==
    /\ pc[t] = "building"
    /\ Leave(t)
    /\ UNCHANGED <<clock, entries, used>>

Tick ==
    /\ clock < MaxTime
    /\ \A t \in Task : pc[t] = "timed" => clock - now[t] < MaxSkew
    /\ clock' = clock + 1
    /\ UNCHANGED <<entries, pc, kind, id, now, used, seen>>

Request(t) ==
    \/ Discover(t)
    \/ \E k \in Kind, i \in Id : Lookup(t, k, i)
    \/ ReadClock(t) \/ Access(t) \/ Expired(t) \/ RemoveExpired(t)
    \/ Insert(t) \/ Fail(t)

Next == Tick \/ \E t \in Task : Request(t)

Spec == Init /\ [][Next]_vars

-----------------------------------------------------------------------------
(* Properties *)

NoDuplicates(s) == \A m, n \in 1..Len(s) : s[m] = s[n] => m = n

\* The shape of the state; a cache has each id once and keeps its capacity.
TypeOK ==
    /\ clock \in Nat
    /\ issued \in [Kind -> Nat]
    /\ \A k \in Kind :
          /\ order[k] \in Seq(1..issued[k]) /\ Len(order[k]) <= Capacity
          /\ NoDuplicates(order[k])
    /\ last \in [Kind -> [Id -> Nat]] /\ used \in [Kind -> [Id -> Nat]]
    /\ pc \in [Task -> {"idle", "cloned", "timed", "expired", "building"}]
    /\ kind \in [Task -> Kind] /\ id \in [Task -> Id \cup {0}]
    /\ now \in [Task -> Nat] /\ seen \in [Task -> Nat]

\* Requests that race for an entry may turn its time of access back, but never
\* by more than one of them waited for the lock (IdleEntry::access).
LagIsBounded ==
    \A k \in Kind : \A i \in 1..issued[k] :
        last[k][i] <= used[k][i] /\ used[k][i] <= last[k][i] + MaxSkew

\* A client is only told that its entry expired when, as it asked, nobody had
\* used the entry for its time to live, less that wait.
RefusedOnlyWhenIdle ==
    \A t \in Task : pc[t] = "expired" => now[t] + MaxSkew >= seen[t] + Ttl

\* An entry that was idle for its time to live, and that wait, is never served.
ServedOnlyWhileAlive ==
    [][\A t \in Task :
          pc[t] = "timed" /\ pc'[t] \in {"idle", "building"} =>
              clock < used[kind[t]][id[t]] + Ttl + MaxSkew]_vars
=============================================================================
