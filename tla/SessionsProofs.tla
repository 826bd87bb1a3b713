--------------------------- MODULE SessionsProofs ---------------------------
(***************************************************************************)
(* Sessions keeps its caches, and expires entries only when they are idle,   *)
(* for any number of requests and entries, any capacity, time to live and    *)
(* bound on the wait for the lock.                                          *)
(***************************************************************************)
EXTENDS Sessions, TLAPS

\* The entry of a request was issued and was used since the request found it.
RequestInv ==
    \A t \in Task :
        /\ pc[t] \in {"cloned", "timed", "expired"} =>
              id[t] \in 1..issued[kind[t]] /\ seen[t] <= used[kind[t]][id[t]]
        /\ pc[t] = "timed" => now[t] <= clock /\ clock <= now[t] + MaxSkew

\* Nothing was used in the future.
UsedBefore == \A k \in Kind : \A i \in 1..issued[k] : used[k][i] <= clock

Domains == issued \in [Kind -> 0..MaxIds] /\ order \in [Kind -> Seq(Id)]

IInv ==
    /\ TypeOK /\ Domains
    /\ RequestInv /\ UsedBefore /\ LagIsBounded /\ RefusedOnlyWhenIdle

-----------------------------------------------------------------------------
(* Lists *)

LEMMA SeqWider ==
    ASSUME NEW S, NEW T, S \subseteq T, NEW s \in Seq(S)
    PROVE  s \in Seq(T)
OBVIOUS

LEMMA ElementsIn ==
    ASSUME NEW S, NEW s \in Seq(S), NEW i \in Elements(s)
    PROVE  i \in S
<1>1. PICK n \in 1..Len(s) : s[n] = i
    BY DEF Elements
<1>2. \A m \in 1..Len(s) : s[m] \in S
    OBVIOUS
<1>. QED BY <1>1, <1>2

\* Unlinking keeps the other entries, each once.
LEMMA WithoutKeeps ==
    ASSUME NEW S, NEW s \in Seq(S), NoDuplicates(s), NEW i
    PROVE  /\ Without(s, i) \in Seq(S)
           /\ Len(Without(s, i)) <= Len(s)
           /\ i \in Elements(s) => Len(Without(s, i)) = Len(s) - 1
           /\ NoDuplicates(Without(s, i))
           /\ i \notin Elements(Without(s, i))
<1>1. CASE i \notin Elements(s)
    BY <1>1 DEF Without
<1>2. CASE i \in Elements(s)
    <2>. DEFINE at == CHOOSE n \in 1..Len(s) : s[n] = i
                r == [n \in 1..(Len(s) - 1) |-> IF n < at THEN s[n] ELSE s[n + 1]]
    <2>1. at \in 1..Len(s) /\ s[at] = i
        BY <1>2 DEF Elements
    <2>2. Without(s, i) = r
        BY <1>2 DEF Without
    <2>3. Len(s) \in Nat /\ Len(s) > 0
        BY <2>1
    <2>. HIDE DEF at
    <2>4. r \in Seq(S) /\ Len(r) = Len(s) - 1
        <3>1. \A n \in 1..(Len(s) - 1) : r[n] \in S
            BY <2>1, <2>3
        <3>. QED BY <3>1, <2>3
    <2>5. \A n \in 1..Len(r) : r[n] = IF n < at THEN s[n] ELSE s[n + 1]
        BY <2>4
    <2>. HIDE DEF r
    <2>6. NoDuplicates(r)
        BY <2>1, <2>3, <2>4, <2>5 DEF NoDuplicates
    <2>7. i \notin Elements(r)
        BY <2>1, <2>3, <2>4, <2>5 DEF NoDuplicates, Elements
    <2>. QED BY <2>2, <2>3, <2>4, <2>6, <2>7
<1>. QED BY <1>1, <1>2

LEMMA AppendKeeps ==
    ASSUME NEW S, NEW s \in Seq(S), NoDuplicates(s), NEW i \in S, i \notin Elements(s)
    PROVE  /\ Append(s, i) \in Seq(S) /\ Len(Append(s, i)) = Len(s) + 1
           /\ NoDuplicates(Append(s, i))
<1>. DEFINE a == Append(s, i)
<1>1. /\ a \in Seq(S) /\ Len(a) = Len(s) + 1 /\ Len(s) \in Nat
      /\ \A n \in 1..Len(s) : a[n] = s[n]
      /\ a[Len(s) + 1] = i
    OBVIOUS
<1>. HIDE DEF a
<1>2. \A n \in 1..Len(s) : s[n] # i
    BY DEF Elements
<1>3. NoDuplicates(a)
    BY <1>1, <1>2 DEF NoDuplicates
<1>. QED BY <1>1, <1>3 DEF a

\* Eviction keeps the rest and makes room.
LEMMA RoomKeeps ==
    ASSUME NEW S, NEW s \in Seq(S), NoDuplicates(s), Len(s) <= Capacity
    PROVE  /\ Room(s) \in Seq(S) /\ Len(Room(s)) < Capacity
           /\ NoDuplicates(Room(s))
<1>1. Capacity \in Nat \ {0} /\ Len(s) \in Nat
    BY SessionsAssumption
<1>2. CASE Len(s) = Capacity
    <2>1. /\ Len(s) > 0 /\ Tail(s) \in Seq(S) /\ Len(Tail(s)) = Len(s) - 1
          /\ \A n \in 1..Len(Tail(s)) : Tail(s)[n] = s[n + 1]
        BY <1>1, <1>2
    <2>2. NoDuplicates(Tail(s))
        BY <2>1, <1>1 DEF NoDuplicates
    <2>. QED BY <1>1, <1>2, <2>1, <2>2 DEF Room
<1>3. CASE Len(s) # Capacity
    BY <1>1, <1>3 DEF Room
<1>. QED BY <1>2, <1>3

-----------------------------------------------------------------------------
LEMMA InitIInv == Init => IInv
<1>. SUFFICES ASSUME Init PROVE IInv
    OBVIOUS
<1>1. \A k \in Kind : order[k] = << >> /\ issued[k] = 0
    BY DEF Init
<1>2. \A k \in Kind : /\ order[k] \in Seq(1..issued[k]) /\ Len(order[k]) <= Capacity
                      /\ NoDuplicates(order[k])
    <2>1. ASSUME NEW k \in Kind
          PROVE  order[k] \in Seq(1..issued[k]) /\ Len(order[k]) = 0
        <3>1. << >> \in Seq(1..issued[k]) /\ Len(<< >>) = 0
            OBVIOUS
        <3>. QED BY <1>1, <3>1, Zenon
    <2>2. \A k \in Kind : NoDuplicates(order[k])
        BY <2>1 DEF NoDuplicates
    <2>3. 0 <= Capacity
        BY SessionsAssumption
    <2>. QED BY <2>1, <2>2, <2>3
<1>3. Domains
    BY SessionsAssumption DEF Init, Domains
<1>4. TypeOK
    <2>1. issued \in [Kind -> Nat] /\ "discovery" \in Kind /\ clock \in Nat
        BY DEF Init, Kind
    <2>2. last \in [Kind -> [Id -> Nat]] /\ used \in [Kind -> [Id -> Nat]]
        BY DEF Init
    <2>3. /\ pc \in [Task -> {"idle", "cloned", "timed", "expired", "building"}]
          /\ kind \in [Task -> Kind] /\ id \in [Task -> Id \cup {0}]
          /\ now \in [Task -> Nat] /\ seen \in [Task -> Nat]
        BY <2>1 DEF Init
    <2>. QED BY <1>2, <2>1, <2>2, <2>3 DEF TypeOK
<1>5. RequestInv /\ UsedBefore /\ LagIsBounded /\ RefusedOnlyWhenIdle
    BY <1>1 DEF Init, RequestInv, UsedBefore, LagIsBounded, RefusedOnlyWhenIdle
<1>. QED BY <1>3, <1>4, <1>5 DEF IInv

LEMMA IssuedIds ==
    ASSUME IInv, NEW k \in Kind
    PROVE  issued[k] \in 0..MaxIds /\ 1..issued[k] \subseteq Id
<1>1. issued[k] \in 0..MaxIds /\ MaxIds \in Nat
    BY SessionsAssumption DEF IInv, Domains
<1>. QED BY <1>1 DEF Id

-----------------------------------------------------------------------------
(* Steps that leave the entries alone *)

\* What the properties need of a request that leaves.
LEMMA LeaveTypes ==
    ASSUME IInv, NEW t \in Task, Leave(t)
    PROVE  /\ pc' \in [Task -> {"idle", "cloned", "timed", "expired", "building"}]
           /\ kind' \in [Task -> Kind] /\ id' \in [Task -> Id \cup {0}]
           /\ now' \in [Task -> Nat] /\ seen' \in [Task -> Nat]
           /\ pc'[t] = "idle"
           /\ \A u \in Task : u # t => /\ pc'[u] = pc[u] /\ kind'[u] = kind[u] /\ id'[u] = id[u]
                                       /\ now'[u] = now[u] /\ seen'[u] = seen[u]
BY DEF Leave, IInv, TypeOK, Kind

LEMMA TickKeeps ==
    ASSUME IInv, Tick
    PROVE  IInv'
<1>1. clock' = clock + 1 /\ UNCHANGED <<issued, order, last, pc, kind, id, now, used, seen>>
    BY DEF Tick, entries
<1>2. TypeOK' /\ Domains'
    BY <1>1 DEF IInv, TypeOK, Domains, Present
<1>3. RequestInv'
    <2>1. \A t \in Task : pc[t] = "timed" =>
              /\ clock - now[t] < MaxSkew /\ now[t] <= clock /\ now[t] \in Nat
        BY DEF Tick, IInv, RequestInv, TypeOK
    <2>2. \A t \in Task : pc[t] = "timed" =>
              now[t] <= clock + 1 /\ clock + 1 <= now[t] + MaxSkew
        BY <2>1, SessionsAssumption DEF IInv, TypeOK
    <2>. QED BY <1>1, <2>2 DEF IInv, RequestInv
<1>4. UsedBefore'
    <2>1. ASSUME NEW k \in Kind, NEW i \in 1..issued[k] PROVE used[k][i] <= clock + 1
        <3>1. used[k][i] \in Nat /\ used[k][i] <= clock
            BY IssuedIds DEF IInv, UsedBefore, TypeOK
        <3>. QED BY <3>1 DEF IInv, TypeOK
    <2>. QED BY <1>1, <2>1 DEF UsedBefore
<1>5. LagIsBounded' /\ RefusedOnlyWhenIdle'
    BY <1>1 DEF IInv, LagIsBounded, RefusedOnlyWhenIdle
<1>. QED BY <1>2, <1>3, <1>4, <1>5 DEF IInv

\* The list of a cache changes, and its entries only lose their place in it.
LEMMA ListKeeps ==
    ASSUME IInv, NEW k \in Kind, NEW s \in Seq(1..issued[k]), Len(s) <= Capacity,
           NoDuplicates(s), order' = [order EXCEPT ![k] = s], issued' = issued
    PROVE  /\ order' \in [Kind -> Seq(Id)]
           /\ \A j \in Kind : /\ order'[j] \in Seq(1..issued[j]) /\ Len(order'[j]) <= Capacity
                              /\ NoDuplicates(order'[j])
<1>1. 1..issued[k] \subseteq Id
    BY IssuedIds
<1>2. s \in Seq(Id)
    BY <1>1, SeqWider
<1>. QED BY <1>2 DEF IInv, TypeOK, Domains

-----------------------------------------------------------------------------
(* An access *)

\* A clone is used from now on, and is the latest in its cache.
LEMMA LookupKeeps ==
    ASSUME IInv, NEW t \in Task, NEW k \in Kind, NEW i \in Id, Lookup(t, k, i)
    PROVE  IInv'
<1>1. /\ order' = [order EXCEPT ![k] = Append(Without(order[k], i), i)]
      /\ i \in Elements(order[k]) /\ UNCHANGED <<clock, issued, last, now, used>>
    BY DEF Lookup, Present, IInv, TypeOK, Domains
<1>2. order[k] \in Seq(1..issued[k]) /\ NoDuplicates(order[k]) /\ Len(order[k]) <= Capacity
    BY DEF IInv, TypeOK
<1>3. i \in 1..issued[k]
    BY <1>1, <1>2, ElementsIn
<1>. DEFINE w == Without(order[k], i)
<1>4. /\ w \in Seq(1..issued[k]) /\ Len(w) = Len(order[k]) - 1 /\ NoDuplicates(w)
      /\ i \notin Elements(w)
    BY <1>1, <1>2, WithoutKeeps
<1>. HIDE DEF w
<1>5. /\ Append(w, i) \in Seq(1..issued[k]) /\ NoDuplicates(Append(w, i))
      /\ Len(Append(w, i)) = Len(w) + 1
    BY <1>3, <1>4, AppendKeeps
<1>6. Len(Append(w, i)) <= Capacity
    BY <1>2, <1>4, <1>5, SessionsAssumption
<1>7. /\ order' \in [Kind -> Seq(Id)]
      /\ \A j \in Kind : /\ order'[j] \in Seq(1..issued[j]) /\ Len(order'[j]) <= Capacity
                         /\ NoDuplicates(order'[j])
    BY <1>1, <1>5, <1>6, ListKeeps DEF w
<1>8. used[k][i] \in Nat
    BY DEF IInv, TypeOK
<1>9. /\ pc' = [pc EXCEPT ![t] = "cloned"] /\ kind' = [kind EXCEPT ![t] = k]
      /\ id' = [id EXCEPT ![t] = i] /\ seen' = [seen EXCEPT ![t] = used[k][i]]
    BY DEF Lookup
<1>10. TypeOK' /\ Domains'
    BY <1>1, <1>7, <1>8, <1>9 DEF IInv, TypeOK, Domains
<1>11. RequestInv'
    BY <1>1, <1>3, <1>8, <1>9 DEF IInv, TypeOK, RequestInv
<1>12. UsedBefore' /\ LagIsBounded'
    BY <1>1 DEF IInv, UsedBefore, LagIsBounded
<1>13. RefusedOnlyWhenIdle'
    BY <1>1, <1>9 DEF IInv, TypeOK, RefusedOnlyWhenIdle
<1>. QED BY <1>10, <1>11, <1>12, <1>13 DEF IInv

LEMMA ReadClockKeeps ==
    ASSUME IInv, NEW t \in Task, ReadClock(t)
    PROVE  IInv'
<1>1. /\ pc[t] = "cloned" /\ pc' = [pc EXCEPT ![t] = "timed"] /\ now' = [now EXCEPT ![t] = clock]
      /\ UNCHANGED <<clock, issued, order, last, kind, id, used, seen>>
    BY DEF ReadClock, entries
<1>2. TypeOK' /\ Domains'
    BY <1>1 DEF IInv, TypeOK, Domains
<1>3. clock <= clock + MaxSkew /\ clock <= clock
    BY SessionsAssumption DEF IInv, TypeOK
<1>4. RequestInv'
    BY <1>1, <1>3 DEF IInv, TypeOK, RequestInv
<1>5. UsedBefore' /\ LagIsBounded' /\ RefusedOnlyWhenIdle'
    BY <1>1 DEF IInv, TypeOK, UsedBefore, LagIsBounded, RefusedOnlyWhenIdle
<1>. QED BY <1>2, <1>4, <1>5 DEF IInv

\* What a request that has read the clock knows of its entry.
LEMMA Timed ==
    ASSUME IInv, NEW t \in Task, pc[t] = "timed"
    PROVE  LET k == kind[t]
               i == id[t]
           IN  /\ k \in Kind /\ i \in 1..issued[k] /\ i \in Id
               /\ last[k][i] \in Nat /\ used[k][i] \in Nat /\ now[t] \in Nat /\ seen[t] \in Nat
               /\ clock \in Nat /\ MaxSkew \in Nat /\ Ttl \in Nat \ {0}
               /\ last[k][i] <= used[k][i] /\ used[k][i] <= last[k][i] + MaxSkew
               /\ seen[t] <= used[k][i] /\ used[k][i] <= clock
               /\ now[t] <= clock /\ clock <= now[t] + MaxSkew
<1>1. kind[t] \in Kind /\ id[t] \in 1..issued[kind[t]]
    BY DEF IInv, TypeOK, RequestInv
<1>2. id[t] \in Id
    BY <1>1, IssuedIds
<1>. QED BY <1>1, <1>2, SessionsAssumption
    DEF IInv, TypeOK, RequestInv, UsedBefore, LagIsBounded

\* An entry found alive was used since its time to live, up to the wait.
LEMMA AliveWhileUsed ==
    ASSUME IInv, NEW t \in Task, pc[t] = "timed", Alive(t)
    PROVE  clock < used[kind[t]][id[t]] + Ttl + MaxSkew
BY Timed DEF Alive, IdleFor

\* An entry found expired was not used for that time.
LEMMA ExpiredWhenIdle ==
    ASSUME IInv, NEW t \in Task, pc[t] = "timed", ~Alive(t)
    PROVE  now[t] + MaxSkew >= seen[t] + Ttl
BY Timed DEF Alive, IdleFor

\* The time noted lags behind the access by the wait for the lock.
LEMMA AccessKeeps ==
    ASSUME IInv, NEW t \in Task, Access(t)
    PROVE  IInv'
<1>. DEFINE k == kind[t]
            i == id[t]
<1>1. /\ pc[t] = "timed" /\ UNCHANGED <<clock, issued, order>>
      /\ last' = [last EXCEPT ![k][i] = now[t]] /\ used' = [used EXCEPT ![k][i] = clock]
    BY DEF Access, Noted
<1>2. /\ k \in Kind /\ i \in 1..issued[k] /\ i \in Id
      /\ used[k][i] \in Nat /\ now[t] \in Nat /\ clock \in Nat /\ used[k][i] <= clock
      /\ now[t] <= clock /\ clock <= now[t] + MaxSkew
    BY <1>1, Timed
<1>3. /\ pc'[t] \in {"idle", "building"}
      /\ pc' \in [Task -> {"idle", "cloned", "timed", "expired", "building"}]
      /\ kind' \in [Task -> Kind] /\ id' \in [Task -> Id \cup {0}]
      /\ now' \in [Task -> Nat] /\ seen' \in [Task -> Nat]
      /\ \A u \in Task : u # t => /\ pc'[u] = pc[u] /\ kind'[u] = kind[u] /\ id'[u] = id[u]
                                  /\ now'[u] = now[u] /\ seen'[u] = seen[u]
    <2>1. CASE kind[t] = "discovery"
        <3>1. /\ pc' = [pc EXCEPT ![t] = "building"] /\ kind' = [kind EXCEPT ![t] = "connection"]
              /\ id' = [id EXCEPT ![t] = 0] /\ now' = [now EXCEPT ![t] = 0]
              /\ seen' = [seen EXCEPT ![t] = 0]
            BY <2>1 DEF Access
        <3>2. "connection" \in Kind /\ 0 \in Id \cup {0}
            BY DEF Kind
        <3>. QED BY <3>1, <3>2 DEF IInv, TypeOK
    <2>2. CASE kind[t] # "discovery"
        <3>1. Leave(t)
            BY <2>2 DEF Access
        <3>. QED BY <3>1, LeaveTypes
    <2>. QED BY <2>1, <2>2
<1>4. /\ last' \in [Kind -> [Id -> Nat]] /\ used' \in [Kind -> [Id -> Nat]]
      /\ last'[k][i] = now[t] /\ used'[k][i] = clock
      /\ \A j \in Kind, n \in Id : j # k \/ n # i =>
            last'[j][n] = last[j][n] /\ used'[j][n] = used[j][n]
    BY <1>1, <1>2 DEF IInv, TypeOK
<1>. HIDE DEF k, i
<1>5. TypeOK' /\ Domains'
    BY <1>1, <1>3, <1>4 DEF IInv, TypeOK, Domains
<1>6. \A j \in Kind : \A n \in 1..issued[j] : n \in Id /\ used[j][n] <= used'[j][n]
    <2>1. \A j \in Kind : \A n \in 1..issued[j] : n \in Id /\ used[j][n] \in Nat
        BY IssuedIds DEF IInv, TypeOK
    <2>. QED BY <1>2, <1>4, <2>1
<1>7. RequestInv'
    <2>. SUFFICES ASSUME NEW u \in Task
                  PROVE  /\ pc'[u] \in {"cloned", "timed", "expired"} =>
                               /\ id'[u] \in 1..issued[kind'[u]]
                               /\ seen'[u] <= used'[kind'[u]][id'[u]]
                         /\ pc'[u] = "timed" => now'[u] <= clock /\ clock <= now'[u] + MaxSkew
        BY <1>1 DEF RequestInv
    <2>1. CASE u = t
        BY <1>3, <2>1
    <2>2. CASE u # t
        <3>1. ASSUME pc[u] \in {"cloned", "timed", "expired"}
              PROVE  id[u] \in 1..issued[kind[u]] /\ seen[u] <= used'[kind[u]][id[u]]
            <4>1. /\ kind[u] \in Kind /\ id[u] \in 1..issued[kind[u]]
                  /\ seen[u] <= used[kind[u]][id[u]]
                BY <3>1 DEF IInv, TypeOK, RequestInv
            <4>2. id[u] \in Id /\ used[kind[u]][id[u]] <= used'[kind[u]][id[u]]
                BY <4>1, <1>6
            <4>3. seen[u] \in Nat /\ used[kind[u]][id[u]] \in Nat /\ used'[kind[u]][id[u]] \in Nat
                BY <4>1, <4>2, <1>4 DEF IInv, TypeOK
            <4>. QED BY <4>1, <4>2, <4>3
        <3>. QED BY <1>3, <2>2, <3>1 DEF IInv, RequestInv
    <2>. QED BY <2>1, <2>2
<1>8. UsedBefore'
    BY <1>1, <1>2, <1>4, <1>6 DEF IInv, UsedBefore
<1>9. LagIsBounded'
    BY <1>1, <1>2, <1>4, <1>6 DEF IInv, LagIsBounded
<1>10. RefusedOnlyWhenIdle'
    BY <1>3 DEF IInv, RefusedOnlyWhenIdle
<1>. QED BY <1>5, <1>7, <1>8, <1>9, <1>10 DEF IInv

LEMMA ExpiredKeeps ==
    ASSUME IInv, NEW t \in Task, Expired(t)
    PROVE  IInv'
<1>1. /\ pc[t] = "timed" /\ pc' = [pc EXCEPT ![t] = "expired"]
      /\ UNCHANGED <<clock, issued, order, last, kind, id, now, used, seen>>
    BY DEF Expired, entries
<1>2. TypeOK' /\ Domains'
    BY <1>1 DEF IInv, TypeOK, Domains
<1>3. RequestInv' /\ UsedBefore' /\ LagIsBounded'
    BY <1>1 DEF IInv, TypeOK, RequestInv, UsedBefore, LagIsBounded
<1>4. now[t] + MaxSkew >= seen[t] + Ttl
    BY <1>1, ExpiredWhenIdle DEF Expired
<1>5. RefusedOnlyWhenIdle'
    BY <1>1, <1>4 DEF IInv, TypeOK, RefusedOnlyWhenIdle
<1>. QED BY <1>2, <1>3, <1>5 DEF IInv

\* A request leaves, and the entries keep their times.
LEMMA LeaveKeeps ==
    ASSUME IInv, NEW t \in Task, Leave(t), UNCHANGED <<clock, issued, last, used>>,
           order' \in [Kind -> Seq(Id)],
           \A j \in Kind : /\ order'[j] \in Seq(1..issued[j]) /\ Len(order'[j]) <= Capacity
                           /\ NoDuplicates(order'[j])
    PROVE  IInv'
<1>1. TypeOK' /\ Domains'
    BY LeaveTypes DEF IInv, TypeOK, Domains
<1>2. RequestInv' /\ RefusedOnlyWhenIdle'
    BY LeaveTypes DEF IInv, RequestInv, RefusedOnlyWhenIdle
<1>3. UsedBefore' /\ LagIsBounded'
    BY DEF IInv, UsedBefore, LagIsBounded
<1>. QED BY <1>1, <1>2, <1>3 DEF IInv

LEMMA RemoveExpiredKeeps ==
    ASSUME IInv, NEW t \in Task, RemoveExpired(t)
    PROVE  IInv'
<1>. DEFINE k == kind[t]
            w == Without(order[k], id[t])
<1>1. /\ Leave(t) /\ order' = [order EXCEPT ![k] = w] /\ UNCHANGED <<clock, issued, last, used>>
      /\ k \in Kind
    BY DEF RemoveExpired, IInv, TypeOK
<1>2. order[k] \in Seq(1..issued[k]) /\ NoDuplicates(order[k]) /\ Len(order[k]) <= Capacity
    BY <1>1 DEF IInv, TypeOK
<1>3. w \in Seq(1..issued[k]) /\ Len(w) <= Len(order[k]) /\ NoDuplicates(w)
    BY <1>2, WithoutKeeps
<1>. HIDE DEF w
<1>4. Len(w) <= Capacity
    BY <1>2, <1>3, SessionsAssumption
<1>. HIDE DEF k
<1>5. /\ order' \in [Kind -> Seq(Id)]
      /\ \A j \in Kind : /\ order'[j] \in Seq(1..issued[j]) /\ Len(order'[j]) <= Capacity
                         /\ NoDuplicates(order'[j])
    BY <1>1, <1>3, <1>4, ListKeeps
<1>. QED BY <1>1, <1>5, LeaveKeeps

-----------------------------------------------------------------------------
(* New entries *)

\* No request can have found the new entry yet.
LEMMA InsertKeeps ==
    ASSUME IInv, NEW t \in Task, Insert(t)
    PROVE  IInv'
<1>. DEFINE k == kind[t]
            i == issued[k] + 1
            s == order[k]
            a == Append(Room(s), i)
<1>1. /\ i \in Id /\ issued' = [issued EXCEPT ![k] = i] /\ order' = [order EXCEPT ![k] = a]
      /\ last' = [last EXCEPT ![k][i] = clock] /\ used' = [used EXCEPT ![k][i] = clock]
      /\ Leave(t) /\ clock' = clock /\ k \in Kind
    BY DEF Insert, IInv, TypeOK
<1>2. /\ s \in Seq(1..issued[k]) /\ NoDuplicates(s) /\ Len(s) <= Capacity
      /\ issued[k] \in 0..MaxIds /\ clock \in Nat
    BY <1>1, IssuedIds DEF IInv, TypeOK
<1>3. i \in 0..MaxIds /\ i \in Nat /\ i \notin 1..issued[k]
    BY <1>1, <1>2 DEF Id
<1>4. a \in Seq(1..i) /\ NoDuplicates(a) /\ Len(a) <= Capacity
    <2>1. Room(s) \in Seq(1..issued[k]) /\ Len(Room(s)) < Capacity /\ NoDuplicates(Room(s))
        BY <1>2, RoomKeeps
    <2>2. i \notin Elements(Room(s))
        BY <1>3, <2>1, ElementsIn
    <2>3. 1..issued[k] \subseteq 1..i /\ i \in 1..i
        BY <1>2
    <2>4. Room(s) \in Seq(1..i)
        BY <2>1, <2>3, SeqWider
    <2>5. a \in Seq(1..i) /\ NoDuplicates(a) /\ Len(a) = Len(Room(s)) + 1
        BY <2>1, <2>2, <2>3, <2>4, AppendKeeps
    <2>6. Len(Room(s)) \in Nat
        BY <2>1
    <2>. QED BY <2>1, <2>5, <2>6, SessionsAssumption
<1>. HIDE DEF a
<1>5. a \in Seq(Id)
    <2>1. 1..i \subseteq Id
        BY <1>3, SessionsAssumption DEF Id
    <2>. HIDE DEF i
    <2>. QED BY <1>4, <2>1, SeqWider
<1>6. issued'[k] = i /\ \A j \in Kind \ {k} : issued'[j] = issued[j] /\ order'[j] = order[j]
    BY <1>1 DEF IInv, TypeOK, Domains
<1>7. order'[k] = a
    BY <1>1 DEF IInv, Domains
<1>8. Domains'
    BY <1>1, <1>3, <1>5 DEF IInv, Domains
<1>9. /\ last' \in [Kind -> [Id -> Nat]] /\ used' \in [Kind -> [Id -> Nat]]
      /\ last'[k][i] = clock /\ used'[k][i] = clock
      /\ \A j \in Kind, n \in Id : j # k \/ n # i =>
            last'[j][n] = last[j][n] /\ used'[j][n] = used[j][n]
    BY <1>1, <1>2 DEF IInv, TypeOK
<1>. HIDE DEF i, s, k
<1>10. TypeOK'
    <2>1. issued' \in [Kind -> Nat]
        BY <1>1, <1>3 DEF IInv, TypeOK
    <2>2. \A j \in Kind : /\ order'[j] \in Seq(1..issued'[j]) /\ Len(order'[j]) <= Capacity
                          /\ NoDuplicates(order'[j])
        BY <1>4, <1>6, <1>7 DEF IInv, TypeOK
    <2>. QED BY <1>1, <1>2, <1>9, <2>1, <2>2, LeaveTypes DEF TypeOK
\* The entries there were keep their times.
<1>11. ASSUME NEW j \in Kind, NEW n \in 1..issued[j]
       PROVE  /\ n \in Id /\ n \in 1..issued'[j]
              /\ last'[j][n] = last[j][n] /\ used'[j][n] = used[j][n]
    <2>1. n \in Id /\ issued[j] \in Nat
        BY IssuedIds
    <2>2. j # k \/ n # i
        BY <1>3
    <2>3. n \in 1..issued'[j]
        BY <1>3, <1>6, <2>1 DEF i
    <2>. QED BY <1>9, <2>1, <2>2, <2>3
<1>12. ASSUME NEW j \in Kind, NEW n \in 1..issued'[j]
       PROVE  n \in 1..issued[j] \/ (j = k /\ n = i)
    BY <1>2, <1>3, <1>6 DEF i
<1>13. RequestInv'
    <2>. SUFFICES ASSUME NEW u \in Task
                  PROVE  /\ pc'[u] \in {"cloned", "timed", "expired"} =>
                               /\ id'[u] \in 1..issued'[kind'[u]]
                               /\ seen'[u] <= used'[kind'[u]][id'[u]]
                         /\ pc'[u] = "timed" => now'[u] <= clock /\ clock <= now'[u] + MaxSkew
        BY <1>1 DEF RequestInv
    <2>1. CASE u = t
        BY <1>1, <2>1, LeaveTypes
    <2>2. CASE u # t
        <3>1. /\ pc'[u] = pc[u] /\ kind'[u] = kind[u] /\ id'[u] = id[u]
              /\ now'[u] = now[u] /\ seen'[u] = seen[u] /\ kind[u] \in Kind
            BY <1>1, <2>2, LeaveTypes DEF IInv, TypeOK
        <3>. QED BY <1>11, <3>1 DEF IInv, RequestInv
    <2>. QED BY <2>1, <2>2
<1>14. UsedBefore'
    BY <1>1, <1>2, <1>9, <1>11, <1>12 DEF IInv, UsedBefore
<1>15. LagIsBounded'
    <2>1. clock <= clock /\ clock <= clock + MaxSkew
        BY <1>2, SessionsAssumption
    <2>. QED BY <2>1, <1>9, <1>11, <1>12 DEF IInv, LagIsBounded
<1>16. RefusedOnlyWhenIdle'
    BY <1>1, LeaveTypes DEF IInv, RefusedOnlyWhenIdle
<1>. QED BY <1>8, <1>10, <1>13, <1>14, <1>15, <1>16 DEF IInv

LEMMA DiscoverKeeps ==
    ASSUME IInv, NEW t \in Task, Discover(t)
    PROVE  IInv'
<1>1. /\ pc' = [pc EXCEPT ![t] = "building"]
      /\ UNCHANGED <<clock, issued, order, last, kind, id, now, used, seen>>
    BY DEF Discover, entries
<1>2. TypeOK' /\ Domains'
    BY <1>1 DEF IInv, TypeOK, Domains
<1>. QED BY <1>1, <1>2 DEF IInv, TypeOK, RequestInv, UsedBefore, LagIsBounded, RefusedOnlyWhenIdle

LEMMA FailKeeps ==
    ASSUME IInv, NEW t \in Task, Fail(t)
    PROVE  IInv'
BY LeaveKeeps DEF Fail, entries, IInv, TypeOK, Domains

-----------------------------------------------------------------------------
LEMMA NextIInv ==
    ASSUME IInv, [Next]_vars
    PROVE  IInv'
<1>1. CASE UNCHANGED vars
    BY <1>1 DEF vars, entries, IInv, TypeOK, Domains, RequestInv, UsedBefore, LagIsBounded,
        RefusedOnlyWhenIdle
<1>2. CASE \E t \in Task : Request(t)
    BY <1>2, DiscoverKeeps, LookupKeeps, ReadClockKeeps, AccessKeeps, ExpiredKeeps,
        RemoveExpiredKeeps, InsertKeeps, FailKeeps DEF Request
<1>. QED BY <1>1, <1>2, TickKeeps DEF Next

\* Every behaviour keeps the invariant, LagIsBounded among it.
THEOREM Invariance == Spec => []IInv
<1>. QED BY InitIInv, NextIInv, PTL DEF Spec

\* The shape of the state: a cache holds ids that were issued, each once, and no
\* more than its capacity (state.rs:43-58).
THEOREM TypeCorrect == Spec => []TypeOK
<1>1. IInv => TypeOK
    BY DEF IInv
<1>. QED BY <1>1, Invariance, PTL

\* Nobody is told that an entry expired which was used since its time to live,
\* less the wait for its lock, before the request came (state.rs:83-94).
THEOREM RefusalsAreDue == Spec => []RefusedOnlyWhenIdle
<1>1. IInv => RefusedOnlyWhenIdle
    BY DEF IInv
<1>. QED BY <1>1, Invariance, PTL

\* An entry nobody used for its time to live and the wait is not served.
LEMMA StepServesAlive ==
    ASSUME IInv, [Next]_vars, NEW t \in Task, pc[t] = "timed", pc'[t] \in {"idle", "building"}
    PROVE  clock < used[kind[t]][id[t]] + Ttl + MaxSkew
<1>1. ASSUME NEW u \in Task, Request(u), ~(u = t /\ Access(t)) PROVE pc'[t] = pc[t] \/ pc'[t] = "expired"
    <2>1. CASE u = t
        BY <1>1, <2>1 DEF Request, Discover, Lookup, ReadClock, Expired, RemoveExpired, Insert, Fail,
            IInv, TypeOK
    <2>2. CASE u # t
        BY <1>1, <2>2, LeaveTypes DEF Request, Discover, Lookup, ReadClock, Access, Expired,
            RemoveExpired, Insert, Fail, IInv, TypeOK
    <2>. QED BY <2>1, <2>2
<1>2. Access(t)
    BY <1>1 DEF Next, Tick, vars
<1>. QED BY <1>2, AliveWhileUsed DEF Access

THEOREM ServedAlive == Spec => ServedOnlyWhileAlive
<1>1. IInv /\ [Next]_vars =>
          [\A t \in Task :
              pc[t] = "timed" /\ pc'[t] \in {"idle", "building"} =>
                  clock < used[kind[t]][id[t]] + Ttl + MaxSkew]_vars
    BY StepServesAlive
<1>. QED BY <1>1, Invariance, PTL DEF Spec, ServedOnlyWhileAlive
=============================================================================
