--------------------------- MODULE LruCacheProofs ---------------------------
(***************************************************************************)
(* Proofs about LruCache: the list and the map agree and respect the       *)
(* capacity, the retention window holds, and the cache implements          *)
(* RecencyCache, for every set of keys and every capacity.                 *)
(***************************************************************************)
EXTENDS LruCache, FiniteSetTheorems, TLAPS

\* The list is sorted by recency: later entries were used after earlier ones.
SortedBy(s, R) ==
    \A i, j \in 1..Len(s) :
        i < j => <<s[j], s[i]>> \in R /\ <<s[i], s[j]>> \notin R

\* A call on the list s leaves the list r, from which only k may be missing.
Sublist(r, s) ==
    \A i, j \in 1..Len(r) :
        i < j => \E p, q \in 1..Len(s) : p < q /\ r[i] = s[p] /\ r[j] = s[q]

-----------------------------------------------------------------------------
(* Lists *)

\* Unlinking a present key keeps the other entries, in their order.
LEMMA DetachLemma ==
    ASSUME NEW S, NEW s \in Seq(S), NoDuplicates(s), NEW k \in Keys(s)
    PROVE  /\ Detach(s, k) \in Seq(S)
           /\ Len(Detach(s, k)) = Len(s) - 1
           /\ NoDuplicates(Detach(s, k))
           /\ Keys(Detach(s, k)) = Keys(s) \ {k}
           /\ Sublist(Detach(s, k), s)
<1> DEFINE at == CHOOSE i \in 1..Len(s) : s[i] = k
           r == [j \in 1..(Len(s) - 1) |-> IF j < at THEN s[j] ELSE s[j + 1]]
<1>1. at \in 1..Len(s) /\ s[at] = k
  BY DEF Keys
<1>2. Detach(s, k) = r
  BY DEF Detach
<1>3. Len(s) \in Nat /\ Len(s) > 0
  BY <1>1
<1> HIDE DEF at
<1>4. r \in Seq(S) /\ Len(r) = Len(s) - 1
  <2>1. \A j \in 1..(Len(s) - 1) : r[j] \in S
    BY <1>1, <1>3
  <2> QED
    BY <2>1, <1>3
<1>5. \A j \in 1..Len(r) : r[j] = IF j < at THEN s[j] ELSE s[j + 1]
  BY <1>4
<1> HIDE DEF r
<1>6. NoDuplicates(r)
  BY <1>1, <1>3, <1>4, <1>5 DEF NoDuplicates
<1>7. Keys(r) = Keys(s) \ {k}
  <2>1. \A j \in 1..Len(r) : r[j] \in Keys(s) \ {k}
    BY <1>1, <1>3, <1>4, <1>5 DEF NoDuplicates, Keys
  <2>2. ASSUME NEW i \in 1..Len(s), s[i] # k
        PROVE  s[i] \in Keys(r)
    <3>1. CASE i < at
      <4>1. i \in 1..Len(r) /\ r[i] = s[i]
        BY <3>1, <1>1, <1>3, <1>4, <1>5
      <4> QED BY <4>1 DEF Keys
    <3>2. CASE i > at
      <4>1. i - 1 \in 1..Len(r) /\ r[i - 1] = s[i]
        BY <3>2, <1>1, <1>3, <1>4, <1>5
      <4> QED BY <4>1 DEF Keys
    <3> QED BY <3>1, <3>2, <2>2, <1>1
  <2> QED
    BY <2>1, <2>2 DEF Keys
<1>8. Sublist(r, s)
  <2> SUFFICES ASSUME NEW i \in 1..Len(r), NEW j \in 1..Len(r), i < j
               PROVE  \E p, q \in 1..Len(s) :
                          p < q /\ r[i] = s[p] /\ r[j] = s[q]
    BY DEF Sublist
  <2> DEFINE p == IF i < at THEN i ELSE i + 1
             q == IF j < at THEN j ELSE j + 1
  <2>1. p \in 1..Len(s) /\ q \in 1..Len(s) /\ p < q
    BY <1>1, <1>3, <1>4
  <2>2. r[i] = s[p] /\ r[j] = s[q]
    BY <1>5
  <2> QED
    BY <2>1, <2>2
<1> QED
  BY <1>2, <1>4, <1>6, <1>7, <1>8

\* Evicting the head keeps the rest, in its order.
LEMMA TailLemma ==
    ASSUME NEW S, NEW s \in Seq(S), NoDuplicates(s), s # << >>
    PROVE  /\ Tail(s) \in Seq(S)
           /\ Len(Tail(s)) = Len(s) - 1
           /\ NoDuplicates(Tail(s))
           /\ Keys(Tail(s)) = Keys(s) \ {s[1]}
           /\ Sublist(Tail(s), s)
<1>1. /\ Len(s) \in Nat /\ Len(s) > 0
      /\ Tail(s) \in Seq(S) /\ Len(Tail(s)) = Len(s) - 1
      /\ \A i \in 1..Len(Tail(s)) : Tail(s)[i] = s[i + 1]
  OBVIOUS
<1>2. NoDuplicates(Tail(s))
  BY <1>1 DEF NoDuplicates
<1>3. Keys(Tail(s)) = Keys(s) \ {s[1]}
  <2>1. \A i \in 1..Len(Tail(s)) : Tail(s)[i] \in Keys(s) \ {s[1]}
    BY <1>1 DEF NoDuplicates, Keys
  <2>2. ASSUME NEW i \in 1..Len(s), s[i] # s[1]
        PROVE  s[i] \in Keys(Tail(s))
    <3>1. i - 1 \in 1..Len(Tail(s)) /\ Tail(s)[i - 1] = s[i]
      BY <2>2, <1>1
    <3> QED BY <3>1 DEF Keys
  <2> QED
    BY <2>1, <2>2 DEF Keys
<1>4. Sublist(Tail(s), s)
  <2> SUFFICES ASSUME NEW i \in 1..Len(Tail(s)), NEW j \in 1..Len(Tail(s)), i < j
               PROVE  \E p, q \in 1..Len(s) :
                          p < q /\ Tail(s)[i] = s[p] /\ Tail(s)[j] = s[q]
    BY DEF Sublist
  <2>1. i + 1 \in 1..Len(s) /\ j + 1 \in 1..Len(s) /\ i + 1 < j + 1
    BY <1>1
  <2> QED
    BY <2>1, <1>1
<1> QED
  BY <1>1, <1>2, <1>3, <1>4

\* A list without duplicates has as many keys as entries.
LEMMA KeysCardinality ==
    ASSUME NEW S, NEW s \in Seq(S), NoDuplicates(s)
    PROVE  IsFiniteSet(Keys(s)) /\ Cardinality(Keys(s)) = Len(s)
<1>1. Len(s) \in Nat
  OBVIOUS
<1>2. IsFiniteSet(1..Len(s)) /\ Cardinality(1..Len(s)) = Len(s)
  <2>1. 1 \in Int /\ Len(s) \in Int
    BY <1>1
  <2> QED
    BY <2>1, <1>1, FS_Interval
<1>3. ExistsBijection(1..Len(s), Keys(s))
  <2> DEFINE f == [i \in 1..Len(s) |-> s[i]]
  <2>1. f \in Bijection(1..Len(s), Keys(s))
    <3>1. f \in [1..Len(s) -> Keys(s)]
      BY DEF Keys
    <3>2. \A i, j \in 1..Len(s) : f[i] = f[j] => i = j
      BY DEF NoDuplicates
    <3>3. \A k \in Keys(s) : \E i \in 1..Len(s) : f[i] = k
      BY DEF Keys
    <3> QED
      BY <3>1, <3>2, <3>3
      DEF Bijection, Injection, Surjection, IsInjective
  <2> QED
    BY <2>1 DEF ExistsBijection
<1> QED
  BY <1>2, <1>3, FS_Bijection

-----------------------------------------------------------------------------
(* The inductive invariant *)

Irreflexive == \A k \in Key : <<k, k>> \notin newer

IInv ==
    /\ TypeOK
    /\ SortedBy(order, newer)
    /\ Irreflexive
    /\ RetentionWindow

\* Putting a used key behind a sublist of the list keeps the list sorted.
LEMMA AppendLemma ==
    ASSUME IInv,
           NEW r \in Seq(Key), NoDuplicates(r), Sublist(r, order),
           NEW k \in Key, k \notin Keys(r)
    PROVE  /\ Append(r, k) \in Seq(Key)
           /\ Len(Append(r, k)) = Len(r) + 1
           /\ NoDuplicates(Append(r, k))
           /\ Keys(Append(r, k)) = Keys(r) \cup {k}
           /\ SortedBy(Append(r, k), UsedNow(k))
<1> DEFINE a == Append(r, k)
<1>1. /\ a \in Seq(Key) /\ Len(a) = Len(r) + 1 /\ Len(r) \in Nat
      /\ \A i \in 1..Len(r) : a[i] = r[i]
      /\ a[Len(r) + 1] = k
  OBVIOUS
<1> HIDE DEF a
<1>2. \A i \in 1..Len(r) : r[i] # k /\ r[i] \in Key
  BY DEF Keys
<1>3. NoDuplicates(a)
  BY <1>1, <1>2 DEF NoDuplicates
<1>4. Keys(a) = Keys(r) \cup {k}
  BY <1>1 DEF Keys
<1>5. SortedBy(a, UsedNow(k))
  <2> SUFFICES ASSUME NEW i \in 1..Len(a), NEW j \in 1..Len(a), i < j
               PROVE  <<a[j], a[i]>> \in UsedNow(k)
                      /\ <<a[i], a[j]>> \notin UsedNow(k)
    BY DEF SortedBy
  <2>1. i \in 1..Len(r) /\ a[i] = r[i]
    BY <1>1
  <2>2. CASE j = Len(r) + 1
    BY <2>1, <2>2, <1>1, <1>2 DEF UsedNow
  <2>3. CASE j \in 1..Len(r)
    <3>1. PICK p \in 1..Len(order), q \in 1..Len(order) :
              p < q /\ r[i] = order[p] /\ r[j] = order[q]
      BY <2>1, <2>3 DEF Sublist
    <3>2. <<r[j], r[i]>> \in newer /\ <<r[i], r[j]>> \notin newer
      BY <3>1 DEF IInv, SortedBy
    <3> QED
      BY <3>2, <2>1, <2>3, <1>1, <1>2 DEF UsedNow
  <2> QED
    BY <2>2, <2>3, <1>1
<1> QED
  BY <1>1, <1>3, <1>4, <1>5 DEF a

\* A use of k never takes a key out of those newer than another key x.
LEMMA UseGrowsNewer ==
    ASSUME LruAssumption, NEW k \in Key, NEW x \in Key, x # k
    PROVE  Cardinality({j \in Key : <<j, x>> \in newer})
             <= Cardinality({j \in Key : <<j, x>> \in UsedNow(k)})
<1> DEFINE A == {j \in Key : <<j, x>> \in newer}
           B == {j \in Key : <<j, x>> \in UsedNow(k)}
<1>1. A \in SUBSET B
  BY DEF UsedNow
<1>2. IsFiniteSet(B)
  BY FS_Subset DEF LruAssumption
<1> HIDE DEF A, B
<1>3. Cardinality(A) <= Cardinality(B)
  BY <1>1, <1>2, FS_Subset
<1> QED
  BY <1>3 DEF A, B

LEMMA UsedNowType ==
    ASSUME IInv, NEW k \in Key
    PROVE  /\ UsedNow(k) \in SUBSET (Key \X Key)
           /\ \A x \in Key : <<x, x>> \notin UsedNow(k)
  BY DEF UsedNow, IInv, TypeOK, Irreflexive

\* The keys newer than the head of a full list, once a new key is used.
LEMMA EvictedIsOld ==
    ASSUME LruAssumption, IInv, NEW k \in Key, k \notin Present,
           Len(order) = Capacity
    PROVE  Cardinality({j \in Key : <<j, order[1]>> \in UsedNow(k)}) >= Capacity
<1> DEFINE h == order[1]
           T == Keys(Tail(order)) \cup {k}
           B == {j \in Key : <<j, h>> \in UsedNow(k)}
<1>1. /\ order \in Seq(Key) /\ NoDuplicates(order) /\ order # << >>
      /\ Len(order) \in Nat /\ Len(order) > 0 /\ h \in Key /\ h # k
  BY DEF LruAssumption, IInv, TypeOK, Present, Keys
<1>2. /\ Tail(order) \in Seq(Key) /\ NoDuplicates(Tail(order))
      /\ Len(Tail(order)) = Capacity - 1
      /\ Keys(Tail(order)) = Keys(order) \ {h}
  BY <1>1, TailLemma
<1>3. IsFiniteSet(Keys(Tail(order))) /\ Cardinality(Keys(Tail(order))) = Capacity - 1
  BY <1>2, KeysCardinality
<1>4. IsFiniteSet(T) /\ Cardinality(T) = Capacity
  <2>1. k \notin Keys(Tail(order))
    BY <1>2 DEF Present
  <2>2. Cardinality(T) = Cardinality(Keys(Tail(order))) + 1
    BY <2>1, <1>3, FS_AddElement
  <2> QED
    BY <2>2, <1>3, FS_AddElement DEF LruAssumption
<1>5. T \in SUBSET B
  <2>1. ASSUME NEW j \in Keys(order), j # h
        PROVE  j \in Key /\ <<j, h>> \in newer
    <3>1. PICK i \in 1..Len(order) : order[i] = j
      BY DEF Keys
    <3>2. 1 < i /\ 1 \in 1..Len(order)
      BY <3>1, <2>1, <1>1
    <3>3. <<order[i], order[1]>> \in newer
      BY <3>2 DEF IInv, SortedBy
    <3> QED
      BY <3>1, <3>3, <1>1
  <2> QED
    BY <2>1, <1>1, <1>2 DEF UsedNow
<1>6. IsFiniteSet(B)
  BY FS_Subset DEF LruAssumption
<1> HIDE DEF T, B
<1>7. Cardinality(T) <= Cardinality(B) /\ Cardinality(B) \in Nat
  BY <1>5, <1>6, FS_Subset, FS_CardinalityType
<1> QED
  BY <1>4, <1>7 DEF B, LruAssumption

\* What put keeps of the list: a sublist without k that leaves room for it.
LEMMA RoomLemma ==
    ASSUME LruAssumption, IInv, NEW k \in Key
    PROVE  /\ Room(k) \in Seq(Key) /\ NoDuplicates(Room(k))
           /\ Sublist(Room(k), order)
           /\ k \notin Keys(Room(k))
           /\ Len(Room(k)) + 1 <= Capacity
           /\ Keys(Room(k)) = IF k \notin Present /\ Len(order) = Capacity
                              THEN Present \ {order[1]}
                              ELSE Present \ {k}
<1>1. /\ order \in Seq(Key) /\ NoDuplicates(order) /\ Len(order) <= Capacity
      /\ Len(order) \in Nat /\ Capacity \in Nat /\ Capacity > 0
  BY DEF IInv, TypeOK, LruAssumption
<1>2. CASE k \in Present
  <2>1. Room(k) = Detach(order, k) /\ k \in Keys(order)
    BY <1>2 DEF Room, Present
  <2> QED
    BY <1>1, <1>2, <2>1, DetachLemma DEF Present
<1>3. CASE k \notin Present /\ Len(order) = Capacity
  <2>1. Room(k) = Tail(order) /\ order # << >>
    BY <1>1, <1>3 DEF Room
  <2> QED
    BY <1>1, <1>3, <2>1, TailLemma DEF Present
<1>4. CASE k \notin Present /\ Len(order) # Capacity
  <2>1. Room(k) = order
    BY <1>4 DEF Room
  <2>2. Sublist(order, order)
    BY DEF Sublist
  <2> QED
    BY <1>1, <1>4, <2>1, <2>2 DEF Present
<1> QED
  BY <1>2, <1>3, <1>4

LEMMA InitInv == LruAssumption /\ Init => IInv
  BY DEF LruAssumption, Init, IInv, TypeOK, NoDuplicates, SortedBy,
         Irreflexive, RetentionWindow, Present, Keys

LEMMA HitInv ==
    ASSUME LruAssumption, IInv, NEW k \in Key, Hit(k)
    PROVE  IInv'
<1> DEFINE r == Detach(order, k)
<1>1. /\ order \in Seq(Key) /\ NoDuplicates(order) /\ Len(order) <= Capacity
      /\ k \in Keys(order) /\ Len(order) \in Nat
  BY DEF IInv, TypeOK, Hit, Present
<1>2. /\ r \in Seq(Key) /\ Len(r) = Len(order) - 1 /\ NoDuplicates(r)
      /\ Keys(r) = Keys(order) \ {k} /\ Sublist(r, order)
  BY <1>1, DetachLemma
<1>3. order' = Append(r, k) /\ newer' = UsedNow(k)
  BY DEF Hit
<1> HIDE DEF r
<1>4. /\ order' \in Seq(Key) /\ Len(order') = Len(order) /\ NoDuplicates(order')
      /\ Keys(order') = Keys(order) /\ SortedBy(order', newer')
  <2>1. k \notin Keys(r)
    BY <1>2
  <2>2. /\ order' \in Seq(Key) /\ Len(order') = Len(r) + 1 /\ NoDuplicates(order')
        /\ Keys(order') = Keys(r) \cup {k} /\ SortedBy(order', newer')
    BY <1>2, <1>3, <2>1, AppendLemma
  <2> QED
    BY <1>1, <1>2, <2>2
<1>5. TypeOK'
  <2>1. newer' \in SUBSET (Key \X Key)
    BY <1>3, UsedNowType
  <2>2. reply' \in Value \cup {NoValue}
    BY <1>1 DEF Hit, IInv, TypeOK, Present
  <2>3. val' \in [Present' -> Value] /\ expected' \in SUBSET Key
    BY <1>4 DEF Hit, IInv, TypeOK, Present
  <2> QED
    BY <1>1, <1>4, <2>1, <2>2, <2>3 DEF TypeOK
<1>6. Irreflexive'
  BY <1>3, UsedNowType DEF Irreflexive
<1>7. RetentionWindow'
  <2> SUFFICES ASSUME NEW x \in expected' \ Present'
               PROVE  Cardinality({j \in Key : <<j, x>> \in newer'}) >= Capacity
    BY DEF RetentionWindow
  <2>1. x \in expected \ Present /\ x \in Key /\ x # k
    BY <1>1, <1>4 DEF Hit, Present, IInv, TypeOK
  <2>2. Cardinality({j \in Key : <<j, x>> \in newer}) >= Capacity
    BY <2>1 DEF IInv, RetentionWindow
  <2>3. Cardinality({j \in Key : <<j, x>> \in newer})
          <= Cardinality({j \in Key : <<j, x>> \in UsedNow(k)})
    BY <2>1, UseGrowsNewer
  <2>4. /\ Cardinality({j \in Key : <<j, x>> \in newer}) \in Nat
        /\ Cardinality({j \in Key : <<j, x>> \in UsedNow(k)}) \in Nat
    BY FS_Subset, FS_CardinalityType DEF LruAssumption
  <2> QED
    BY <2>2, <2>3, <2>4, <1>3 DEF LruAssumption
<1> QED
  BY <1>4, <1>5, <1>6, <1>7 DEF IInv

LEMMA PutInv ==
    ASSUME LruAssumption, IInv, NEW k \in Key, NEW v \in Value, Put(k, v),
           reply' \in Value \cup {NoValue}
    PROVE  IInv'
<1> DEFINE r == Room(k)
<1>1. /\ r \in Seq(Key) /\ NoDuplicates(r) /\ Sublist(r, order)
      /\ k \notin Keys(r) /\ Len(r) + 1 <= Capacity
      /\ Keys(r) = IF k \notin Present /\ Len(order) = Capacity
                   THEN Present \ {order[1]} ELSE Present \ {k}
  BY RoomLemma
<1>2. /\ order' = Append(r, k) /\ newer' = UsedNow(k)
      /\ expected' = expected \cup {k}
      /\ val' = [x \in Keys(r) \cup {k} |-> IF x = k THEN v ELSE val[x]]
  BY DEF Put
<1> HIDE DEF r
<1>3. /\ order' \in Seq(Key) /\ Len(order') = Len(r) + 1
      /\ NoDuplicates(order') /\ Keys(order') = Keys(r) \cup {k}
      /\ SortedBy(order', newer')
  BY <1>1, <1>2, AppendLemma
<1>4. TypeOK'
  <2>1. newer' \in SUBSET (Key \X Key)
    BY <1>2, UsedNowType
  <2>2. val' \in [Present' -> Value]
    BY <1>1, <1>2, <1>3 DEF IInv, TypeOK, Present
  <2>3. expected' \in SUBSET Key
    BY <1>2 DEF IInv, TypeOK
  <2>4. Len(order') <= Capacity
    BY <1>1, <1>3
  <2> QED
    BY <1>3, <2>1, <2>2, <2>3, <2>4 DEF TypeOK
<1>5. Irreflexive'
  BY <1>2, UsedNowType DEF Irreflexive
<1>6. RetentionWindow'
  <2> SUFFICES ASSUME NEW x \in expected' \ Present'
               PROVE  Cardinality({j \in Key : <<j, x>> \in newer'}) >= Capacity
    BY DEF RetentionWindow
  <2>1. x # k /\ x \in expected /\ x \in Key /\ x \notin Keys(r)
    BY <1>2, <1>3 DEF Present, IInv, TypeOK
  <2>2. CASE x \notin Present
    <3>1. Cardinality({j \in Key : <<j, x>> \in newer}) >= Capacity
      BY <2>1, <2>2 DEF IInv, RetentionWindow
    <3>2. Cardinality({j \in Key : <<j, x>> \in newer})
            <= Cardinality({j \in Key : <<j, x>> \in UsedNow(k)})
      BY <2>1, UseGrowsNewer
    <3>3. /\ Cardinality({j \in Key : <<j, x>> \in newer}) \in Nat
          /\ Cardinality({j \in Key : <<j, x>> \in UsedNow(k)}) \in Nat
      BY FS_Subset, FS_CardinalityType DEF LruAssumption
    <3> QED
      BY <3>1, <3>2, <3>3, <1>2 DEF LruAssumption
  <2>3. CASE x \in Present
    <3>1. x = order[1] /\ k \notin Present /\ Len(order) = Capacity
      BY <1>1, <2>1, <2>3
    <3> QED
      BY <3>1, EvictedIsOld, <1>2
  <2> QED
    BY <2>2, <2>3
<1> QED
  BY <1>3, <1>4, <1>5, <1>6 DEF IInv

LEMMA RemoveInv ==
    ASSUME LruAssumption, IInv, NEW k \in Key, Remove(k)
    PROVE  IInv'
<1>1. /\ order \in Seq(Key) /\ NoDuplicates(order) /\ Len(order) <= Capacity
      /\ Len(order) \in Nat /\ SortedBy(order, newer)
  BY DEF IInv, TypeOK
<1>2. /\ order' \in Seq(Key) /\ Len(order') <= Len(order) /\ NoDuplicates(order')
      /\ Keys(order') = Keys(order) \ {k} /\ Sublist(order', order)
  <2>1. CASE k \in Present
    BY <1>1, <2>1, DetachLemma DEF Remove, Present
  <2>2. CASE k \notin Present
    BY <1>1, <2>2 DEF Remove, Present, Sublist
  <2> QED
    BY <2>1, <2>2
<1>3. SortedBy(order', newer')
  <2> SUFFICES ASSUME NEW i \in 1..Len(order'), NEW j \in 1..Len(order'), i < j
               PROVE  <<order'[j], order'[i]>> \in newer
                      /\ <<order'[i], order'[j]>> \notin newer
    BY DEF SortedBy, Remove
  <2>1. PICK p, q \in 1..Len(order) :
            p < q /\ order'[i] = order[p] /\ order'[j] = order[q]
    BY <1>2 DEF Sublist
  <2> QED
    BY <2>1, <1>1 DEF SortedBy
<1>4. TypeOK'
  <2>1. val' \in [Present' -> Value]
    BY <1>2 DEF Remove, IInv, TypeOK, Present
  <2>2. newer' \in SUBSET (Key \X Key) /\ expected' \in SUBSET Key
        /\ reply' \in Value \cup {NoValue}
    BY DEF Remove, IInv, TypeOK
  <2>3. Len(order') <= Capacity
    BY <1>1, <1>2 DEF LruAssumption
  <2> QED
    BY <1>2, <2>1, <2>2, <2>3 DEF TypeOK
<1>5. Irreflexive'
  BY DEF IInv, Irreflexive, Remove
<1>6. RetentionWindow'
  BY <1>2 DEF IInv, RetentionWindow, Remove, Present
<1> QED
  BY <1>3, <1>4, <1>5, <1>6 DEF IInv

LEMMA StepInv ==
    ASSUME LruAssumption, IInv, [Next]_vars
    PROVE  IInv'
<1>1. CASE UNCHANGED vars
  BY <1>1 DEF vars, IInv, TypeOK, SortedBy, Irreflexive, RetentionWindow,
              Present, Keys, NoDuplicates
<1>2. ASSUME NEW k \in Key, Miss(k)
      PROVE  IInv'
  BY <1>2 DEF Miss, IInv, TypeOK, SortedBy, Irreflexive, RetentionWindow,
              Present, Keys, NoDuplicates
<1>3. ASSUME NEW k \in Key, NEW v \in Value, Insert(k, v) \/ GetOrInsertWith(k, v)
      PROVE  IInv'
  BY <1>3, HitInv, PutInv DEF Insert, GetOrInsertWith
<1> QED
  BY <1>1, <1>2, <1>3, HitInv, RemoveInv DEF Next, Get

\* At every moment the recency list and the hash map of a BoundedCache hold the
\* same keys, none twice and no more than the capacity (cache.rs:46-79).
THEOREM TypeCorrect == Spec => []TypeOK
<1>1. LruAssumption
  BY LruAssumption
<1>2. Init => IInv
  BY <1>1, InitInv
<1>3. IInv /\ [Next]_vars => IInv'
  BY <1>1, StepInv
<1>4. IInv => TypeOK
  BY DEF IInv
<1> QED
  BY <1>2, <1>3, <1>4, PTL DEF Spec

\* An entry nobody removed is missing only after Capacity other keys were used
\* since its last use (the eviction rule documented at cache.rs:5-8, 59-63).
THEOREM RetentionCorrect == Spec => []RetentionWindow
<1>1. LruAssumption
  BY LruAssumption
<1>2. Init => IInv
  BY <1>1, InitInv
<1>3. IInv /\ [Next]_vars => IInv'
  BY <1>1, StepInv
<1>4. IInv => RetentionWindow
  BY DEF IInv
<1> QED
  BY <1>2, <1>3, <1>4, PTL DEF Spec

-----------------------------------------------------------------------------
(* Refinement *)

\* What the invariant says in the terms of RecencyCache: when the list is
\* full its head is the one key every other present key is newer than.
LEMMA HeadIsLeastRecent ==
    ASSUME LruAssumption, IInv, Len(order) = Capacity
    PROVE  Recency!LeastRecent = {order[1]}
<1>1. /\ order \in Seq(Key) /\ Len(order) \in Nat /\ Len(order) > 0
      /\ DOMAIN val = Keys(order)
  BY DEF IInv, TypeOK, LruAssumption, Present
<1>2. order[1] \in Keys(order) /\ order[1] \in Key
  BY <1>1 DEF Keys
<1>3. ASSUME NEW j \in Keys(order)
      PROVE  <<order[1], j>> \notin newer
  <2>1. PICK i \in 1..Len(order) : order[i] = j
    BY DEF Keys
  <2>2. CASE i = 1
    BY <2>1, <2>2, <1>2 DEF IInv, Irreflexive
  <2>3. CASE 1 < i
    <3>1. 1 \in 1..Len(order)
      BY <1>1
    <3> QED
      BY <2>1, <2>3, <3>1 DEF IInv, SortedBy
  <2> QED
    BY <2>1, <2>2, <2>3, <1>1
<1>4. ASSUME NEW j \in Keys(order), j # order[1]
      PROVE  <<j, order[1]>> \in newer
  <2>1. PICK i \in 1..Len(order) : order[i] = j
    BY DEF Keys
  <2>2. 1 < i /\ 1 \in 1..Len(order)
    BY <2>1, <1>1, <1>4
  <2> QED
    BY <2>1, <2>2 DEF IInv, SortedBy
<1> QED
  BY <1>1, <1>2, <1>3, <1>4 DEF Recency!LeastRecent

LEMMA PutRefines ==
    ASSUME LruAssumption, IInv, NEW k \in Key, NEW v \in Value, Put(k, v)
    PROVE  Recency!Put(k, v)
<1>1. /\ DOMAIN val = Present /\ order \in Seq(Key) /\ NoDuplicates(order)
      /\ Len(order) <= Capacity /\ Len(order) \in Nat /\ Capacity \in Nat
  BY DEF IInv, TypeOK, LruAssumption
<1>2. Cardinality(DOMAIN val) = Len(order)
  BY <1>1, KeysCardinality DEF Present
<1>3. Recency!Kept(k) = IF k \notin Present /\ Len(order) = Capacity
                        THEN Present \ {order[1]} ELSE Present
  <2>1. Len(order) < Capacity <=> Len(order) # Capacity
    BY <1>1
  <2>2. Recency!Cardinality(DOMAIN val) = Cardinality(DOMAIN val)
    BY DEF Recency!Cardinality, Cardinality
  <2> QED
    BY <1>1, <1>2, <2>1, <2>2, HeadIsLeastRecent DEF Recency!Kept
<1>4. Recency!Kept(k) \cup {k} = Keys(Room(k)) \cup {k}
  <2>1. Keys(Room(k)) = IF k \notin Present /\ Len(order) = Capacity
                        THEN Present \ {order[1]} ELSE Present \ {k}
    BY RoomLemma
  <2> QED
    BY <2>1, <1>3
<1> QED
  BY <1>4 DEF Put, Recency!Put, UsedNow, Recency!UsedNow

LEMMA HitRefines ==
    ASSUME LruAssumption, IInv, NEW k \in Key, Hit(k)
    PROVE  k \in DOMAIN val /\ Recency!Get(k)
  BY DEF Hit, Recency!Get, IInv, TypeOK, UsedNow, Recency!UsedNow

\* BoundedCache, a list and a map, implements the bounded map that evicts by
\* recency: same entries, same answers (cache.rs:37-79 against its comments).
THEOREM Refinement == Spec => RefinesRecencyCache
<1>1. LruAssumption
  BY LruAssumption
<1>2. Init => IInv
  BY <1>1, InitInv
<1>3. IInv /\ [Next]_vars => IInv'
  BY <1>1, StepInv
<1>4. Init => Recency!Init
  BY DEF Init, Recency!Init
<1>5. IInv /\ [Next]_vars => [Recency!Next]_(Recency!vars)
  <2> SUFFICES ASSUME IInv, [Next]_vars
               PROVE  [Recency!Next]_(Recency!vars)
    OBVIOUS
  <2>1. CASE UNCHANGED vars
    BY <2>1 DEF vars, Recency!vars
  <2>2. DOMAIN val = Present
    BY DEF IInv, TypeOK
  <2>3. ASSUME NEW k \in Key, Hit(k)
        PROVE  Recency!Next
    BY <2>3, <1>1, HitRefines DEF Recency!Next
  <2>4. ASSUME NEW k \in Key, Miss(k)
        PROVE  Recency!Next
    <3>1. Recency!Get(k)
      BY <2>4, <2>2 DEF Miss, Recency!Get
    <3> QED
      BY <3>1 DEF Recency!Next
  <2>5. ASSUME NEW k \in Key, Remove(k)
        PROVE  Recency!Next
    <3>1. Recency!Remove(k)
      BY <2>5 DEF Remove, Recency!Remove
    <3> QED
      BY <3>1 DEF Recency!Next
  <2>6. ASSUME NEW k \in Key, NEW v \in Value, Insert(k, v)
        PROVE  Recency!Next
    <3>1. Recency!Insert(k, v)
      BY <2>6, <1>1, PutRefines DEF Insert, Recency!Insert
    <3> QED
      BY <3>1 DEF Recency!Next
  <2>7. ASSUME NEW k \in Key, NEW v \in Value, GetOrInsertWith(k, v)
        PROVE  Recency!Next
    <3>1. Recency!GetOrInsertWith(k, v)
      BY <2>7, <2>2, <1>1, PutRefines, HitRefines
      DEF GetOrInsertWith, Recency!GetOrInsertWith
    <3> QED
      BY <3>1 DEF Recency!Next
  <2>8. CASE Next
    BY <2>8, <2>3, <2>4, <2>5, <2>6, <2>7 DEF Next, Get
  <2> QED
    BY <2>1, <2>8
<1> QED
  BY <1>2, <1>3, <1>4, <1>5, PTL DEF Spec, RefinesRecencyCache, Recency!Spec
=============================================================================
