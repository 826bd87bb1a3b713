------------------------ MODULE MediaRequestsProofs -------------------------
(***************************************************************************)
(* Media requests get the bytes they ask for, of the row they ask for, for  *)
(* every word size, Blob size and header, and for any number of requests,   *)
(* datasets, rows and slots.  The range comes first, then the slots.        *)
(***************************************************************************)
EXTENDS MediaRequests, FiniteSetTheorems, TLAPS

\* The inductive invariant: the reply is the answer to the request.
RInv ==
    /\ size \in 0..MaxWord
    /\ header \in Header \cup {Absent, Malformed} /\ head \in BOOLEAN
    /\ reply = Answer(header, head)

LEMMA RangeStep ==
    ASSUME RInv,
           RangeRequest \/ UNCHANGED rangeVars \/
             (UNCHANGED size /\ header' = Absent /\ head' = FALSE /\ reply' = Answer(Absent, FALSE))
    PROVE  RInv'
<1>1. CASE RangeRequest
    BY <1>1 DEF RInv, RangeRequest, Answer, Refused, SuffixRefused, RangeRefused,
        Unsatisfiable, Start, End, EndBefore, LastByte, ContentLength, Interval
<1>2. CASE UNCHANGED rangeVars
    BY <1>2 DEF RInv, rangeVars, Answer, Refused, SuffixRefused, RangeRefused,
        Unsatisfiable, Start, End, EndBefore, LastByte, ContentLength, Interval
<1>3. CASE UNCHANGED size /\ header' = Absent /\ head' = FALSE /\ reply' = Answer(Absent, FALSE)
    <2>1. Answer(header, head)' = Answer(Absent, FALSE)
        BY <1>3 DEF Answer, Refused, SuffixRefused, RangeRefused,
            Unsatisfiable, Start, End, EndBefore, LastByte, ContentLength, Interval
    <2>. QED BY <1>3, <2>1 DEF RInv
<1>. QED BY <1>1, <1>2, <1>3

\* A request for a plain Blob, and one for an element of an array.
LEMMA RangeInvariance == RangeSpec => []RInv
<1>1. RangeInit => RInv
    BY DEF RangeInit, RInv
<1>2. RInv /\ [RangeNext]_rangeVars => RInv'
    BY RangeStep DEF RangeNext
<1>. QED BY <1>1, <1>2, PTL DEF RangeSpec

LEMMA ElementRange == Spec => []RInv
<1>1. Init => RInv
    BY DEF Init, RangeInit, RInv
<1>2. RInv /\ [Next]_vars => RInv'
    BY RangeStep DEF Next, vars, rangeVars, ReadElement, Proceed
<1>. QED BY <1>1, <1>2, PTL DEF Spec

\* What parse_range returns for a header it does not refuse: a slice of the
\* Blob, empty only without a header.
LEMMA Slice ==
    ASSUME RInv, ~Refused(header)
    PROVE  /\ header \in Header \cup {Absent}
           /\ Start(header) \in Nat /\ End(header) \in Nat
           /\ Start(header) <= End(header) /\ End(header) <= size
           /\ header # Absent => Start(header) < End(header)
<1>0. size \in Nat /\ MaxWord \in Nat /\ size <= MaxWord
    BY RangeAssumption DEF RInv
<1>1. header # Malformed
    BY RangeAssumption DEF Refused
<1>2. CASE header = Absent
    BY <1>0, <1>1, <1>2 DEF Start, End
<1>3. CASE header \in Header /\ header # Absent
    <2>1. header.first \in Text /\ header.last \in Text
        BY <1>3 DEF Header
    <2>2. CASE header.first = Empty
        <3>1. header.last \in 0..MaxWord /\ header.last # 0 /\ size # 0
            BY <1>1, <1>3, <2>2 DEF Refused, SuffixRefused, Parses
        <3>. QED BY <1>0, <1>3, <2>2, <3>1 DEF Start, End, SaturatingSub
    <2>3. CASE header.first # Empty
        <3>1. header.first \in 0..MaxWord /\ header.first < size
            BY <1>0, <1>1, <1>3, <2>3 DEF Refused, RangeRefused, Parses
        <3>2. CASE header.last = Empty
            BY <1>0, <1>3, <2>3, <3>1, <3>2 DEF Start, End
        <3>3. CASE header.last # Empty
            <4>1. header.last \in 0..MaxWord /\ header.first <= header.last
                BY <1>0, <1>1, <1>3, <2>3, <3>1, <3>3 DEF Refused, RangeRefused, Parses
            <4>. QED BY <1>0, <1>3, <2>3, <3>1, <3>3, <4>1
                DEF Start, End, EndBefore, SaturatingAdd
        <3>. QED BY <3>2, <3>3
    <2>. QED BY <2>2, <2>3
<1>. QED BY <1>1, <1>2, <1>3 DEF RInv

\* The slice has as many bytes as lie between its ends.
LEMMA SliceLength ==
    ASSUME RInv, ~Refused(header)
    PROVE  Cardinality(Interval(Start(header), End(header)))
               = End(header) - Start(header)
<1>. DEFINE s == Start(header)
            e == End(header)
<1>1. s \in Nat /\ e \in Nat /\ s <= e /\ e <= size /\ size \in Nat
    BY Slice, RangeAssumption DEF RInv
<1>. HIDE DEF s, e
<1>2. Interval(s, e) = s..(e - 1)
    BY <1>1 DEF Interval
<1>3. Cardinality(s..(e - 1)) = IF s > e - 1 THEN 0 ELSE (e - 1) - s + 1
    BY <1>1, FS_Interval
<1>4. Cardinality(Interval(s, e)) = e - s
    BY <1>1, <1>2, <1>3
<1>. QED BY <1>4 DEF s, e

\* The slice is the set of bytes the header selects.
LEMMA SliceSelected ==
    ASSUME RInv, ~Refused(header)
    PROVE  /\ Interval(Start(header), End(header)) = Selected(header)
           /\ Valid(header)
<1>0. size \in Nat /\ MaxWord \in Nat /\ size <= MaxWord
    BY RangeAssumption DEF RInv
<1>1. header \in Header \cup {Absent}
    BY Slice
<1>2. CASE header = Absent
    <2>1. Interval(0, size) = {i \in 0..(size - 1) : TRUE}
        BY <1>0 DEF Interval
    <2>. QED BY <1>2, <2>1 DEF Start, End, Selected, Valid
<1>3. CASE header \in Header /\ header # Absent
    <2>0. header # Malformed
        BY RangeAssumption DEF Refused
    <2>2. CASE header.first = Empty
        <3>1. header.last \in 0..MaxWord /\ header.last # 0 /\ size # 0
            BY <2>0, <1>3, <2>2 DEF Refused, SuffixRefused, Parses
        <3>2. Valid(header)
            BY <1>3, <2>2, <3>1, RangeAssumption DEF Valid, Parses
        <3>3. Interval(SaturatingSub(size, header.last), size)
                 = {i \in 0..(size - 1) : size - i <= header.last}
            BY <1>0, <3>1 DEF Interval, SaturatingSub
        <3>. QED BY <1>3, <2>2, <3>2, <3>3 DEF Start, End, Selected
    <2>3. CASE header.first # Empty
        <3>1. header.first \in 0..MaxWord /\ header.first < size
            BY <1>0, <2>0, <1>3, <2>3 DEF Refused, RangeRefused, Parses
        <3>2. CASE header.last = Empty
            <4>1. Valid(header)
                BY <1>3, <2>3, <3>1, <3>2, RangeAssumption DEF Valid, Parses
            <4>2. Interval(header.first, size)
                     = {i \in 0..(size - 1) : header.first <= i}
                BY <1>0, <3>1 DEF Interval
            <4>. QED BY <1>3, <2>3, <3>2, <4>1, <4>2 DEF Start, End, Selected
        <3>3. CASE header.last # Empty
            <4>1. header.last \in 0..MaxWord /\ header.first <= header.last
                BY <1>0, <2>0, <1>3, <2>3, <3>1, <3>3 DEF Refused, RangeRefused, Parses
            <4>2. Valid(header)
                BY <1>3, <2>3, <3>1, <4>1 DEF Valid, Parses
            <4>3. Interval(header.first, EndBefore(size, header))
                     = {i \in 0..(size - 1) : header.first <= i /\ i <= header.last}
                BY <1>0, <3>1, <4>1 DEF Interval, EndBefore, SaturatingAdd
            <4>. QED BY <1>3, <2>3, <3>3, <4>2, <4>3 DEF Start, End, Selected
        <3>. QED BY <3>2, <3>3
    <2>. QED BY <2>2, <2>3
<1>. QED BY <1>1, <1>2, <1>3

\* A refused header is invalid or selects nothing.
LEMMA RefusedRightly ==
    ASSUME RInv, Refused(header)
    PROVE  ~Valid(header) \/ (header # Absent /\ Selected(header) = {})
<1>0. size \in Nat /\ MaxWord \in Nat /\ size <= MaxWord
    BY RangeAssumption DEF RInv
<1>1. header # Absent
    BY DEF Refused
<1>. SUFFICES ASSUME Valid(header) PROVE Selected(header) = {}
    BY <1>1
<1>2. header \in Header /\ header # Malformed
    <2>1. header \in Header
        BY <1>1 DEF Valid
    <2>2. Text \subseteq Nat \cup {Empty, Garbage}
        BY RangeAssumption DEF Text
    <2>3. header \in [first : Nat \cup {Empty, Garbage}, last : Nat \cup {Empty, Garbage}]
        BY <2>1, <2>2 DEF Header
    <2>. QED BY <2>1, <2>3, RangeAssumption
<1>3. CASE header.first = Empty
    <2>1. Parses(header.last)
        BY <1>1, <1>3 DEF Valid
    <2>2. header.last = 0 \/ size = 0
        BY <1>1, <1>2, <1>3, <2>1 DEF Refused, SuffixRefused
    <2>3. {i \in 0..(size - 1) : size - i <= header.last} = {}
        BY <1>0, <2>1, <2>2 DEF Parses
    <2>. QED BY <1>1, <1>3, <2>3 DEF Selected
<1>4. CASE header.first # Empty
    <2>1. Parses(header.first) /\ RangeRefused(header)
        BY <1>1, <1>2, <1>4 DEF Valid, Refused
    <2>2. ~(header.last # Empty /\ (~Parses(header.last) \/ header.last < header.first))
        BY <1>0, <1>1, <2>1 DEF Valid, Parses
    <2>3. header.first >= size
        BY <2>1, <2>2 DEF RangeRefused
    <2>. QED BY <1>0, <1>1, <1>4, <2>1, <2>3 DEF Selected, Parses
<1>. QED BY <1>3, <1>4

\* Exactly the selected bytes are sent, for every Blob and every header.
THEOREM RangeExact == RangeSpec \/ Spec => []RangeIsExact
<1>1. RInv => RangeIsExact
    <2>. SUFFICES ASSUME RInv PROVE RangeIsExact
        OBVIOUS
    <2>1. CASE Refused(header)
        BY <2>1, RefusedRightly DEF RInv, RangeIsExact, Answer, Unsatisfiable
    <2>2. CASE ~Refused(header)
        <3>1. /\ reply.status = IF header = Absent THEN 200 ELSE 206
              /\ reply.body = IF head THEN {} ELSE Interval(Start(header), End(header))
            BY <2>2 DEF RInv, Answer
        <3>2. header # Absent => Selected(header) # {}
            <4>. SUFFICES ASSUME header # Absent PROVE Selected(header) # {}
                OBVIOUS
            <4>1. /\ Start(header) \in Nat /\ End(header) \in Nat /\ size \in Nat
                  /\ Start(header) < End(header) /\ End(header) <= size
                BY <2>2, Slice, RangeAssumption DEF RInv
            <4>2. Start(header) \in Interval(Start(header), End(header))
                BY <4>1 DEF Interval
            <4>. QED BY <2>2, <4>2, SliceSelected
        <3>. QED BY <2>2, <3>1, <3>2, SliceSelected DEF RangeIsExact
    <2>. QED BY <2>1, <2>2
<1>. QED BY <1>1, RangeInvariance, ElementRange, PTL

\* The slice is inside the Blob and the headers describe it, in 64-bit words.
THEOREM SliceSound == RangeSpec \/ Spec => []SliceIsSound
<1>1. RInv => SliceIsSound
    <2>. SUFFICES ASSUME RInv, reply.status # 416 PROVE SliceIsSound
        BY DEF SliceIsSound
    <2>1. ~Refused(header)
        BY DEF RInv, Answer, Unsatisfiable
    <2>. DEFINE s == Start(header)
                e == End(header)
    <2>2. /\ s \in Nat /\ e \in Nat /\ s <= e /\ e <= size
          /\ header # Absent => s < e
          /\ size \in Nat /\ MaxWord \in Nat /\ size <= MaxWord
        BY <2>1, Slice, RangeAssumption DEF RInv
    <2>3. Cardinality(Interval(s, e)) = e - s
        BY <2>1, SliceLength
    <2>4. /\ reply.start = s /\ reply.end = e /\ reply.last = LastByte(header)
          /\ reply.length = ContentLength(header, head)
          /\ reply.status = IF header = Absent THEN 200 ELSE 206
        BY <2>1 DEF RInv, Answer
    <2>5. ContentLength(header, head) = e - s
        <3>1. SaturatingSub(e, s) = e - s
            BY <2>2 DEF SaturatingSub
        <3>. QED BY <2>3, <3>1 DEF ContentLength
    <2>6. header # Absent => LastByte(header) = e - 1
        <3>1. LastByte(header) = (e + MaxWord) % (MaxWord + 1)
            BY DEF LastByte
        <3>. HIDE DEF e, s
        <3>2. ASSUME header # Absent
              PROVE  (e + MaxWord) % (MaxWord + 1) = e - 1
            <4>1. e >= 1 /\ e - 1 < MaxWord + 1 /\ e - 1 \in Nat
                BY <2>2, <3>2
            <4>2. e + MaxWord = (e - 1) + (MaxWord + 1)
                BY <2>2
            <4>3. \A m \in Nat \ {0}, r \in Nat : r < m => (r + m) % m = r
                OBVIOUS
            <4>. QED BY <2>2, <4>1, <4>2, <4>3
        <3>. QED BY <3>1, <3>2
    <2>. HIDE DEF s, e
    <2>. QED BY <2>2, <2>4, <2>5, <2>6 DEF SliceIsSound
<1>. QED BY <1>1, RangeInvariance, ElementRange, PTL

-----------------------------------------------------------------------------
(* The slots *)

\* A slot was made for a row and holds the array of that row, or nothing yet.
SlotInv ==
    /\ key \in [Slot -> {None} \cup (Connection \X Row)]
    /\ \A s \in 1..made : key[s] \in Connection \X Row /\ array[s] \in {None, key[s]}
    /\ \A s \in Slot : s > made => array[s] = None

\* A request holds the slot of the row it asks for.
RequestInv ==
    /\ conn \in [Task -> Connection \cup {None}] /\ row \in [Task -> Row \cup {None}]
    /\ \A t \in Task : pc[t] # "idle" =>
          /\ slot[t] \in 1..made /\ conn[t] \in Connection /\ row[t] \in Row
          /\ key[slot[t]] = <<conn[t], row[t]>>

\* A slot is loaded by one request, and only while it is empty.
LoadInv ==
    /\ \A t \in Task : pc[t] = "loading" => array[slot[t]] = None
    /\ \A t, u \in Task : pc[t] = "loading" /\ pc[u] = "loading" /\ slot[t] = slot[u] => t = u

\* Each load has filled a slot of its row.
FilledFor(x) == {s \in 1..made : key[s] = x /\ array[s] # None}

LoadsInv == \A x \in Connection \X Row : loads[x] = Cardinality(FilledFor(x))

SInv == TypeOK /\ SlotInv /\ RequestInv /\ LoadInv /\ LoadsInv /\ ServedItsOwn

LEMMA FilledFinite ==
    ASSUME TypeOK, NEW x
    PROVE  IsFiniteSet(FilledFor(x)) /\ FilledFor(x) \subseteq 1..made
<1>1. made \in Nat
    BY SlotsAssumption DEF TypeOK
<1>2. IsFiniteSet(1..made)
    BY <1>1, FS_Interval
<1>3. FilledFor(x) \in SUBSET (1..made)
    BY DEF FilledFor
<1>. QED BY <1>2, <1>3, FS_Subset

LEMMA InitSInv == SlotsInit => SInv
<1>. SUFFICES ASSUME SlotsInit PROVE SInv
    OBVIOUS
<1>1. TypeOK
    BY SlotsAssumption DEF SlotsInit, TypeOK
<1>2. SlotInv /\ RequestInv /\ LoadInv /\ ServedItsOwn
    BY SlotsAssumption DEF SlotsInit, SlotInv, RequestInv, LoadInv, ServedItsOwn
<1>3. \A x \in Connection \X Row : FilledFor(x) = {}
    BY DEF SlotsInit, FilledFor
<1>4. LoadsInv
    BY <1>3, FS_EmptySet DEF SlotsInit, LoadsInv
<1>. QED BY <1>1, <1>2, <1>4 DEF SInv

\* A use moves a slot to the end of the list and changes nothing else there.
LEMMA PromotedKeeps ==
    ASSUME TypeOK, NEW n \in DOMAIN order
    PROVE  /\ Promoted(n) \in Seq(1..made) /\ Len(Promoted(n)) = Len(order)
           /\ \A l, m \in DOMAIN Promoted(n) : key[Promoted(n)[l]] = key[Promoted(n)[m]] => l = m
<1>. DEFINE p == Promoted(n)
            k == Len(order)
            at == [m \in 1..k |-> IF m < n THEN m ELSE IF m < k THEN m + 1 ELSE n]
<1>1. /\ order \in Seq(1..made) /\ k \in Nat /\ DOMAIN order = 1..k /\ n \in 1..k
      /\ \A m \in 1..k : order[m] \in 1..made
      /\ \A l, m \in 1..k : key[order[l]] = key[order[m]] => l = m
    BY DEF TypeOK
<1>. HIDE DEF k
<1>2. /\ \A m \in 1..k : at[m] \in 1..k
      /\ \A l, m \in 1..k : at[l] = at[m] => l = m
    <2>1. n \in Nat /\ k \in Nat /\ 1 <= n /\ n <= k
        BY <1>1
    <2>2. \A m \in 1..k : at[m] = IF m < n THEN m ELSE IF m < k THEN m + 1 ELSE n
        OBVIOUS
    <2>. HIDE DEF at
    <2>. QED BY <2>1, <2>2
<1>3. p = [m \in 1..k |-> order[at[m]]]
    BY <1>1 DEF Promoted, k
<1>. HIDE DEF at, p
<1>4. \A m \in 1..k : order[at[m]] \in 1..made
    BY <1>1, <1>2
<1>5. p \in Seq(1..made) /\ Len(p) = k /\ DOMAIN p = 1..k /\ \A m \in 1..k : p[m] = order[at[m]]
    BY <1>1, <1>3, <1>4
<1>6. \A l, m \in 1..k : key[p[l]] = key[p[m]] => l = m
    <2>. SUFFICES ASSUME NEW l \in 1..k, NEW m \in 1..k, key[p[l]] = key[p[m]]
                  PROVE  l = m
        OBVIOUS
    <2>1. at[l] = at[m]
        BY <1>1, <1>2, <1>5
    <2>. QED BY <1>2, <2>1
<1>. QED BY <1>5, <1>6 DEF p, k

\* A new slot takes the place of the one used least recently.
LEMMA RoomKeeps ==
    ASSUME TypeOK
    PROVE  /\ Room \in Seq(1..made) /\ Len(Room) < Capacity
           /\ \A n \in DOMAIN Room : \E m \in DOMAIN order : Room[n] = order[m]
           /\ \A m, n \in DOMAIN Room : key[Room[m]] = key[Room[n]] => m = n
<1>1. /\ Capacity \in Nat \ {0} /\ Len(order) \in Nat /\ Len(order) <= Capacity
      /\ order \in Seq(1..made) /\ DOMAIN order = 1..Len(order)
      /\ \A l, m \in DOMAIN order : key[order[l]] = key[order[m]] => l = m
    BY SlotsAssumption DEF TypeOK
<1>2. CASE Len(order) = Capacity
    <2>1. /\ Tail(order) \in Seq(1..made) /\ Len(Tail(order)) = Len(order) - 1
          /\ DOMAIN Tail(order) = 1..(Len(order) - 1)
          /\ \A n \in 1..(Len(order) - 1) : Tail(order)[n] = order[n + 1]
        BY <1>1, <1>2
    <2>2. \A n \in 1..(Len(order) - 1) : n + 1 \in 1..Len(order)
        BY <1>1
    <2>3. Room = Tail(order)
        BY <1>2 DEF Room
    <2>. QED BY <1>1, <1>2, <2>1, <2>2, <2>3
<1>3. CASE Len(order) # Capacity
    BY <1>1, <1>3 DEF Room
<1>. QED BY <1>2, <1>3

\* A slot that is there: only the order of use changes, and who holds it.
LEMMA HitKeeps ==
    ASSUME SInv, NEW t \in Task, NEW c \in Connection, NEW r \in Row, NEW n \in CachedFor(c, r),
           pc[t] = "idle", pc' = [pc EXCEPT ![t] = "asking"],
           conn' = [conn EXCEPT ![t] = c], row' = [row EXCEPT ![t] = r],
           order' = Promoted(n), slot' = [slot EXCEPT ![t] = order[n]],
           UNCHANGED <<made, key, array, served, loads>>
    PROVE  SInv'
<1>1. n \in DOMAIN order /\ key[order[n]] = <<c, r>> /\ order[n] \in 1..made /\ made \in Nat
    BY SlotsAssumption DEF SInv, TypeOK, CachedFor, Key
<1>2. /\ Promoted(n) \in Seq(1..made) /\ Len(Promoted(n)) = Len(order)
      /\ \A l, m \in DOMAIN Promoted(n) : key[Promoted(n)[l]] = key[Promoted(n)[m]] => l = m
    BY <1>1, PromotedKeeps DEF SInv
<1>3. TypeOK'
    BY <1>1, <1>2 DEF SInv, TypeOK
<1>4. SlotInv' /\ ServedItsOwn'
    BY DEF SInv, SlotInv, ServedItsOwn
<1>5. RequestInv'
    BY <1>1 DEF SInv, RequestInv, TypeOK
<1>6. LoadInv'
    BY DEF SInv, LoadInv, TypeOK
<1>7. LoadsInv'
    BY DEF SInv, LoadsInv, FilledFor
<1>. QED BY <1>3, <1>4, <1>5, <1>6, <1>7 DEF SInv

LEMMA NewSlotKeeps ==
    ASSUME SInv, NEW t \in Task, NEW c \in Connection, NEW r \in Row, CachedFor(c, r) = {},
           pc[t] = "idle", pc' = [pc EXCEPT ![t] = "asking"],
           conn' = [conn EXCEPT ![t] = c], row' = [row EXCEPT ![t] = r],
           made < MaxSlots, made' = made + 1, key' = [key EXCEPT ![made'] = Key(c, r)],
           order' = Append(Room, made'), slot' = [slot EXCEPT ![t] = made'],
           UNCHANGED <<array, served, loads>>
    PROVE  SInv'
<1>1. /\ made \in Nat /\ made' \in Slot /\ made' \notin 1..made /\ 1..made \subseteq 1..made'
      /\ 1..made' = 1..made \cup {made'}
    BY SlotsAssumption DEF SInv, TypeOK, Slot
<1>2. key'[made'] = <<c, r>> /\ (\A s \in 1..made : key'[s] = key[s]) /\ array[made'] = None
    BY <1>1 DEF SInv, SlotInv, Key
<1>3. TypeOK'
    <2>1. /\ Room \in Seq(1..made) /\ Len(Room) < Capacity /\ DOMAIN Room = 1..Len(Room)
          /\ \A n \in DOMAIN Room : \E m \in DOMAIN order : Room[n] = order[m]
          /\ \A m, n \in DOMAIN Room : key[Room[m]] = key[Room[n]] => m = n
        BY RoomKeeps DEF SInv
    <2>. DEFINE o == Append(Room, made')
    <2>2. \A n \in 1..Len(Room) : Room[n] \in 1..made /\ Room[n] \in 1..made'
        BY <1>1, <2>1
    <2>3. /\ o \in Seq(1..made') /\ Len(o) = Len(Room) + 1 /\ DOMAIN o = 1..(Len(Room) + 1)
          /\ \A n \in 1..Len(Room) : o[n] = Room[n]
          /\ o[Len(Room) + 1] = made'
        BY <1>1, <2>1, <2>2
    <2>. HIDE DEF o
    <2>4. \A n \in 1..Len(Room) : key[Room[n]] # <<c, r>>
        BY <2>1 DEF CachedFor, Key
    <2>5. /\ \A n \in 1..Len(Room) : key'[o[n]] = key[Room[n]]
          /\ key'[o[Len(Room) + 1]] = <<c, r>>
        BY <1>2, <2>2, <2>3
    <2>6. \A m, n \in DOMAIN o : key'[o[m]] = key'[o[n]] => m = n
        <3>. SUFFICES ASSUME NEW m \in DOMAIN o, NEW n \in DOMAIN o, key'[o[m]] = key'[o[n]]
                      PROVE  m = n
            OBVIOUS
        <3>1. /\ m \in 1..Len(Room) \/ m = Len(Room) + 1
              /\ n \in 1..Len(Room) \/ n = Len(Room) + 1
            BY <2>1, <2>3
        <3>. QED BY <2>1, <2>4, <2>5, <3>1
    <2>7. Len(o) <= Capacity
        BY <2>1, <2>3, SlotsAssumption
    <2>8. order' = o
        BY DEF o
    <2>9. slot' \in [Task -> 0..made']
        BY <1>1 DEF SInv, TypeOK
    <2>10. pc' \in [Task -> {"idle", "asking", "loading"}]
        BY DEF SInv, TypeOK
    <2>11. made' \in 0..MaxSlots
        BY <1>1 DEF SInv, TypeOK, Slot
    <2>. QED BY <2>3, <2>6, <2>7, <2>8, <2>9, <2>10, <2>11 DEF SInv, TypeOK
<1>4. SlotInv'
    <2>1. key' \in [Slot -> {None} \cup (Connection \X Row)]
        BY <1>1 DEF SInv, SlotInv, Key
    <2>2. \A s \in 1..made' : key'[s] \in Connection \X Row /\ array[s] \in {None, key'[s]}
        <3>1. \A s \in 1..made : key'[s] \in Connection \X Row /\ array[s] \in {None, key'[s]}
            BY <1>2 DEF SInv, SlotInv
        <3>2. key'[made'] \in Connection \X Row /\ array[made'] = None
            <4>1. <<c, r>> \in Connection \X Row
                OBVIOUS
            <4>. QED BY <1>2, <4>1
        <3>. QED BY <1>1, <3>1, <3>2
    <2>3. \A s \in Slot : s > made' => array[s] = None
        BY <1>1 DEF SInv, SlotInv, Slot
    <2>. QED BY <2>1, <2>2, <2>3 DEF SlotInv
<1>5. RequestInv'
    <2>1. conn' \in [Task -> Connection \cup {None}] /\ row' \in [Task -> Row \cup {None}]
        BY DEF SInv, RequestInv
    <2>2. ASSUME NEW u \in Task, pc'[u] # "idle"
          PROVE  /\ slot'[u] \in 1..made' /\ conn'[u] \in Connection /\ row'[u] \in Row
                 /\ key'[slot'[u]] = <<conn'[u], row'[u]>>
        <3>1. CASE u = t
            BY <1>1, <1>2, <3>1 DEF SInv, TypeOK, RequestInv
        <3>2. CASE u # t
            BY <1>1, <1>2, <2>2, <3>2 DEF SInv, TypeOK, RequestInv
        <3>. QED BY <3>1, <3>2
    <2>. QED BY <2>1, <2>2 DEF RequestInv
<1>6. LoadInv' /\ ServedItsOwn'
    BY DEF SInv, LoadInv, TypeOK, ServedItsOwn
<1>7. \A x \in Connection \X Row : FilledFor(x)' = FilledFor(x)
    BY <1>1, <1>2 DEF FilledFor
<1>8. LoadsInv'
    BY <1>7 DEF SInv, LoadsInv
<1>. QED BY <1>3, <1>4, <1>5, <1>6, <1>8 DEF SInv

\* A request that ends without an answer takes nothing along.
LEMMA LeaveKeeps ==
    ASSUME SInv, NEW t \in Task, Leave(t),
           UNCHANGED <<made, key, array, order, loads>>, ServedItsOwn'
    PROVE  SInv'
<1>1. TypeOK'
    <2>1. 0 \in 0..made
        BY DEF SInv, TypeOK
    <2>. QED BY <2>1 DEF SInv, TypeOK, Leave
<1>2. SlotInv' /\ RequestInv' /\ LoadInv' /\ LoadsInv'
    BY DEF SInv, TypeOK, Leave, SlotInv, RequestInv, LoadInv, LoadsInv, FilledFor
<1>. QED BY <1>1, <1>2 DEF SInv

LEMMA ReadKeeps ==
    ASSUME SInv, NEW t \in Task, Read(t)
    PROVE  SInv'
<1>1. slot[t] \in 1..made /\ key[slot[t]] = <<conn[t], row[t]>> /\ array[slot[t]] # None
    BY DEF SInv, RequestInv, Read
<1>2. array[slot[t]] = <<conn[t], row[t]>>
    BY <1>1 DEF SInv, SlotInv
<1>3. ServedItsOwn'
    BY <1>2 DEF SInv, ServedItsOwn, Read, Serve
<1>. QED BY <1>3, LeaveKeeps DEF Read, Serve

LEMMA StartLoadKeeps ==
    ASSUME SInv, NEW t \in Task, StartLoad(t)
    PROVE  SInv'
<1>1. TypeOK'
    BY DEF SInv, StartLoad, TypeOK, request
<1>2. SlotInv' /\ ServedItsOwn'
    BY DEF SInv, StartLoad, SlotInv, ServedItsOwn
<1>3. RequestInv'
    BY DEF SInv, TypeOK, StartLoad, request, RequestInv
<1>4. LoadInv'
    BY DEF SInv, TypeOK, StartLoad, request, LoadInv, HasPermit
<1>5. LoadsInv'
    BY DEF SInv, StartLoad, LoadsInv, FilledFor
<1>. QED BY <1>1, <1>2, <1>3, <1>4, <1>5 DEF SInv

\* The load that ends fills the slot for the first time.
LEMMA LoadedKeeps ==
    ASSUME SInv, NEW t \in Task, Loaded(t)
    PROVE  SInv'
<1>1. /\ slot[t] \in 1..made /\ <<conn[t], row[t]>> \in Connection \X Row
      /\ key[slot[t]] = <<conn[t], row[t]>> /\ array[slot[t]] = None
    BY DEF SInv, RequestInv, LoadInv, Loaded
<1>. PICK s \in 1..made, x \in Connection \X Row :
        s = slot[t] /\ x = <<conn[t], row[t]>> /\ key[s] = x /\ array[s] = None
    BY <1>1
<1>2. /\ pc[t] = "loading" /\ array' = [array EXCEPT ![s] = x]
      /\ loads' = [loads EXCEPT ![x] = @ + 1] /\ Leave(t)
      /\ served' = served \cup {[asked |-> x, got |-> x]}
      /\ UNCHANGED <<made, key, order>>
      /\ s \in Slot /\ x # None
    BY SlotsAssumption DEF Loaded, Serve, SInv, TypeOK, Slot
<1>3. TypeOK'
    <2>1. array' \in [Slot -> {None} \cup (Connection \X Row)]
        BY <1>1, <1>2 DEF SInv, TypeOK
    <2>2. loads' \in [Connection \X Row -> Nat]
        BY <1>1, <1>2 DEF SInv, TypeOK
    <2>3. pc' \in [Task -> {"idle", "asking", "loading"}] /\ slot' \in [Task -> 0..made]
        BY <1>2 DEF SInv, TypeOK, Leave
    <2>. QED BY <1>2, <2>1, <2>2, <2>3 DEF SInv, TypeOK
<1>4. /\ array'[s] = x /\ \A u \in Slot : u # s => array'[u] = array[u]
      /\ made \in Nat /\ \A u \in 1..made : u \in Slot
    BY <1>2, SlotsAssumption DEF SInv, TypeOK, Slot
<1>5. SlotInv'
    <2>1. \A u \in 1..made : key[u] \in Connection \X Row /\ array'[u] \in {None, key[u]}
        BY <1>4 DEF SInv, SlotInv
    <2>2. \A u \in Slot : u > made => array'[u] = None
        <3>1. ~(s > made)
            BY <1>4
        <3>. QED BY <1>4, <3>1 DEF SInv, SlotInv
    <2>. QED BY <1>2, <2>1, <2>2 DEF SInv, SlotInv
<1>6. RequestInv'
    BY <1>2 DEF SInv, RequestInv, TypeOK, Leave
<1>7. LoadInv'
    <2>1. \A u \in Task : u # t /\ pc[u] = "loading" => slot[u] # s
        BY <1>2 DEF SInv, LoadInv
    <2>2. \A u \in Task : pc'[u] = "loading" => u # t /\ pc[u] = "loading" /\ slot'[u] = slot[u]
        BY <1>2 DEF SInv, TypeOK, Leave
    <2>3. \A u \in Task : pc'[u] = "loading" => array'[slot'[u]] = None
        BY <1>1, <1>2, <2>1, <2>2 DEF SInv, LoadInv, TypeOK
    <2>. QED BY <2>2, <2>3 DEF SInv, LoadInv
<1>8. LoadsInv'
    <2>1. FilledFor(x)' = FilledFor(x) \cup {s} /\ s \notin FilledFor(x)
        <3>1. FilledFor(x)' = {u \in 1..made : key[u] = x /\ array'[u] # None}
            BY <1>2 DEF FilledFor
        <3>2. \A u \in 1..made : array'[u] # None <=> array[u] # None \/ u = s
            BY <1>2, <1>4
        <3>3. s \notin FilledFor(x) /\ key[s] = x
            BY DEF FilledFor
        <3>. QED BY <3>1, <3>2, <3>3 DEF FilledFor
    <2>2. Cardinality(FilledFor(x)') = Cardinality(FilledFor(x)) + 1
        BY <2>1, FilledFinite, FS_AddElement DEF SInv
    <2>3. \A y \in Connection \X Row : y # x => FilledFor(y)' = FilledFor(y)
        BY <1>1, <1>2 DEF FilledFor, SInv, TypeOK, Slot
    <2>4. loads'[x] = loads[x] + 1 /\ \A y \in Connection \X Row : y # x => loads'[y] = loads[y]
        BY <1>1, <1>2 DEF SInv, TypeOK
    <2>5. loads'[x] = Cardinality(FilledFor(x)')
        BY <1>1, <2>2, <2>4 DEF SInv, LoadsInv
    <2>6. \A y \in Connection \X Row : y # x => loads'[y] = Cardinality(FilledFor(y)')
        BY <2>3, <2>4 DEF SInv, LoadsInv
    <2>. QED
        <3>. SUFFICES ASSUME NEW y \in Connection \X Row
                      PROVE  loads'[y] = Cardinality(FilledFor(y)')
            BY DEF LoadsInv
        <3>. QED BY <2>5, <2>6
<1>9. ServedItsOwn'
    BY <1>2 DEF SInv, ServedItsOwn
<1>. QED BY <1>3, <1>5, <1>6, <1>7, <1>8, <1>9 DEF SInv

LEMMA SlotsStep ==
    ASSUME SInv, [\E t \in Task : Answers(t) \/ Proceeds(t)]_slotsVars
    PROVE  SInv'
<1>1. ASSUME NEW t \in Task, NEW c \in Connection, NEW r \in Row, AskSlot(t, c, r) PROVE SInv'
    BY <1>1, HitKeeps, NewSlotKeeps DEF AskSlot
<1>2. ASSUME NEW t \in Task, LoadFails(t) \/ Disconnect(t) PROVE SInv'
    <2>1. Leave(t) /\ UNCHANGED <<made, key, array, order, loads>> /\ ServedItsOwn'
        BY <1>2 DEF LoadFails, Disconnect, SInv, ServedItsOwn
    <2>. QED BY <2>1, LeaveKeeps
<1>3. CASE UNCHANGED slotsVars
    BY <1>3 DEF slotsVars, request, SInv, TypeOK, SlotInv, RequestInv, LoadInv, LoadsInv,
        FilledFor, ServedItsOwn
<1>. QED BY <1>1, <1>2, <1>3, ReadKeeps, StartLoadKeeps, LoadedKeeps DEF Answers, Proceeds

THEOREM Invariance == Spec => []SInv
<1>1. Init => SInv
    BY InitSInv DEF Init
<1>2. SInv /\ [Next]_vars => SInv'
    BY SlotsStep DEF Next, vars, ReadElement, Proceed
<1>. QED BY <1>1, <1>2, PTL DEF Spec

\* The shape of the state, and a cache within its bound without a key twice.
THEOREM TypeCorrect == Spec => []TypeOK
<1>1. SInv => TypeOK
    BY DEF SInv
<1>. QED BY <1>1, Invariance, PTL

\* A request gets the array of the row it asked for (media.rs:104-149).
THEOREM OwnRowServed == Spec => []ServedItsOwn
<1>1. SInv => ServedItsOwn
    BY DEF SInv
<1>. QED BY <1>1, Invariance, PTL

\* Requests that come together share one load (media.rs:112-118).
THEOREM LoadsShared == Spec => []LoadedOncePerSlot
<1>1. SInv => LoadedOncePerSlot
    <2>. SUFFICES ASSUME SInv, NEW x \in Connection \X Row
                  PROVE  loads[x] <= Cardinality({s \in 1..made : key[s] = Key(x[1], x[2])})
        BY DEF LoadedOncePerSlot
    <2>. DEFINE all == {s \in 1..made : key[s] = Key(x[1], x[2])}
    <2>1. made \in Nat /\ all \in SUBSET (1..made)
        BY SlotsAssumption DEF SInv, TypeOK
    <2>2. IsFiniteSet(all)
        <3>1. IsFiniteSet(1..made)
            BY <2>1, FS_Interval
        <3>. QED BY <2>1, <3>1, FS_Subset
    <2>3. FilledFor(x) \in SUBSET all
        BY DEF FilledFor, Key
    <2>4. Cardinality(FilledFor(x)) <= Cardinality(all)
        BY <2>2, <2>3, FS_Subset
    <2>. QED BY <2>4 DEF SInv, LoadsInv
<1>. QED BY <1>1, Invariance, PTL
=============================================================================
