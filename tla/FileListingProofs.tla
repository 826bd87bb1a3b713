------------------------- MODULE FileListingProofs --------------------------
(***************************************************************************)
(* The safety of FileListing for any number of handlers, entries, listings,  *)
(* page sizes and channel sizes, under every fault.                          *)
(***************************************************************************)
EXTENDS FileListing, TLAPS

\* What a handler found at the lock still holds while it has it.
HandlerInv ==
    \A t \in Task :
        /\ pc[t] # "reading" => entries[t] = 0
        /\ pc[t] = "starting" => ~listing /\ offset[t] = 0
        /\ Reading(t) => listing /\ InSequence(t) /\ ~Repeats(t)

\* A dropped listing leaves nothing, an ended walk has sent everything, and the
\* page kept for a retry was answered.
ListingInv ==
    /\ ~listing => /\ produced = 0 /\ producer = "ended" /\ received = 0 /\ ~pending
                   /\ nextOffset = 0 /\ lastPage = None /\ lost = 0
    /\ listing /\ producer = "ended" => produced = total
    /\ lastPage # None => lastPage \in served /\ lastPage.listing = listings

\* The pages of the listing lie behind what was answered or lost, and only the
\* latest can have the offset of the next.
PagesInv ==
    \A p \in served :
        /\ p.listing <= listings
        /\ listing /\ p.listing = listings =>
             /\ p.first + p.entries <= nextOffset + lost
             /\ p.offset <= nextOffset
             /\ p.offset < nextOffset \/ p = lastPage

IInv ==
    TypeOK /\ EntryAccounting /\ OffsetsInOrder /\ HandlerInv /\ ListingInv /\ PagesInv

-----------------------------------------------------------------------------
LEMMA InitIInv == Init => IInv
<1>. SUFFICES ASSUME Init PROVE IInv
    OBVIOUS
<1>1. TypeOK
    <2>1. total \in Nat /\ 0 <= 0 + ChannelSize
        BY ListingAssumption DEF Init
    <2>2. /\ pc \in [Task -> {"idle", "waiting"} \cup Holding]
          /\ \A t \in Task : pc[t] \notin Holding
        BY DEF Init, Holding
    <2>3. /\ offset \in [Task -> Nat] /\ limit \in [Task -> Nat \ {0}]
          /\ entries \in [Task -> Nat]
        BY DEF Init
    <2>4. ~(\E t \in Task : pc[t] \in Holding)
        BY <2>2
    <2>5. /\ listing = FALSE /\ listings = 0 /\ produced = 0 /\ producer = "ended"
          /\ received = 0 /\ pending = FALSE /\ nextOffset = 0 /\ lastPage = None
          /\ served = {} /\ lost = 0
        BY DEF Init
    <2>6. /\ listing \in BOOLEAN /\ listings \in Nat /\ produced \in Nat /\ received \in Nat
          /\ pending \in BOOLEAN /\ nextOffset \in Nat /\ lost \in Nat
          /\ producer \in {"walking", "failed", "ended"}
        BY <2>5
    <2>7. lastPage \in Page \cup {None} /\ served \subseteq Page
        BY <2>5
    <2>8. received <= produced /\ produced <= received + ChannelSize
        BY <2>1, <2>5
    <2>. QED BY <2>1, <2>2, <2>3, <2>4, <2>6, <2>7, <2>8 DEF TypeOK
<1>2. EntryAccounting
    BY ListingAssumption DEF Init, EntryAccounting, Reading, Held
<1>3. OffsetsInOrder /\ HandlerInv /\ ListingInv /\ PagesInv
    BY DEF Init, OffsetsInOrder, HandlerInv, ListingInv, PagesInv, Reading
<1>. QED BY <1>1, <1>2, <1>3 DEF IInv

-----------------------------------------------------------------------------
(* Steps that touch only the handler that takes them *)

\* What a step leaves alone of listing and pages.
Quiet == UNCHANGED <<store, listing, listings, fields, served, lost>>

LEMMA QuietKeeps ==
    ASSUME IInv, Quiet
    PROVE  OffsetsInOrder' /\ ListingInv' /\ PagesInv'
BY DEF IInv, Quiet, store, fields, OffsetsInOrder, ListingInv, PagesInv

\* A handler that does not read leaves, or comes.
LEMMA QuietStep ==
    ASSUME IInv, Quiet, NEW t \in Task, pc[t] # "reading",
           NEW label \in {"idle", "waiting", "starting"},
           pc' = [pc EXCEPT ![t] = label],
           entries' = entries \/ entries' = [entries EXCEPT ![t] = 0],
           offset' \in [Task -> Nat], limit' \in [Task -> Nat \ {0}],
           \A u \in Task : u # t => offset'[u] = offset[u],
           label = "starting" => Unlocked /\ ~listing /\ offset'[t] = 0
    PROVE  IInv'
<1>1. entries' \in [Task -> Nat] /\ entries'[t] = 0 /\ \A u \in Task : u # t => entries'[u] = entries[u]
    BY DEF IInv, TypeOK, HandlerInv
<1>2. pc' \in [Task -> {"idle", "waiting"} \cup Holding]
        /\ pc'[t] = label /\ \A u \in Task : u # t => pc'[u] = pc[u]
    BY DEF IInv, TypeOK, Holding
<1>3. \A u, v \in Task : pc'[u] \in Holding /\ pc'[v] \in Holding => u = v
    BY <1>2 DEF IInv, TypeOK, Holding, Unlocked
<1>4. TypeOK'
    BY <1>1, <1>2, <1>3 DEF IInv, TypeOK, Quiet, store, fields
<1>5. \A u \in Task : (pc'[u] = "reading") <=> (pc[u] = "reading")
    BY <1>2
<1>6. EntryAccounting'
    BY <1>1, <1>5 DEF IInv, EntryAccounting, Quiet, store, fields, Reading, Held
<1>7. HandlerInv'
    BY <1>1, <1>2, <1>5 DEF IInv, HandlerInv, Quiet, store, fields, Reading, InSequence, Repeats
<1>. QED BY <1>4, <1>6, <1>7, QuietKeeps DEF IInv

-----------------------------------------------------------------------------
(* The producer *)

LEMMA ProducerStep ==
    ASSUME IInv, Produce \/ ProducerEnds \/ ProducerFails
    PROVE  IInv'
<1>1. /\ listing /\ listing' = listing /\ listings' = listings /\ total' = total
      /\ UNCHANGED <<fields, pc, request, entries, served, lost>>
    BY DEF Produce, ProducerEnds, ProducerFails
<1>2. /\ produced' \in Nat /\ received <= produced' /\ produced' <= received + ChannelSize
      /\ produced' <= total /\ producer' \in {"walking", "failed", "ended"}
      /\ producer' = "ended" => produced' = total
    BY ListingAssumption DEF Produce, ProducerEnds, ProducerFails, IInv, TypeOK,
        EntryAccounting, Buffered
<1>3. TypeOK'
    BY <1>1, <1>2 DEF IInv, TypeOK, fields, request
<1>4. EntryAccounting'
    BY <1>1, <1>2 DEF IInv, EntryAccounting, fields, Reading, Held
<1>5. HandlerInv'
    BY <1>1 DEF IInv, HandlerInv, fields, request, Reading, InSequence, Repeats
<1>6. ListingInv' /\ PagesInv' /\ OffsetsInOrder'
    BY <1>1, <1>2 DEF IInv, ListingInv, PagesInv, OffsetsInOrder, fields
<1>. QED BY <1>3, <1>4, <1>5, <1>6 DEF IInv

-----------------------------------------------------------------------------
(* A listing begins, and a listing is dropped *)

LEMMA StartKeeps ==
    ASSUME IInv, NEW t \in Task, StartListing(t)
    PROVE  IInv'
<1>1. /\ pc[t] = "starting" /\ entries[t] = 0 /\ offset[t] = 0
      /\ \A u \in Task : u # t => pc[u] \notin Holding
    BY DEF StartListing, IInv, TypeOK, HandlerInv, Holding
<1>2. /\ pc' \in [Task -> {"idle", "waiting"} \cup Holding]
      /\ pc'[t] = "reading" /\ \A u \in Task : u # t => pc'[u] = pc[u]
    BY DEF StartListing, Goto, IInv, TypeOK, Holding
<1>3. /\ listing' = TRUE /\ listings' = listings + 1 /\ produced' = 0 /\ received' = 0
      /\ producer' = "walking" /\ pending' = FALSE /\ nextOffset' = 0 /\ lastPage' = None
      /\ lost' = 0 /\ UNCHANGED <<total, request, entries, served>>
    BY DEF StartListing
<1>4. TypeOK'
    <2>1. 0 <= 0 + ChannelSize /\ listings + 1 \in Nat
        BY ListingAssumption DEF IInv, TypeOK
    <2>2. \A u, v \in Task : pc'[u] \in Holding /\ pc'[v] \in Holding => u = v
        BY <1>1, <1>2
    <2>3. /\ listing' \in BOOLEAN /\ listings' \in Nat /\ produced' \in Nat /\ received' \in Nat
          /\ pending' \in BOOLEAN /\ nextOffset' \in Nat /\ lost' \in Nat
          /\ producer' \in {"walking", "failed", "ended"}
        BY <1>3, <2>1
    <2>4. lastPage' \in Page \cup {None}
        BY <1>3
    <2>5. received' <= produced' /\ produced' <= received' + ChannelSize
        BY <1>3, <2>1
    <2>. QED BY <1>2, <1>3, <2>2, <2>3, <2>4, <2>5 DEF IInv, TypeOK, request
<1>5. EntryAccounting'
    BY <1>1, <1>2, <1>3 DEF IInv, TypeOK, EntryAccounting, Reading, Held, Holding
<1>6. HandlerInv'
    BY <1>1, <1>2, <1>3 DEF IInv, HandlerInv, Reading, InSequence, Repeats, request, Holding
<1>7. \A p \in served : p.listing \in Nat /\ p.listing <= listings /\ p.listing # listings'
    BY <1>3 DEF IInv, TypeOK, PagesInv, Page
<1>8. ListingInv' /\ PagesInv'
    BY <1>3, <1>7 DEF IInv, TypeOK, ListingInv, PagesInv
<1>9. OffsetsInOrder'
    BY <1>3, <1>7 DEF IInv, OffsetsInOrder
<1>. QED BY <1>4, <1>5, <1>6, <1>8, <1>9 DEF IInv

\* The handler that meets the error has the listing to itself.
LEMMA DropKeeps ==
    ASSUME IInv, NEW t \in Task, DropListing, Leave(t), served' = served,
           \A u \in Task : u # t => pc[u] \notin Holding
    PROVE  IInv'
<1>1. /\ pc' \in [Task -> {"idle", "waiting"} \cup Holding]
      /\ pc'[t] = "idle" /\ \A u \in Task : u # t => pc'[u] = pc[u]
      /\ \A u \in Task : pc'[u] \notin Holding
    BY DEF Leave, Goto, IInv, TypeOK, Holding
<1>2. /\ entries' \in [Task -> Nat] /\ entries'[t] = 0
      /\ \A u \in Task : u # t => entries'[u] = entries[u]
    BY DEF Leave, IInv, TypeOK
<1>3. offset' \in [Task -> Nat] /\ limit' \in [Task -> Nat \ {0}]
    BY DEF Leave, IInv, TypeOK
<1>4. /\ listing' = FALSE /\ produced' = 0 /\ producer' = "ended" /\ received' = 0
      /\ pending' = FALSE /\ nextOffset' = 0 /\ lastPage' = None /\ lost' = 0
      /\ total' = total /\ listings' = listings
    BY DEF DropListing
<1>5. TypeOK'
    <2>1. 0 <= 0 + ChannelSize
        BY ListingAssumption
    <2>2. /\ listing' \in BOOLEAN /\ produced' \in Nat /\ received' \in Nat
          /\ pending' \in BOOLEAN /\ nextOffset' \in Nat /\ lost' \in Nat
          /\ producer' \in {"walking", "failed", "ended"}
        BY <1>4
    <2>3. lastPage' \in Page \cup {None}
        BY <1>4
    <2>4. received' <= produced' /\ produced' <= received' + ChannelSize
        BY <1>4, <2>1
    <2>. QED BY <1>1, <1>2, <1>3, <1>4, <2>2, <2>3, <2>4 DEF IInv, TypeOK
<1>6. EntryAccounting'
    BY <1>1, <1>4 DEF IInv, TypeOK, EntryAccounting, Reading, Held, Holding
<1>7. HandlerInv'
    BY <1>1, <1>2, <1>4 DEF IInv, HandlerInv, Reading, Holding
<1>8. ListingInv' /\ PagesInv' /\ OffsetsInOrder'
    BY <1>4 DEF IInv, ListingInv, PagesInv, OffsetsInOrder
<1>. QED BY <1>5, <1>6, <1>7, <1>8 DEF IInv

-----------------------------------------------------------------------------
(* The handler that has the listing *)

\* A page begins with the entry held back, if there is one.
LEMMA StartPageKeeps ==
    ASSUME IInv, NEW t \in Task, StartPage(t)
    PROVE  IInv'
<1>1. /\ pc[t] = "waiting" /\ listing /\ ~Repeats(t) /\ InSequence(t)
      /\ \A u \in Task : pc[u] \notin Holding
    BY DEF StartPage, Locks, Unlocked
<1>2. /\ pc' \in [Task -> {"idle", "waiting"} \cup Holding]
      /\ pc'[t] = "reading" /\ \A u \in Task : u # t => pc'[u] = pc[u]
    BY DEF StartPage, Goto, IInv, TypeOK, Holding
<1>3. Held \in Nat
    BY DEF Held
<1>4. /\ entries' \in [Task -> Nat] /\ entries'[t] = Held
      /\ \A u \in Task : u # t => entries'[u] = entries[u]
    BY <1>3 DEF StartPage, IInv, TypeOK
<1>5. /\ pending' = FALSE
      /\ UNCHANGED <<store, listing, listings, received, nextOffset, lastPage, request, served, lost>>
    BY DEF StartPage
<1>6. TypeOK'
    <2>1. \A u, v \in Task : pc'[u] \in Holding /\ pc'[v] \in Holding => u = v
        BY <1>1, <1>2
    <2>2. pending' \in BOOLEAN
        BY <1>5
    <2>. QED BY <1>2, <1>4, <1>5, <2>1, <2>2 DEF IInv, TypeOK, store, request
<1>7. EntryAccounting'
    <2>1. received = nextOffset + lost + Held
        BY <1>1 DEF IInv, EntryAccounting, Reading, Holding
    <2>. QED BY <1>1, <1>2, <1>4, <1>5, <2>1 DEF IInv, EntryAccounting, Reading, Holding, store
<1>8. HandlerInv'
    BY <1>1, <1>2, <1>4, <1>5 DEF IInv, HandlerInv, Reading, InSequence, Repeats, request,
        Holding
<1>9. ListingInv' /\ PagesInv' /\ OffsetsInOrder'
    BY <1>1, <1>5 DEF IInv, ListingInv, PagesInv, OffsetsInOrder, store
<1>. QED BY <1>6, <1>7, <1>8, <1>9 DEF IInv

LEMMA ReceiveKeeps ==
    ASSUME IInv, NEW t \in Task, ReceiveEntry(t)
    PROVE  IInv'
<1>1. /\ pc[t] = "reading" /\ \A u \in Task : u # t => pc[u] \notin Holding
    BY DEF ReceiveEntry, Reading, IInv, TypeOK, Holding
<1>2. /\ entries' \in [Task -> Nat] /\ entries'[t] = entries[t] + 1
      /\ \A u \in Task : u # t => entries'[u] = entries[u]
    BY DEF ReceiveEntry, IInv, TypeOK
<1>3. /\ received' = received + 1 /\ received' \in Nat
      /\ received' <= produced /\ produced <= received' + ChannelSize
    BY ListingAssumption DEF ReceiveEntry, Buffered, IInv, TypeOK
<1>4. UNCHANGED <<store, listing, listings, pending, nextOffset, lastPage, pc, request,
                  served, lost>>
    BY DEF ReceiveEntry
<1>5. TypeOK'
    BY <1>2, <1>3, <1>4 DEF IInv, TypeOK, store, request
<1>6. EntryAccounting'
    BY <1>1, <1>2, <1>3, <1>4 DEF IInv, TypeOK, EntryAccounting, Reading, Holding, Held, store
<1>7. HandlerInv'
    BY <1>1, <1>2, <1>4 DEF IInv, HandlerInv, Reading, InSequence, Repeats, request
<1>8. ListingInv' /\ PagesInv' /\ OffsetsInOrder'
    <2>1. listing
        BY <1>1 DEF IInv, HandlerInv, Reading
    <2>. QED BY <1>4, <2>1 DEF IInv, ListingInv, PagesInv, OffsetsInOrder, store
<1>. QED BY <1>5, <1>6, <1>7, <1>8 DEF IInv

\* The one reader is dropped with its entries: they count as lost.
LEMMA DropHandlerKeeps ==
    ASSUME IInv, NEW t \in Task, pc[t] = "reading", Disconnect(t)
    PROVE  IInv'
<1>1. \A u \in Task : u # t => pc[u] \notin Holding
    BY DEF IInv, TypeOK, Holding
<1>2. /\ pc' \in [Task -> {"idle", "waiting"} \cup Holding]
      /\ pc'[t] = "idle" /\ \A u \in Task : u # t => pc'[u] = pc[u]
      /\ \A u \in Task : pc'[u] \notin Holding
    BY <1>1 DEF Disconnect, Leave, Goto, IInv, TypeOK, Holding
<1>3. /\ entries' \in [Task -> Nat] /\ entries'[t] = 0
      /\ \A u \in Task : u # t => entries'[u] = entries[u]
    BY DEF Disconnect, Leave, IInv, TypeOK
<1>4. offset' \in [Task -> Nat] /\ limit' \in [Task -> Nat \ {0}]
        /\ \A u \in Task : u # t => offset'[u] = offset[u]
    BY DEF Disconnect, Leave, IInv, TypeOK
<1>5. /\ lost' = lost + entries[t] /\ lost' \in Nat /\ lost <= lost'
      /\ UNCHANGED <<store, listing, listings, fields, served>>
    BY DEF Disconnect, IInv, TypeOK
<1>6. TypeOK'
    BY <1>2, <1>3, <1>4, <1>5 DEF IInv, TypeOK, store, fields
<1>7. ~pending /\ received = nextOffset + lost + entries[t] /\ listing /\ nextOffset \in Nat
    BY DEF IInv, TypeOK, EntryAccounting, HandlerInv, Reading
<1>8. EntryAccounting'
    BY <1>2, <1>5, <1>7 DEF IInv, TypeOK, EntryAccounting, Reading, Holding, Held, store, fields
<1>9. HandlerInv'
    BY <1>2, <1>3, <1>4, <1>5 DEF IInv, HandlerInv, Reading, Holding
<1>10. ListingInv'
    BY <1>5, <1>7 DEF IInv, ListingInv, store, fields
<1>11. PagesInv'
    <2>. SUFFICES ASSUME NEW p \in served, listing, p.listing = listings
                  PROVE  p.first + p.entries <= nextOffset + lost'
        BY <1>5 DEF IInv, PagesInv, store, fields
    <2>1. p.first + p.entries <= nextOffset + lost /\ p.first \in Nat /\ p.entries \in Nat
        BY DEF IInv, TypeOK, PagesInv, Page
    <2>. QED BY <1>5, <1>7, <2>1 DEF IInv, TypeOK
<1>12. OffsetsInOrder'
    <2>1. lost' = 0 => lost = 0
        BY <1>5 DEF IInv, TypeOK
    <2>. QED BY <1>5, <2>1 DEF IInv, OffsetsInOrder, store, fields
<1>. QED BY <1>6, <1>8, <1>9, <1>10, <1>11, <1>12 DEF IInv

\* A page answered lies behind all pages of its listing, and is the first with
\* its offset.
LEMMA FinishKeeps ==
    ASSUME IInv, NEW t \in Task, pc[t] = "reading", NEW more \in BOOLEAN, Finish(t, more),
           UNCHANGED <<store, listing, listings, lost>>,
           received' = (IF more THEN received + 1 ELSE received), received' <= produced,
           pending' = more, more => entries[t] > 0, ~more => received = total
    PROVE  IInv'
<1>. DEFINE end == nextOffset + entries[t]
            page == [listing |-> listings, offset |-> nextOffset, first |-> nextOffset + lost,
                     entries |-> entries[t], next |-> IF more THEN end ELSE None]
<1>1. \A u \in Task : u # t => pc[u] \notin Holding
    BY DEF IInv, TypeOK, Holding
<1>2. /\ listing /\ offset[t] = nextOffset /\ ~Repeats(t)
      /\ received = nextOffset + lost + entries[t]
      /\ nextOffset \in Nat /\ lost \in Nat /\ entries[t] \in Nat /\ listings \in Nat
      /\ produced <= total /\ produced \in Nat /\ received \in Nat /\ total \in Nat
      /\ produced <= received + ChannelSize
    BY DEF IInv, TypeOK, EntryAccounting, HandlerInv, Reading, InSequence
<1>3. received - entries[t] = nextOffset + lost
    BY <1>2
<1>4. lastPage' = page /\ nextOffset' = end /\ served' = served \cup {page}
    BY <1>2, <1>3 DEF Finish
<1>5. page \in Page /\ end \in Nat
    BY <1>2 DEF Page
<1>6. /\ pc' \in [Task -> {"idle", "waiting"} \cup Holding]
      /\ pc'[t] = "idle" /\ \A u \in Task : u # t => pc'[u] = pc[u]
      /\ \A u \in Task : pc'[u] \notin Holding
    BY <1>1 DEF Finish, Leave, Goto, IInv, TypeOK, Holding
<1>7. /\ entries' \in [Task -> Nat] /\ entries'[t] = 0
      /\ \A u \in Task : u # t => entries'[u] = entries[u]
      /\ offset' \in [Task -> Nat] /\ limit' \in [Task -> Nat \ {0}]
    BY DEF Finish, Leave, IInv, TypeOK
<1>8. received' \in Nat /\ produced <= received' + ChannelSize
    <2>1. ChannelSize \in Nat
        BY ListingAssumption
    <2>. QED BY <1>2, <2>1
<1>9. TypeOK'
    <2>1. lastPage' \in Page \cup {None} /\ served' \subseteq Page /\ nextOffset' \in Nat
        BY <1>4, <1>5 DEF IInv, TypeOK
    <2>2. pending' \in BOOLEAN
        OBVIOUS
    <2>. QED BY <1>6, <1>7, <1>8, <2>1, <2>2 DEF IInv, TypeOK, store
<1>10. EntryAccounting'
    <2>1. Held' = IF more THEN 1 ELSE 0
        BY DEF Held
    <2>2. received' = nextOffset' + lost + Held'
        BY <1>2, <1>4, <2>1
    <2>. QED BY <1>2, <1>6, <2>2 DEF EntryAccounting, Reading, Holding, store
<1>11. HandlerInv'
    BY <1>6, <1>7 DEF IInv, HandlerInv, Reading, Holding
<1>12. ListingInv'
    BY <1>2, <1>4 DEF IInv, ListingInv, store
\* The pages before, of this listing.
<1>13. ASSUME NEW p \in served, p.listing = listings
       PROVE  /\ p.first + p.entries <= nextOffset + lost /\ p.offset < nextOffset
              /\ p.first \in Nat /\ p.entries \in Nat /\ p.offset \in Nat
    <2>1. /\ p.first + p.entries <= nextOffset + lost /\ p.offset <= nextOffset
          /\ p.offset < nextOffset \/ p = lastPage
          /\ p.first \in Nat /\ p.entries \in Nat /\ p.offset \in Nat
        BY <1>2, <1>13 DEF IInv, TypeOK, PagesInv, Page
    <2>2. p = lastPage => p.offset # nextOffset
        <3>1. p # None
            BY ListingAssumption DEF IInv, TypeOK
        <3>. QED BY <1>2, <3>1 DEF Repeats
    <2>3. p.offset < nextOffset
        <3>1. CASE p = lastPage
            <4>1. p.offset # nextOffset
                BY <2>2, <3>1
            <4>2. p.offset \in Nat /\ p.offset <= nextOffset
                BY <2>1
            <4>3. nextOffset \in Nat
                BY <1>2
            <4>. HIDE DEF page, end
            <4>. QED BY <4>1, <4>2, <4>3
        <3>. QED BY <2>1, <3>1
    <2>. QED BY <2>1, <2>3
<1>14. PagesInv'
    <2>. SUFFICES ASSUME NEW p \in served'
                  PROVE  /\ p.listing <= listings
                         /\ p.listing = listings =>
                              /\ p.first + p.entries <= end + lost
                              /\ p.offset <= end
                              /\ p.offset < end \/ p = page
        BY <1>4 DEF PagesInv
    <2>1. CASE p = page
        BY <1>2, <2>1
    <2>2. CASE p \in served
        BY <1>2, <1>13, <2>2 DEF IInv, PagesInv
    <2>. QED BY <1>4, <2>1, <2>2
<1>15. OffsetsInOrder'
    <2>1. ASSUME NEW p \in served', NEW q \in served', p.listing = q.listing
          PROVE  /\ p.offset = q.offset => p = q
                 /\ p.offset < q.offset => p.first + p.entries <= q.first
        <3>1. CASE p \in served /\ q \in served
            BY <2>1, <3>1 DEF IInv, OffsetsInOrder
        <3>2. CASE p \in served /\ q = page
            <4>1. p.listing = listings /\ q.offset = nextOffset /\ q.first = nextOffset + lost
                BY <2>1, <3>2
            <4>. QED BY <1>2, <1>13, <3>2, <4>1
        <3>3. CASE p = page /\ q \in served
            <4>1. q.listing = listings /\ p.offset = nextOffset
                BY <2>1, <3>3
            <4>. QED BY <1>2, <1>13, <3>3, <4>1
        <3>4. CASE p = page /\ q = page
            BY <1>2, <3>4
        <3>. QED BY <1>4, <3>1, <3>2, <3>3, <3>4
    <2>2. ASSUME lost = 0, NEW p \in served', p.listing = listings PROVE p.first = p.offset
        <3>1. CASE p \in served
            BY <1>2, <2>2, <3>1 DEF IInv, OffsetsInOrder
        <3>2. CASE p = page
            BY <1>2, <2>2, <3>2
        <3>. QED BY <1>4, <3>1, <3>2
    <2>3. ASSUME NEW p \in served'
          PROVE  IF p.next = None THEN p.first + p.entries = total
                 ELSE /\ p.first + p.entries < total
                      /\ p.next = p.offset + p.entries /\ p.entries > 0
        <3>1. CASE p \in served
            BY <3>1 DEF IInv, OffsetsInOrder
        <3>2. CASE p = page /\ more
            <4>1. end # None
                BY <1>5, ListingAssumption
            <4>. QED BY <1>2, <3>2, <4>1
        <3>3. CASE p = page /\ ~more
            BY <1>2, <3>3
        <3>. QED BY <1>4, <3>1, <3>2, <3>3
    <2>. QED BY <2>1, <2>2, <2>3 DEF OffsetsInOrder, store
<1>. QED BY <1>9, <1>10, <1>11, <1>12, <1>14, <1>15 DEF IInv
-----------------------------------------------------------------------------
LEMMA NextIInv ==
    ASSUME IInv, [Next]_vars
    PROVE  IInv'
<1>1. ASSUME NEW t \in Task, Request(t) PROVE IInv'
    <2>1. /\ Quiet /\ pc[t] # "reading" /\ pc' = [pc EXCEPT ![t] = "waiting"]
          /\ entries' = entries
        BY <1>1 DEF Request, Quiet, Goto
    <2>2. PICK o \in 0..MaxTotal, n \in Limits :
              /\ offset' = [offset EXCEPT ![t] = o] /\ limit' = [limit EXCEPT ![t] = n]
        BY <1>1 DEF Request
    <2>3. o \in Nat /\ n \in Nat \ {0}
        BY <2>2, ListingAssumption
    <2>4. /\ offset' \in [Task -> Nat] /\ limit' \in [Task -> Nat \ {0}]
          /\ \A u \in Task : u # t => offset'[u] = offset[u]
        BY <2>2, <2>3 DEF IInv, TypeOK
    <2>. QED BY <2>1, <2>4, QuietStep
<1>2. ASSUME NEW t \in Task, Leave(t), Quiet, pc[t] # "reading" PROVE IInv'
    <2>1. /\ offset' \in [Task -> Nat] /\ limit' \in [Task -> Nat \ {0}]
          /\ \A u \in Task : u # t => offset'[u] = offset[u]
        BY <1>2 DEF Leave, IInv, TypeOK
    <2>2. pc' = [pc EXCEPT ![t] = "idle"] /\ entries' = [entries EXCEPT ![t] = 0]
        BY <1>2 DEF Leave, Goto
    <2>. QED BY <1>2, <2>1, <2>2, QuietStep
<1>3. ASSUME NEW t \in Task, RefuseStart(t) PROVE IInv'
    BY <1>2, <1>3 DEF RefuseStart, Locks, Quiet
<1>4. ASSUME NEW t \in Task, OpenStore(t) PROVE IInv'
    <2>1. /\ Quiet /\ pc[t] # "reading" /\ pc' = [pc EXCEPT ![t] = "starting"]
          /\ entries' = entries /\ offset' = offset /\ limit' = limit
          /\ Unlocked /\ ~listing /\ offset[t] = 0
        BY <1>4 DEF OpenStore, Locks, Goto, Quiet, request
    <2>2. /\ offset' \in [Task -> Nat] /\ limit' \in [Task -> Nat \ {0}]
          /\ \A u \in Task : u # t => offset'[u] = offset[u]
        BY <2>1 DEF IInv, TypeOK
    <2>. QED BY <2>1, <2>2, QuietStep
<1>5. ASSUME NEW t \in Task, StartFails(t) PROVE IInv'
    BY <1>2, <1>5 DEF StartFails, Quiet
\* The page kept for a retry is among those answered already.
<1>6. ASSUME NEW t \in Task, RepeatPage(t) PROVE IInv'
    <2>1. served' = served
        BY <1>6 DEF RepeatPage, Repeats, IInv, ListingInv
    <2>. QED BY <1>2, <1>6, <2>1 DEF RepeatPage, Locks, Quiet
<1>7. ASSUME NEW t \in Task, RefuseOffset(t) PROVE IInv'
    BY <1>7, DropKeeps DEF RefuseOffset, Locks, Unlocked
<1>8. ASSUME NEW t \in Task, ReceiveError(t) PROVE IInv'
    <2>1. \A u \in Task : u # t => pc[u] \notin Holding
        BY <1>8 DEF ReceiveError, Reading, IInv, TypeOK, Holding
    <2>. QED BY <1>8, <2>1, DropKeeps DEF ReceiveError
<1>9. ASSUME NEW t \in Task, FinishWithMore(t) PROVE IInv'
    <2>1. /\ pc[t] = "reading" /\ Finish(t, TRUE) /\ UNCHANGED <<store, listing, listings, lost>>
          /\ received' = received + 1 /\ pending' = TRUE /\ entries[t] = limit[t]
          /\ produced - received > 0
        BY <1>9 DEF FinishWithMore, Reading, Full, HoldBack, Buffered
    <2>2. entries[t] > 0 /\ received' <= produced
        BY <2>1 DEF IInv, TypeOK
    <2>. QED BY <2>1, <2>2, FinishKeeps
\* The channel was drained after the walk had ended.
<1>10. ASSUME NEW t \in Task, FinishLast(t) PROVE IInv'
    <2>1. /\ pc[t] = "reading" /\ Finish(t, FALSE) /\ UNCHANGED <<store, listing, listings, lost>>
          /\ received' = received /\ pending' = pending
          /\ produced - received = 0 /\ producer = "ended"
        BY <1>10 DEF FinishLast, Reading, Exhausted, Buffered
    <2>2. ~pending /\ listing
        BY <2>1 DEF IInv, EntryAccounting, HandlerInv, Reading
    <2>3. produced = total
        BY <2>1, <2>2 DEF IInv, ListingInv
    <2>4. received = total /\ received' <= produced
        BY <2>1, <2>3 DEF IInv, TypeOK
    <2>5. pending' = FALSE
        BY <2>1, <2>2 DEF IInv, TypeOK
    <2>. QED BY <2>1, <2>4, <2>5, FinishKeeps
<1>11. ASSUME NEW t \in Task, Disconnect(t) PROVE IInv'
    <2>1. CASE pc[t] = "reading"
        BY <1>11, <2>1, DropHandlerKeeps
    <2>2. CASE pc[t] # "reading"
        <3>1. entries[t] = 0 /\ lost \in Nat
            BY <2>2 DEF IInv, TypeOK, HandlerInv
        <3>2. lost' = lost
            BY <1>11, <3>1 DEF Disconnect
        <3>. QED BY <1>2, <1>11, <2>2, <3>2 DEF Disconnect, Quiet
    <2>. QED BY <2>1, <2>2
<1>12. CASE UNCHANGED vars
    BY <1>12 DEF vars, store, fields, request, IInv, TypeOK, EntryAccounting, OffsetsInOrder,
        HandlerInv, ListingInv, PagesInv, Reading, InSequence, Repeats, Held, Holding
<1>13. CASE \E t \in Task : Handler(t)
    BY <1>1, <1>3, <1>4, <1>5, <1>6, <1>7, <1>8, <1>9, <1>10, <1>11, <1>13, StartKeeps,
        StartPageKeeps, ReceiveKeeps DEF Handler, LockStep, ReadStep
<1>. QED BY <1>12, <1>13, ProducerStep DEF Next

\* Every behaviour keeps the invariant, whatever the store and the clients do.
THEOREM Invariance == Spec => []IInv
<1>1. Init => IInv
    BY InitIInv
<1>2. IInv /\ [Next]_vars => IInv'
    BY NextIInv
<1>. QED BY <1>1, <1>2, PTL DEF Spec

\* The shape of the state, with the bound of the channel and the one handler at
\* a time that holds the mutex across an await (files.rs:51).
THEOREM TypeCorrect == Spec => []TypeOK
<1>1. IInv => TypeOK
    BY DEF IInv
<1>. QED BY <1>1, Invariance, PTL

\* Each entry out of the channel was answered, is held back, is in the hands of
\* the one reader, or went with a dropped handler (files.rs:141-171).
THEOREM EntriesAccounted == Spec => []EntryAccounting
<1>1. IInv => EntryAccounting
    BY DEF IInv
<1>. QED BY <1>1, Invariance, PTL

\* A listing answers an offset with one page, its pages share no entry, come in
\* order and tell the end truly (files.rs:122-173).
THEOREM OffsetsOrdered == Spec => []OffsetsInOrder
<1>1. IInv => OffsetsInOrder
    BY DEF IInv
<1>. QED BY <1>1, Invariance, PTL

-----------------------------------------------------------------------------
(* What holds of the pages when no handler is dropped *)

\* No entry is taken along, and every page starts with the entry of its offset.
NoGap == lost = 0 /\ NoEntrySkipped

LEMMA NoGapKept ==
    ASSUME "disconnect" \notin Faults, IInv, IInv', NoGap, [Next]_vars
    PROVE  NoGap'
<1>1. lost' = 0 /\ (served' = served \/ (served' = served \cup {lastPage'} /\ listing'))
    <2>1. CASE UNCHANGED vars
        BY <2>1 DEF vars, NoGap
    <2>2. CASE Produce \/ ProducerEnds \/ ProducerFails
        BY <2>2 DEF Produce, ProducerEnds, ProducerFails, NoGap
    <2>3. ASSUME NEW t \in Task, Request(t) \/ LockStep(t) \/ StartFails(t)
          PROVE  lost' = 0 /\ (served' = served \/ (served' = served \cup {lastPage'} /\ listing'))
        BY <2>3 DEF Request, LockStep, StartFails, RefuseStart, OpenStore, RepeatPage, RefuseOffset,
            StartPage, DropListing, fields, NoGap
    <2>4. ASSUME NEW t \in Task, ReadStep(t)
          PROVE  lost' = 0 /\ (served' = served \/ (served' = served \cup {lastPage'} /\ listing'))
        BY <2>4 DEF ReadStep, StartListing, ReceiveEntry, ReceiveError, FinishWithMore, FinishLast,
            Finish, DropListing, IInv, HandlerInv, NoGap
    <2>5. ASSUME NEW t \in Task, Disconnect(t) PROVE FALSE
        BY <2>5 DEF Disconnect
    <2>. QED BY <2>1, <2>2, <2>3, <2>4, <2>5 DEF Next, Handler
<1>2. CASE served' = served
    BY <1>1, <1>2 DEF NoGap, NoEntrySkipped
<1>3. CASE served' = served \cup {lastPage'} /\ listing'
    <2>1. lastPage' \in served' /\ lastPage' # None
        BY <1>3, ListingAssumption DEF IInv, TypeOK
    <2>2. lastPage'.first = lastPage'.offset
        BY <1>1, <1>3, <2>1 DEF IInv, ListingInv, OffsetsInOrder
    <2>. QED BY <1>1, <1>3, <2>2 DEF NoGap, NoEntrySkipped
<1>. QED BY <1>1, <1>2, <1>3

\* Only a dropped handler makes the listing skip entries: with every other fault,
\* retry and race a page starts with the entry of its offset, as the test
\* file_listing_pages_once_and_retries_idempotently (files.rs:371) has it.
THEOREM OnlyDroppedEntriesSkipped ==
    ASSUME "disconnect" \notin Faults
    PROVE  Spec => []NoEntrySkipped
<1>1. Init => NoGap
    BY DEF Init, NoGap, NoEntrySkipped
<1>2. IInv /\ IInv' /\ NoGap /\ [Next]_vars => NoGap'
    BY NoGapKept
<1>3. NoGap => NoEntrySkipped
    BY DEF NoGap
<1>. QED BY <1>1, <1>2, <1>3, Invariance, PTL DEF Spec
=============================================================================
