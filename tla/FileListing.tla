---------------------------- MODULE FileListing -----------------------------
(***************************************************************************)
(* The file listing of one dataset session (backend/src/api/files.rs): the  *)
(* handlers of /api/files (files_page, read_file_page), the listing they    *)
(* share behind the session's async mutex, and the producer task that walks *)
(* the object store into a bounded channel.  A listing that met an error is *)
(* dropped, receiver and all, and the next request for offset 0 starts a    *)
(* new one with a new producer.                                             *)
(*                                                                         *)
(* The store holds the entries 0 .. total - 1 in listing order.  `received` *)
(* is the number of entries taken out of the channel of the current         *)
(* listing, so a page is an interval of entries.                            *)
(***************************************************************************)
EXTENDS Naturals, FiniteSets

CONSTANTS
    Task,           \* concurrent request handlers
    Limits,         \* page sizes, after the clamp to 1 .. MAX_FILES_PAGE_SIZE
    ChannelSize,    \* MAX_FILES_PAGE_SIZE * 2
    MaxTotal,       \* bound: entries in the store
    MaxListings,    \* bound: listings started in a behaviour
    Faults,         \* the faults that may happen, see FaultKind
    None            \* next_offset of the last page, last_page before the first

FaultKind == {"disconnect", "store"}

\* A page answered: the entries first .. first + entries - 1 of a listing.
Page == [listing : Nat, offset : Nat, first : Nat, entries : Nat,
         next : Nat \cup {None}]

ASSUME ListingAssumption ==
    /\ Limits \subseteq Nat \ {0} /\ ChannelSize \in Nat \ {0}
    /\ MaxTotal \in Nat /\ MaxListings \in Nat
    /\ Faults \subseteq FaultKind /\ None \notin Nat \cup Page

VARIABLES
    total,          \* entries in the store
    listing,        \* whether file_listing is Some
    listings,       \* listings started so far; numbers the current one
    produced,       \* entries the current producer has sent
    producer,       \* "walking", "failed" once it sent the error, or "ended"
    received,       \* entries taken out of the channel
    pending,        \* whether an entry is held back in `pending`
    nextOffset, lastPage,   \* next_offset; last_offset with last_page
    pc,             \* where each handler is
    offset, limit,  \* the request
    entries,        \* entries.len() of the handler
    served,         \* history: pages answered, with their listing
    lost            \* history: entries a dropped handler took along

store == <<total, producer, produced>>
fields == <<received, pending, nextOffset, lastPage>>
request == <<offset, limit>>
vars == <<store, listing, listings, fields, pc, request, entries, served, lost>>

Init ==
    /\ total \in 0..MaxTotal
    /\ listing = FALSE /\ listings = 0
    /\ produced = 0 /\ producer = "ended"
    /\ received = 0 /\ pending = FALSE /\ nextOffset = 0 /\ lastPage = None
    /\ pc = [t \in Task |-> "idle"]
    /\ offset = [t \in Task |-> 0] /\ limit = [t \in Task |-> 1]
    /\ entries = [t \in Task |-> 0]
    /\ served = {} /\ lost = 0

-----------------------------------------------------------------------------
(* The producer of the current listing.  An abandoned one only finds its    *)
(* channel closed and stops.                                                *)

Buffered == produced - received

\* sender.send(Ok(entry)).await waits for room in the channel.
Produce ==
    /\ listing /\ producer = "walking"
    /\ produced < total /\ Buffered < ChannelSize
    /\ produced' = produced + 1
    /\ UNCHANGED <<total, producer, listing, listings, fields, pc, request,
                   entries, served, lost>>

\* A sender that outlives the walk never closes the channel.
ProducerLingers == FALSE

ProducerEnds ==
    /\ listing /\ producer = "walking" /\ produced = total
    /\ producer' = "ended"
    /\ UNCHANGED <<total, produced, listing, listings, fields, pc, request,
                   entries, served, lost>>

\* The store fails: the error is the last message of the channel.
ProducerFails ==
    /\ "store" \in Faults
    /\ listing /\ producer = "walking" /\ Buffered < ChannelSize
    /\ producer' = "failed"
    /\ UNCHANGED <<total, produced, listing, listings, fields, pc, request,
                   entries, served, lost>>

-----------------------------------------------------------------------------
(* files_page *)

Goto(t, label) == pc' = [pc EXCEPT ![t] = label]

Leave(t) ==
    /\ Goto(t, "idle")
    /\ offset' = [offset EXCEPT ![t] = 0] /\ limit' = [limit EXCEPT ![t] = 1]
    /\ entries' = [entries EXCEPT ![t] = 0]

\* The handler that holds the mutex across an await.
Holding == {"starting", "reading"}

Unlocked == \A t \in Task : pc[t] \notin Holding

Request(t) ==
    /\ pc[t] = "idle"
    /\ \E o \in 0..MaxTotal, n \in Limits :
        offset' = [offset EXCEPT ![t] = o] /\ limit' = [limit EXCEPT ![t] = n]
    /\ Goto(t, "waiting")
    /\ UNCHANGED <<store, listing, listings, fields, entries, served, lost>>

\* The lock taken without looking whether another handler has it.
LocksAlways(t) == pc[t] = "waiting"

Locks(t) == pc[t] = "waiting" /\ Unlocked

\* No listing and not the first page: an early return leaves everything alone.
RefuseStart(t) ==
    /\ Locks(t) /\ ~listing /\ offset[t] # 0
    /\ Leave(t)
    /\ UNCHANGED <<store, listing, listings, fields, served, lost>>

\* start_file_listing awaits the object store.
OpenStore(t) ==
    /\ Locks(t) /\ ~listing /\ offset[t] = 0
    /\ Goto(t, "starting")
    /\ UNCHANGED <<store, listing, listings, fields, request, entries, served, lost>>

StartListing(t) ==
    /\ pc[t] = "starting" /\ listings < MaxListings
    /\ listing' = TRUE /\ listings' = listings + 1
    /\ produced' = 0 /\ producer' = "walking"
    /\ received' = 0 /\ pending' = FALSE /\ nextOffset' = 0 /\ lastPage' = None
    /\ lost' = 0
    /\ Goto(t, "reading")
    /\ UNCHANGED <<total, request, entries, served>>

StartFails(t) ==
    /\ pc[t] = "starting"
    /\ "store" \in Faults \/ listings = MaxListings
    /\ Leave(t)
    /\ UNCHANGED <<store, listing, listings, fields, served, lost>>

-----------------------------------------------------------------------------
(* read_file_page *)

Repeats(t) == lastPage # None /\ lastPage.offset = offset[t]

\* The completed page again, whatever limit the request names.
RepeatPage(t) ==
    /\ Locks(t) /\ listing /\ Repeats(t)
    /\ served' = served \cup {lastPage}
    /\ Leave(t)
    /\ UNCHANGED <<store, listing, listings, fields, lost>>

\* A check that takes an offset behind the next one.
InSequenceOrEarlier(t) == offset[t] <= nextOffset

InSequence(t) == offset[t] = nextOffset

\* files_page drops the listing on every error, a wrong offset included; its
\* fields go with it, and its producer stops at the closed channel.
DropListing ==
    /\ listing' = FALSE
    /\ produced' = 0 /\ producer' = "ended"
    /\ received' = 0 /\ pending' = FALSE /\ nextOffset' = 0 /\ lastPage' = None
    /\ lost' = 0
    /\ UNCHANGED <<total, listings>>

RefuseOffset(t) ==
    /\ Locks(t) /\ listing /\ ~Repeats(t) /\ ~InSequence(t)
    /\ DropListing
    /\ Leave(t)
    /\ UNCHANGED served

\* The entry held back by the page before comes first.
Held == IF pending THEN 1 ELSE 0

StartPage(t) ==
    /\ Locks(t) /\ listing /\ ~Repeats(t) /\ InSequence(t)
    /\ entries' = [entries EXCEPT ![t] = Held]
    /\ pending' = FALSE
    /\ Goto(t, "reading")
    /\ UNCHANGED <<store, listing, listings, received, nextOffset, lastPage,
                   request, served, lost>>

Reading(t) == pc[t] = "reading"
Full(t) == entries[t] = limit[t]

ReceiveEntry(t) ==
    /\ Reading(t) /\ ~Full(t) /\ Buffered > 0
    /\ received' = received + 1
    /\ entries' = [entries EXCEPT ![t] = @ + 1]
    /\ UNCHANGED <<store, listing, listings, pending, nextOffset, lastPage, pc,
                   request, served, lost>>

\* The error after the last buffered entry, met in the page or at its end.
ReceiveError(t) ==
    /\ Reading(t) /\ Buffered = 0 /\ producer = "failed"
    /\ DropListing
    /\ Leave(t)
    /\ UNCHANGED served

\* Answer with the page read; `more` when an entry was held back.
Finish(t, more) ==
    LET end == offset[t] + entries[t]
    IN  /\ lastPage' = [listing |-> listings, offset |-> offset[t],
                        first |-> received - entries[t],
                        entries |-> entries[t],
                        next |-> IF more THEN end ELSE None]
        /\ nextOffset' = end
        /\ served' = served \cup {lastPage'}
        /\ Leave(t)

\* A full page looks one entry ahead to know whether there is more, and keeps
\* that entry for the next page; the first form forgets to keep it.
HoldBackForgotten ==
    Buffered > 0 /\ received' = received + 1 /\ pending' = FALSE

HoldBack == Buffered > 0 /\ received' = received + 1 /\ pending' = TRUE

FinishWithMore(t) ==
    /\ Reading(t) /\ Full(t) /\ HoldBack
    /\ Finish(t, TRUE)
    /\ UNCHANGED <<store, listing, listings, lost>>

\* The channel is empty and closed.
Exhausted == Buffered = 0 /\ producer = "ended"

\* This page is the last one.
FinishLast(t) ==
    /\ Reading(t) /\ Exhausted
    /\ Finish(t, FALSE)
    /\ UNCHANGED <<store, listing, listings, received, pending, lost>>

\* The client goes away and the handler is dropped at an await: a waiting one,
\* one that opens the store, one at receiver.recv() with its entries.
Disconnect(t) ==
    /\ "disconnect" \in Faults
    /\ \/ pc[t] \in {"waiting", "starting"}
       \/ Reading(t)
    /\ lost' = lost + entries[t]
    /\ Leave(t)
    /\ UNCHANGED <<store, listing, listings, fields, served>>

LockStep(t) ==
    \/ RefuseStart(t) \/ OpenStore(t)
    \/ RepeatPage(t) \/ RefuseOffset(t) \/ StartPage(t)

ReadStep(t) ==
    \/ StartListing(t) \/ ReceiveEntry(t) \/ ReceiveError(t)
    \/ FinishWithMore(t) \/ FinishLast(t)

Handler(t) == Request(t) \/ LockStep(t) \/ ReadStep(t) \/ StartFails(t) \/ Disconnect(t)

Next ==
    \/ \E t \in Task : Handler(t)
    \/ Produce \/ ProducerEnds \/ ProducerFails

Spec == Init /\ [][Next]_vars

\* The runtime runs every ready task, the store answers, and the mutex queue is
\* first-in first-out.
Fairness ==
    /\ WF_vars(Produce \/ ProducerEnds)
    /\ \A t \in Task :
        /\ WF_vars(ReadStep(t) \/ StartFails(t))
        /\ SF_vars(LockStep(t))

FairSpec == Spec /\ Fairness

-----------------------------------------------------------------------------
(* Properties *)

\* The shape of the state; one handler at a time has the listing, the channel
\* keeps its bound.
TypeOK ==
    /\ total \in Nat /\ listings \in Nat /\ listing \in BOOLEAN
    /\ produced \in Nat /\ received \in Nat /\ nextOffset \in Nat /\ lost \in Nat
    /\ producer \in {"walking", "failed", "ended"} /\ pending \in BOOLEAN
    /\ lastPage \in Page \cup {None} /\ served \subseteq Page
    /\ pc \in [Task -> {"idle", "waiting"} \cup Holding]
    /\ offset \in [Task -> Nat] /\ limit \in [Task -> Nat \ {0}]
    /\ entries \in [Task -> Nat]
    /\ \A t, u \in Task : pc[t] \in Holding /\ pc[u] \in Holding => t = u
    /\ received <= produced /\ produced <= received + ChannelSize

\* Each entry out of the channel was answered, is held back, is in the hands of
\* the one reader, or went with a dropped handler (files.rs:141-171).
EntryAccounting ==
    /\ produced <= total
    /\ (\A t \in Task : ~Reading(t)) => received = nextOffset + lost + Held
    /\ \A t \in Task :
          Reading(t) => ~pending /\ received = nextOffset + lost + entries[t]

\* An offset means what the client takes it for, retried, repeated or raced: a
\* listing answers it with one page only (last_offset), its pages share no entry
\* and come in order, and the page at an offset starts with the entry of that
\* number unless a dropped handler took entries along.  next_offset is
\* honest: without it the listing was shown to its end, with it there is a further
\* entry and it is the offset to ask for.
OffsetsInOrder ==
    /\ \A p, q \in served : p.listing = q.listing =>
          /\ p.offset = q.offset => p = q
          /\ p.offset < q.offset => p.first + p.entries <= q.first
    /\ listing /\ lost = 0 =>
          \A p \in served : p.listing = listings => p.first = p.offset
    /\ \A p \in served :
          IF p.next = None THEN p.first + p.entries = total
          ELSE /\ p.first + p.entries < total
               /\ p.next = p.offset + p.entries /\ p.entries > 0

\* Every request is answered, or its client left, whatever the store does.
Answered == \A t \in Task : pc[t] # "idle" ~> pc[t] = "idle"

\* The test file_listing_pages_once_and_retries_idempotently (files.rs:371): a
\* retry gets the page its offset names, no entry is skipped between pages.
NoEntrySkipped == \A p \in served : p.first = p.offset
=============================================================================
