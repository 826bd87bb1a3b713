----------------------------- MODULE BlobSlots ------------------------------
(***************************************************************************)
(* Blob arrays loaded once for many requests (read_blob_array_media in      *)
(* backend/src/api/media.rs, blob_array_slot in state.rs).  A server-wide   *)
(* cache keeps a few slots; a slot is a OnceCell, which one request at a    *)
(* time may fill while others wait.  A slot that left the cache lives on in *)
(* the requests that hold it, and a new one may be made for its row.        *)
(*                                                                         *)
(* A Row stands for a Blob column and a row address.                        *)
(***************************************************************************)
EXTENDS Naturals, Sequences, FiniteSets

CONSTANTS
    Task,       \* concurrent media requests
    Connection, \* dataset sessions, each with its blob_cache_namespace
    Row,
    Capacity,   \* MAX_BLOB_ARRAY_ROWS
    MaxSlots,   \* bound: slots made in a behaviour
    Faults,     \* the faults that may happen: "load", "disconnect"
    None        \* what an empty slot holds

ASSUME SlotsAssumption ==
    /\ Capacity \in Nat \ {0} /\ MaxSlots \in Nat
    /\ Faults \subseteq {"load", "disconnect"}
    /\ None \notin Connection \X Row

VARIABLES
    made,       \* slots made so far, which numbers them
    key,        \* the key each slot was made for
    array,      \* what each slot holds: the array of a row, or None
    order,      \* the cache: slots in order of use, the latest last
    pc, conn, row, slot,    \* each request
    served,     \* history: what was asked for and what was answered
    loads       \* history: arrays loaded, by row

request == <<conn, row, slot>>
slotsVars == <<made, key, array, order, pc, request, served, loads>>

Slot == 1..MaxSlots

SlotsInit ==
    /\ made = 0 /\ order = << >>
    /\ key = [s \in Slot |-> None] /\ array = [s \in Slot |-> None]
    /\ pc = [t \in Task |-> "idle"]
    /\ conn = [t \in Task |-> None] /\ row = [t \in Task |-> None]
    /\ slot = [t \in Task |-> 0]
    /\ served = {} /\ loads = [x \in Connection \X Row |-> 0]

Leave(t) ==
    /\ pc' = [pc EXCEPT ![t] = "idle"] /\ slot' = [slot EXCEPT ![t] = 0]
    /\ conn' = [conn EXCEPT ![t] = None] /\ row' = [row EXCEPT ![t] = None]

-----------------------------------------------------------------------------
(* blob_array_slot *)

\* A key without the namespace of its connection.
RowKey(c, r) == r

Key(c, r) == <<c, r>>

CachedFor(c, r) == {n \in DOMAIN order : key[order[n]] = Key(c, r)}

\* Eviction that comes one slot late.
RoomForOneMore == IF Len(order) > Capacity THEN Tail(order) ELSE order

\* A full cache gives up the slot used least recently.
Room == IF Len(order) = Capacity THEN Tail(order) ELSE order

\* The list with its n-th slot moved to the end.
Promoted(n) ==
    [m \in DOMAIN order |-> IF m < n THEN order[m]
                            ELSE IF m < Len(order) THEN order[m + 1] ELSE order[n]]

\* The slot in the cache, which is used again, or a new one.
AskSlot(t, c, r) ==
    /\ pc[t] = "idle"
    /\ pc' = [pc EXCEPT ![t] = "asking"]
    /\ conn' = [conn EXCEPT ![t] = c] /\ row' = [row EXCEPT ![t] = r]
    /\ \/ \E n \in CachedFor(c, r) :
            /\ order' = Promoted(n)
            /\ slot' = [slot EXCEPT ![t] = order[n]]
            /\ UNCHANGED <<made, key>>
       \/ /\ CachedFor(c, r) = {} /\ made < MaxSlots
          /\ made' = made + 1
          /\ key' = [key EXCEPT ![made'] = Key(c, r)]
          /\ order' = Append(Room, made')
          /\ slot' = [slot EXCEPT ![t] = made']
    /\ UNCHANGED <<array, served, loads>>

-----------------------------------------------------------------------------
(* OnceCell::get_or_try_init *)

Serve(t, answer) ==
    /\ served' = served \cup {[asked |-> <<conn[t], row[t]>>, got |-> answer]}
    /\ Leave(t)

Read(t) ==
    /\ pc[t] = "asking" /\ array[slot[t]] # None
    /\ Serve(t, array[slot[t]])
    /\ UNCHANGED <<made, key, array, order, loads>>

\* An initialization that does not wait for the one under way.
NoOtherNeeded(t) == TRUE

\* An initialization by the only holder of the slot, as Arc::get_mut asks for.
OnlyHolder(t) == \A u \in Task \ {t} : slot[u] # slot[t]

\* The permit of the cell: nobody else loads this slot.
HasPermit(t) == \A u \in Task : pc[u] = "loading" => slot[u] # slot[t]

StartLoad(t) ==
    /\ pc[t] = "asking" /\ array[slot[t]] = None /\ HasPermit(t)
    /\ pc' = [pc EXCEPT ![t] = "loading"]
    /\ UNCHANGED <<made, key, array, order, request, served, loads>>

Loaded(t) ==
    LET content == <<conn[t], row[t]>>
    IN  /\ pc[t] = "loading"
        /\ array' = [array EXCEPT ![slot[t]] = content]
        /\ loads' = [loads EXCEPT ![content] = @ + 1]
        /\ Serve(t, content)
        /\ UNCHANGED <<made, key, order>>

\* A failed load leaves the cell empty for the next request that waits.
LoadFails(t) ==
    /\ "load" \in Faults
    /\ pc[t] = "loading"
    /\ Leave(t)
    /\ UNCHANGED <<made, key, array, order, served, loads>>

\* A request dropped while it waits or loads gives the permit back.
Disconnect(t) ==
    /\ "disconnect" \in Faults
    /\ pc[t] \in {"asking", "loading"}
    /\ Leave(t)
    /\ UNCHANGED <<made, key, array, order, served, loads>>

LoadEnds(t) == Loaded(t) \/ LoadFails(t)

Answers(t) == Read(t) \/ Loaded(t)

Proceeds(t) ==
    \/ \E c \in Connection, r \in Row : AskSlot(t, c, r)
    \/ StartLoad(t) \/ LoadFails(t) \/ Disconnect(t)

SlotsNext == \E t \in Task : Answers(t) \/ Proceeds(t)

SlotsSpec == SlotsInit /\ [][SlotsNext]_slotsVars

\* The scan answers, and the permit goes to the waiters in turn.
SlotsFairness ==
    \A t \in Task :
        /\ WF_slotsVars(LoadEnds(t)) /\ WF_slotsVars(Read(t))
        /\ SF_slotsVars(StartLoad(t))

-----------------------------------------------------------------------------
(* Properties *)

\* The shape of the state; a key is in the cache once, the cache is bounded.
TypeOK ==
    /\ made \in 0..MaxSlots
    /\ array \in [Slot -> {None} \cup (Connection \X Row)]
    /\ order \in Seq(1..made) /\ Len(order) <= Capacity
    /\ \A m, n \in DOMAIN order : key[order[m]] = key[order[n]] => m = n
    /\ pc \in [Task -> {"idle", "asking", "loading"}]
    /\ slot \in [Task -> 0..made]
    /\ loads \in [Connection \X Row -> Nat]

\* Whatever slots are shared, a request gets the array of its own dataset, column
\* and row (BlobArrayKey, state.rs:40; blob_cache_namespace).
ServedItsOwn == \A a \in served : a.got = a.asked

\* A row is loaded once for each time its slot left the cache: requests that come
\* together share one load, whichever of them fails or goes away (media.rs:112).
LoadedOncePerSlot ==
    \A x \in Connection \X Row :
        loads[x] <= Cardinality({s \in 1..made : key[s] = Key(x[1], x[2])})

\* A media request is answered, even when the one that loads for it goes away.
Answered == \A t \in Task : pc[t] # "idle" ~> pc[t] = "idle"
=============================================================================
