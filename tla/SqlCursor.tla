----------------------------- MODULE SqlCursor ------------------------------
(***************************************************************************)
(* One server-side SQL cursor (QueryCursor in backend/src/api/state.rs) and *)
(* the HTTP handlers that work on it (backend/src/api/query.rs): sql_page   *)
(* with read_sql_page, and cancel_sql.  Handlers are tokio tasks: they      *)
(* interleave at every await and at every use of the shared caches, and the *)
(* server drops a handler at an await when its client disconnects.          *)
(*                                                                         *)
(* The result rows are 0 .. total - 1 in stream order.  `position` is the   *)
(* number of rows taken out of the stream and its pending batch so far, so  *)
(* a page is an interval of rows.  A cursor id is a fresh UUID: once out of *)
(* the cache it never comes back.                                           *)
(***************************************************************************)
EXTENDS Naturals, FiniteSets

CONSTANTS
    Task,           \* concurrent request handlers
    PageRows,       \* SQL_PAGE_ROWS
    MaxRows,        \* MAX_SQL_RESULT_ROWS
    Ttl,            \* QUERY_IDLE_TTL in ticks of the clock
    MaxTotal,       \* bound: rows a query produces
    MaxBatch,       \* bound: rows in one record batch
    MaxSequence,    \* bound: page sequences clients ask for
    Faults,         \* the faults that may happen, see FaultKind
    NoPage          \* last_page before the first page

FaultKind == {"disconnect", "stream", "serialize"}

ASSUME CursorAssumption ==
    /\ PageRows \in Nat \ {0} /\ MaxRows \in Nat \ {0} /\ Ttl \in Nat \ {0}
    /\ MaxTotal \in Nat /\ MaxBatch \in Nat \ {0} /\ MaxSequence \in Nat
    /\ Faults \subseteq FaultKind

\* The connection that created the cursor, and any other live connection.
Conn == {"owner", "other"}

VARIABLES
    total,          \* rows the query will produce
    inCache,        \* whether `queries` holds the cursor
    pending,        \* rows in pending_batch (0 for None)
    position,       \* rows taken out of stream and pending batch
    nextSequence, rowsReturned, lastPage, done,     \* fields of QueryCursor
    idle,           \* ticks since last_accessed, up to Ttl
    pc,             \* where each handler is
    conn, seq,      \* the request's connection_id and sequence
    rows,           \* rows.len() of the handler
    served,         \* history: pages answered with 200
    lost,           \* history: rows taken by handlers that never answered
    failed,         \* history: the stream or a serialization failed
    quiet           \* history: ticks since a handler last worked on the cursor

cursor == <<pending, position, nextSequence, rowsReturned, lastPage, done, idle>>
request == <<conn, seq>>
history == <<served, lost, failed, quiet>>
vars == <<total, inCache, cursor, pc, request, rows, history>>

Page == [sequence : Nat, first : Nat, rows : Nat,
         done : BOOLEAN, truncated : BOOLEAN]

Removing == {"expiring", "rejecting", "failing", "cancelling"}
Waiting == {"waiting", "cancelWaiting"}

AtMost(a, b) == IF a <= b THEN a ELSE b

\* The cursor create_sql_cursor inserts; any handler may still be to come.
Init ==
    /\ total \in 0..MaxTotal
    /\ inCache = TRUE
    /\ pending = 0 /\ position = 0
    /\ nextSequence = 0 /\ rowsReturned = 0 /\ lastPage = NoPage /\ done = FALSE
    /\ idle = 0
    /\ pc = [t \in Task |-> "idle"]
    /\ conn = [t \in Task |-> "owner"] /\ seq = [t \in Task |-> 0]
    /\ rows = [t \in Task |-> 0]
    /\ served = {} /\ lost = 0 /\ failed = FALSE /\ quiet = 0

-----------------------------------------------------------------------------
(* Steps shared by the handlers *)

Goto(t, label) == pc' = [pc EXCEPT ![t] = label]

\* The handler answers, or is dropped: its locals are gone.
Leave(t) ==
    /\ Goto(t, "idle")
    /\ conn' = [conn EXCEPT ![t] = "owner"] /\ seq' = [seq EXCEPT ![t] = 0]
    /\ rows' = [rows EXCEPT ![t] = 0]

\* The async mutex is held across an await by a handler reading a page only.
Unlocked == \A t \in Task : pc[t] # "reading"

\* queries.get: an absent cursor is answered at once, 404 or 204.
Lookup(t, c, s, label) ==
    /\ pc[t] = "idle" /\ inCache
    /\ Goto(t, label)
    /\ conn' = [conn EXCEPT ![t] = c] /\ seq' = [seq EXCEPT ![t] = s]
    /\ UNCHANGED <<total, inCache, cursor, rows, history>>

\* queries.remove, after the guard was dropped, then the answer.
Remove(t) ==
    /\ pc[t] \in Removing
    /\ inCache' = FALSE
    /\ Leave(t)
    /\ UNCHANGED <<total, cursor, history>>

-----------------------------------------------------------------------------
(* sql_page *)

RequestPage(t) ==
    \E c \in Conn, s \in 0..MaxSequence : Lookup(t, c, s, "waiting")

Admitted(t) == conn[t] = "owner" /\ idle < Ttl

\* The lock is taken and dropped at once; the removal is a step of its own.
Reject(t) ==
    /\ pc[t] = "waiting" /\ Unlocked /\ ~Admitted(t)
    /\ Goto(t, IF conn[t] = "owner" THEN "expiring" ELSE "rejecting")
    /\ UNCHANGED <<total, inCache, cursor, request, rows, history>>

Repeats(t) == lastPage # NoPage /\ lastPage.sequence = seq[t]

RepeatPage(t) ==
    /\ pc[t] = "waiting" /\ Unlocked /\ Admitted(t) /\ Repeats(t)
    /\ idle' = 0 /\ quiet' = 0
    /\ served' = served \cup {lastPage}
    /\ Leave(t)
    /\ UNCHANGED <<total, inCache, pending, position, nextSequence,
                   rowsReturned, lastPage, done, lost, failed>>

\* A check of the sequence that lets earlier ones through.
InSequenceOrEarlier(t) == seq[t] <= nextSequence

InSequence(t) == seq[t] = nextSequence

RefusePage(t) ==
    /\ pc[t] = "waiting" /\ Unlocked /\ Admitted(t)
    /\ ~Repeats(t) /\ ~InSequence(t)
    /\ idle' = 0 /\ quiet' = 0
    /\ Leave(t)
    /\ UNCHANGED <<total, inCache, pending, position, nextSequence,
                   rowsReturned, lastPage, done, served, lost, failed>>

\* The lock taken without looking whether another handler has it.
StartPageUnlocked(t) ==
    /\ pc[t] = "waiting" /\ Admitted(t) /\ ~Repeats(t) /\ InSequence(t)
    /\ Goto(t, "reading")
    /\ UNCHANGED <<total, inCache, cursor, request, rows, history>>

StartPage(t) ==
    /\ pc[t] = "waiting" /\ Unlocked /\ Admitted(t)
    /\ ~Repeats(t) /\ InSequence(t)
    /\ idle' = 0 /\ quiet' = 0
    /\ Goto(t, "reading")
    /\ UNCHANGED <<total, inCache, pending, position, nextSequence,
                   rowsReturned, lastPage, done, request, rows,
                   served, lost, failed>>

\* min(SQL_PAGE_ROWS, MAX_SQL_RESULT_ROWS.saturating_sub(rows_returned))
PageSize ==
    AtMost(PageRows, IF rowsReturned < MaxRows THEN MaxRows - rowsReturned ELSE 0)

\* The head of the pending batch goes to the page, the rest stays pending.
Slice(t) == AtMost(PageSize - rows[t], pending)

\* The rest thrown away with the batch.
RestDropped(t) == 0

Rest(t) == pending - Slice(t)

Taking(t) == pc[t] = "reading" /\ rows[t] < PageSize /\ pending > 0

TakeRows(t) ==
    /\ Taking(t)
    /\ pending' = Rest(t) /\ position' = position + (pending - Rest(t))
    /\ rows' = [rows EXCEPT ![t] = @ + Slice(t)]
    /\ UNCHANGED <<total, inCache, nextSequence, rowsReturned, lastPage, done,
                   idle, pc, request, history>>

\* The end of both error arms; the first one forgets the removal to come.
FailAndStay(t, n) ==
    /\ done' = TRUE /\ failed' = TRUE
    /\ lost' = lost + rows[t] + n
    /\ Leave(t)

Fail(t, n) ==
    /\ done' = TRUE /\ failed' = TRUE
    /\ lost' = lost + rows[t] + n
    /\ rows' = [rows EXCEPT ![t] = 0]
    /\ Goto(t, "failing")
    /\ UNCHANGED request

SerializeError(t) ==
    /\ "serialize" \in Faults
    /\ Taking(t)
    /\ pending' = Rest(t) /\ position' = position + (pending - Rest(t))
    /\ Fail(t, Slice(t))
    /\ UNCHANGED <<total, inCache, nextSequence, rowsReturned, lastPage, idle,
                   served, quiet>>

\* stream.next().await: the one await under the lock.
Polling(t) == pc[t] = "reading" /\ rows[t] < PageSize /\ pending = 0 /\ ~done

\* A batch arrives (an empty one changes nothing).
StreamBatch(t) ==
    /\ Polling(t)
    /\ \E n \in 1..MaxBatch : n <= total - position /\ pending' = n
    /\ UNCHANGED <<total, inCache, position, nextSequence, rowsReturned,
                   lastPage, done, idle, pc, request, rows, history>>

\* The end of the stream not remembered in `done`.
StreamEndForgotten(t) == Polling(t) /\ position = total /\ UNCHANGED vars

StreamEnd(t) ==
    /\ Polling(t) /\ position = total
    /\ done' = TRUE
    /\ UNCHANGED <<total, inCache, pending, position, nextSequence,
                   rowsReturned, lastPage, idle, pc, request, rows, history>>

StreamError(t) ==
    /\ "stream" \in Faults
    /\ Polling(t)
    /\ Fail(t, 0)
    /\ UNCHANGED <<total, inCache, pending, position, nextSequence,
                   rowsReturned, lastPage, idle, served, quiet>>

Capped(t) == rowsReturned + rows[t] >= MaxRows

EndsHere(t) == Capped(t) \/ (done /\ pending = 0)

FinishPage(t) ==
    /\ pc[t] = "reading"
    /\ rows[t] = PageSize \/ (done /\ pending = 0)
    /\ rowsReturned' = rowsReturned + rows[t]
    /\ done' = (Capped(t) \/ done)
    /\ pending' = IF Capped(t) THEN 0 ELSE pending
    /\ nextSequence' = nextSequence + 1
    /\ lastPage' = [sequence |-> seq[t], first |-> position - rows[t],
                    rows |-> rows[t], done |-> EndsHere(t),
                    truncated |-> Capped(t)]
    /\ served' = served \cup {lastPage'}
    /\ quiet' = 0
    /\ Leave(t)
    /\ UNCHANGED <<total, inCache, position, idle, lost, failed>>

-----------------------------------------------------------------------------
(* cancel_sql, and what happens to the cursor from outside *)

RequestCancel(t) ==
    \E c \in Conn : Lookup(t, c, 0, "cancelWaiting")

Cancel(t) ==
    /\ pc[t] = "cancelWaiting" /\ Unlocked
    /\ IF conn[t] = "owner"
       THEN Goto(t, "cancelling") /\ UNCHANGED <<request, rows>>
       ELSE Leave(t)
    /\ UNCHANGED <<total, inCache, cursor, history>>

\* The client goes away: the handler is dropped at its await, and with it the
\* rows it had collected.
Disconnect(t) ==
    /\ "disconnect" \in Faults
    /\ pc[t] \in Waiting \/ Polling(t)
    /\ lost' = lost + rows[t]
    /\ Leave(t)
    /\ UNCHANGED <<total, inCache, cursor, served, failed, quiet>>

\* The insertion of another cursor evicts this one.
Evict ==
    /\ inCache
    /\ inCache' = FALSE
    /\ UNCHANGED <<total, cursor, pc, request, rows, history>>

Tick ==
    /\ idle' = AtMost(idle + 1, Ttl)
    /\ quiet' = IF Unlocked THEN AtMost(quiet + 1, Ttl) ELSE 0
    /\ UNCHANGED <<total, inCache, pending, position, nextSequence,
                   rowsReturned, lastPage, done, pc, request, rows,
                   served, lost, failed>>

ReadStep(t) ==
    TakeRows(t) \/ StreamBatch(t) \/ StreamEnd(t) \/ FinishPage(t)

LockStep(t) ==
    Reject(t) \/ RepeatPage(t) \/ RefusePage(t) \/ StartPage(t) \/ Cancel(t)

Handler(t) ==
    \/ RequestPage(t) \/ RequestCancel(t)
    \/ LockStep(t) \/ ReadStep(t) \/ Remove(t)
    \/ SerializeError(t) \/ StreamError(t) \/ Disconnect(t)

Next == (\E t \in Task : Handler(t)) \/ Evict \/ Tick

Spec == Init /\ [][Next]_vars

\* tokio runs every task that is ready, DataFusion yields a batch or the end,
\* and the mutex queue is first-in first-out: a waiter that could take the lock
\* again and again gets it.
Fairness ==
    \A t \in Task :
        /\ WF_vars(ReadStep(t)) /\ WF_vars(Remove(t))
        /\ SF_vars(LockStep(t))

FairSpec == Spec /\ Fairness

-----------------------------------------------------------------------------
(* Properties *)

\* The shape of the state, and that one handler at a time reads the stream.
TypeOK ==
    /\ total \in Nat /\ pending \in Nat /\ position \in Nat
    /\ nextSequence \in Nat /\ rowsReturned \in Nat /\ lost \in Nat
    /\ inCache \in BOOLEAN /\ done \in BOOLEAN /\ failed \in BOOLEAN
    /\ idle \in 0..Ttl /\ quiet \in 0..Ttl
    /\ lastPage \in Page \cup {NoPage}
    /\ served \subseteq Page
    /\ pc \in [Task -> {"idle", "reading"} \cup Waiting \cup Removing]
    /\ conn \in [Task -> Conn] /\ seq \in [Task -> Nat]
    /\ rows \in [Task -> Nat]
    /\ \A t, u \in Task : pc[t] = "reading" /\ pc[u] = "reading" => t = u

\* Each row taken out of the stream was answered once, is in the hands of the
\* one reading handler, or went down with a dropped or failed handler.
RowAccounting ==
    /\ position + pending <= total
    /\ Unlocked => position = rowsReturned + lost
    /\ \A t \in Task :
          pc[t] = "reading" => position = rowsReturned + lost + rows[t]

\* A retried or duplicated page request, however late, never gets other rows
\* for its sequence than the first answer, and the latest page stays available
\* (last_page, next_sequence in read_sql_page).
RetryIdempotent ==
    /\ \A p, q \in served : p.sequence = q.sequence => p = q
    /\ \A p \in served : p.sequence < nextSequence
    /\ nextSequence > 0 =>
          lastPage \in served /\ lastPage.sequence = nextSequence - 1

\* Pages come in the order of the result and no row is in two of them.
InOrder ==
    \A p, q \in served :
        p.sequence < q.sequence => p.first + p.rows <= q.first

\* The end is told when it is the end: unless the query failed, a page marked
\* done that was not cut at the cap ends with the last row of the query.  A short
\* page is marked done, and after a done page no rows come, failed or not.  What a
\* failed query may tell is left to EndIsTrue.
EndIsTheEnd ==
    \A p \in served :
        /\ p.done /\ ~p.truncated /\ ~failed => p.first + p.rows = total
        /\ p.rows < PageRows => p.done
        /\ p.done => \A q \in served : q.sequence > p.sequence => q.rows = 0

\* No more than MAX_SQL_RESULT_ROWS rows leave the server, a page says truncated
\* only when they all have left, and from then on the latest page says so.
CapRespected ==
    /\ rowsReturned <= MaxRows
    /\ \A p \in served : p.truncated => rowsReturned = MaxRows
    /\ rowsReturned = MaxRows => lastPage.truncated

\* A failed query is taken out of the cache by the handler that met the error.
FailureRemoves == failed => ~inCache \/ \E t \in Task : pc[t] = "failing"

\* Every request is answered, or its client left: no handler waits for ever.
Answered == \A t \in Task : pc[t] # "idle" ~> pc[t] = "idle"

\* Under every fault concurrent handlers keep the contract of the pages: the
\* refinement says what a dropped handler or a row that fails to serialize may
\* cost the reader, and that nothing costs more (read_sql_page, sql_page).
Contract == INSTANCE PagedResult WITH
    returned <- rowsReturned, broken <- failed,
    Lossy <- Faults \cap {"disconnect", "serialize"} # {}
KeepsContract == Contract!Spec

\* README.md:193 "retries idempotent after a network timeout", README.md:218-220
\* "recoverable": rows are never skipped between two consecutive pages.
NoRowSkipped ==
    \A q \in served :
        \/ q.rows = 0
        \/ q.sequence = 0 /\ q.first = 0
        \/ \E p \in served :
              p.sequence + 1 = q.sequence /\ p.first + p.rows = q.first

\* README.md:221-222: a failure invalidates the cursor, so it serves no page.
FailedServesNothing == [][failed => served' = served]_vars

\* The end told is the end of the query, failed or not (query.rs:296, 307): a
\* request that waits for the lock of a failing cursor finds it `done`.
EndIsTrue ==
    \A p \in served : p.done /\ ~p.truncated => p.first + p.rows = total

\* README.md:231-232: only a cursor nobody used for the whole period expires.
ExpiresOnlyWhenIdle == \A t \in Task : pc[t] = "expiring" => quiet = Ttl

\* README.md:231: requests of another connection leave a cursor alone.
IsolatedByConnection == \A t \in Task : pc[t] \in Removing => conn[t] = "owner"
=============================================================================
