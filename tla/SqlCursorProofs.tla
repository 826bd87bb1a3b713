-------------------------- MODULE SqlCursorProofs --------------------------
(***************************************************************************)
(* Proofs about SqlCursor, for any number of handlers, rows, ticks and any *)
(* set of faults.                                                          *)
(***************************************************************************)
EXTENDS SqlCursor, FiniteSetTheorems, TLAPS

\* The reading handler works on the next page; others hold no rows.
ReaderInv ==
    \A t \in Task :
        /\ pc[t] = "reading" => seq[t] = nextSequence /\ rows[t] <= PageSize
        /\ pc[t] # "reading" => rows[t] = 0

\* Pages lie behind the rows accounted for; after a done page nothing is
\* left to take.
PagesInv ==
    \A p \in served :
        /\ p.first + p.rows <= rowsReturned + lost
        /\ p.done => done /\ pending = 0 /\ \A t \in Task : rows[t] = 0

\* Why the cursor is done.
DoneInv ==
    done => failed \/ rowsReturned = MaxRows \/ (position = total /\ pending = 0)

LastPageInv == lastPage # NoPage => nextSequence > 0

IInv ==
    /\ TypeOK
    /\ RowAccounting /\ RetryIdempotent /\ InOrder /\ EndIsTheEnd
    /\ CapRespected /\ FailureRemoves
    /\ ReaderInv /\ PagesInv /\ DoneInv /\ LastPageInv

-----------------------------------------------------------------------------
(* Facts about the helpers *)

LEMMA PageSizeFact ==
    ASSUME CursorAssumption, rowsReturned \in Nat
    PROVE  /\ PageSize \in Nat /\ PageSize <= PageRows
           /\ rowsReturned <= MaxRows => rowsReturned + PageSize <= MaxRows
           /\ PageSize < PageRows => rowsReturned + PageSize >= MaxRows
  BY DEF PageSize, AtMost, CursorAssumption

LEMMA SliceFact ==
    ASSUME CursorAssumption, TypeOK, ReaderInv, NEW t \in Task, pc[t] = "reading"
    PROVE  /\ Slice(t) \in Nat /\ Slice(t) <= pending
           /\ rows[t] + Slice(t) <= PageSize
           /\ Rest(t) \in Nat /\ pending - Rest(t) = Slice(t)
<1>1. PageSize \in Nat /\ rows[t] \in Nat /\ rows[t] <= PageSize /\ pending \in Nat
  BY PageSizeFact DEF TypeOK, ReaderInv
<1> QED
  BY <1>1 DEF Slice, AtMost, Rest

LEMMA InitInv == CursorAssumption /\ Init => IInv
<1> SUFFICES ASSUME CursorAssumption, Init PROVE IInv
  OBVIOUS
<1> USE DEF CursorAssumption, Init
<1>1. TypeOK
  <2>0. inCache \in BOOLEAN /\ done \in BOOLEAN /\ failed \in BOOLEAN
    OBVIOUS
  <2>1. /\ total \in Nat /\ pending \in Nat /\ position \in Nat
        /\ nextSequence \in Nat /\ rowsReturned \in Nat /\ lost \in Nat
        /\ idle \in 0..Ttl /\ quiet \in 0..Ttl
    OBVIOUS
  <2>2. /\ pc \in [Task -> {"idle", "reading"} \cup Waiting \cup Removing]
        /\ conn \in [Task -> Conn] /\ seq \in [Task -> Nat] /\ rows \in [Task -> Nat]
    BY DEF Conn
  <2>3. \A t, u \in Task : pc[t] = "reading" /\ pc[u] = "reading" => t = u
    OBVIOUS
  <2> QED
    BY <2>0, <2>1, <2>2, <2>3 DEF TypeOK
<1>2. RowAccounting /\ RetryIdempotent /\ InOrder /\ EndIsTheEnd /\ CapRespected
  BY DEF RowAccounting, RetryIdempotent, InOrder, EndIsTheEnd, CapRespected,
         Unlocked
<1>3. FailureRemoves /\ ReaderInv /\ PagesInv /\ DoneInv /\ LastPageInv
  BY DEF FailureRemoves, ReaderInv, PagesInv, DoneInv, LastPageInv
<1> QED
  BY <1>1, <1>2, <1>3 DEF IInv

-----------------------------------------------------------------------------
(* Steps that leave the rows alone *)

Labels == {"idle", "reading"} \cup Waiting \cup Removing

\* A handler that holds no rows moves on; the cursor may leave the cache.
LEMMA MoveInv ==
    ASSUME CursorAssumption, IInv,
           NEW t \in Task, NEW label \in Labels \ {"reading"}, pc[t] # "reading",
           Goto(t, label), rows' = rows,
           conn' \in [Task -> Conn], seq' \in [Task -> Nat],
           \A u \in Task : u # t => seq'[u] = seq[u],
           inCache' \in BOOLEAN, inCache' => inCache,
           pc[t] = "failing" => ~inCache',
           idle' \in 0..Ttl, quiet' \in 0..Ttl,
           UNCHANGED <<total, pending, position, nextSequence, rowsReturned,
                       lastPage, done, served, lost, failed>>
    PROVE  IInv'
<1> USE DEF Goto
<1>1. TypeOK'
  BY DEF IInv, TypeOK, Labels
<1>2. RowAccounting'
  BY DEF IInv, TypeOK, RowAccounting, Unlocked
<1>3. FailureRemoves'
  BY DEF IInv, TypeOK, FailureRemoves
<1>4. RetryIdempotent' /\ InOrder' /\ EndIsTheEnd' /\ CapRespected'
      /\ DoneInv' /\ LastPageInv' /\ PagesInv'
  BY DEF IInv, RetryIdempotent, InOrder, EndIsTheEnd, CapRespected, DoneInv,
         LastPageInv, PagesInv
<1>5. ReaderInv'
  BY DEF IInv, TypeOK, ReaderInv, PageSize, AtMost
<1> QED
  BY <1>1, <1>2, <1>3, <1>4, <1>5 DEF IInv

LEMMA NoRowsWhileAway ==
    ASSUME IInv, NEW t \in Task, pc[t] # "reading"
    PROVE  [rows EXCEPT ![t] = 0] = rows
  BY DEF IInv, TypeOK, ReaderInv

LEMMA LookupInv ==
    ASSUME CursorAssumption, IInv, NEW t \in Task, NEW c \in Conn, NEW s \in Nat,
           NEW label \in Waiting, Lookup(t, c, s, label)
    PROVE  IInv'
<1>1. label \in Labels \ {"reading"} /\ pc[t] # "reading" /\ pc[t] # "failing"
  BY DEF Labels, Waiting, Lookup
<1>2. conn' \in [Task -> Conn] /\ seq' \in [Task -> Nat]
      /\ \A u \in Task : u # t => seq'[u] = seq[u]
  BY DEF Lookup, IInv, TypeOK
<1>3. inCache \in BOOLEAN /\ idle \in 0..Ttl /\ quiet \in 0..Ttl
  BY DEF IInv, TypeOK
<1> QED
  BY <1>1, <1>2, <1>3, MoveInv DEF Lookup, cursor, history

LEMMA RejectInv ==
    ASSUME CursorAssumption, IInv, NEW t \in Task, Reject(t)
    PROVE  IInv'
<1>1. PICK label \in {"expiring", "rejecting"} : Goto(t, label)
  BY DEF Reject
<1>2. label \in Labels \ {"reading"} /\ pc[t] # "reading" /\ pc[t] # "failing"
  BY DEF Labels, Removing, Reject
<1>3. /\ conn \in [Task -> Conn] /\ seq \in [Task -> Nat]
      /\ inCache \in BOOLEAN /\ idle \in 0..Ttl /\ quiet \in 0..Ttl
  BY DEF IInv, TypeOK
<1> QED
  BY <1>1, <1>2, <1>3, MoveInv DEF Reject, cursor, history, request

\* What Leave gives MoveInv.
LEMMA LeaveFact ==
    ASSUME IInv, NEW t \in Task, pc[t] # "reading", Leave(t)
    PROVE  /\ Goto(t, "idle") /\ rows' = rows /\ "idle" \in Labels \ {"reading"}
           /\ conn' \in [Task -> Conn] /\ seq' \in [Task -> Nat]
           /\ \A u \in Task : u # t => seq'[u] = seq[u]
  BY NoRowsWhileAway DEF Leave, IInv, TypeOK, Labels, Conn

LEMMA RepeatInv ==
    ASSUME CursorAssumption, IInv, NEW t \in Task, RepeatPage(t) \/ RefusePage(t)
    PROVE  IInv'
<1>1. pc[t] # "reading" /\ pc[t] # "failing" /\ Leave(t)
  BY DEF RepeatPage, RefusePage
<1>2. served' = served
  BY DEF RepeatPage, RefusePage, Repeats, IInv, RetryIdempotent, LastPageInv
<1>3. idle' \in 0..Ttl /\ quiet' \in 0..Ttl
  BY DEF RepeatPage, RefusePage, CursorAssumption
<1>4. inCache \in BOOLEAN
  BY DEF IInv, TypeOK
<1> QED
  BY <1>1, <1>2, <1>3, <1>4, LeaveFact, MoveInv DEF RepeatPage, RefusePage

LEMMA CancelInv ==
    ASSUME CursorAssumption, IInv, NEW t \in Task, Cancel(t)
    PROVE  IInv'
<1>1. /\ pc[t] # "reading" /\ pc[t] # "failing"
      /\ "cancelling" \in Labels \ {"reading"}
  BY DEF Cancel, Labels, Removing
<1>2. /\ conn \in [Task -> Conn] /\ seq \in [Task -> Nat]
      /\ inCache \in BOOLEAN /\ idle \in 0..Ttl /\ quiet \in 0..Ttl
  BY DEF IInv, TypeOK
<1>3. CASE conn[t] = "owner"
  BY <1>1, <1>2, <1>3, MoveInv DEF Cancel, cursor, history, request
<1>4. CASE conn[t] # "owner"
  BY <1>1, <1>2, <1>4, LeaveFact, MoveInv DEF Cancel, cursor, history
<1> QED
  BY <1>3, <1>4

LEMMA RemoveInv ==
    ASSUME CursorAssumption, IInv, NEW t \in Task, Remove(t)
    PROVE  IInv'
<1>1. pc[t] # "reading" /\ Leave(t) /\ inCache' = FALSE
  BY DEF Remove, Removing
<1>2. idle \in 0..Ttl /\ quiet \in 0..Ttl
  BY DEF IInv, TypeOK
<1> QED
  BY <1>1, <1>2, LeaveFact, MoveInv DEF Remove, cursor, history

LEMMA OutsideInv ==
    ASSUME CursorAssumption, IInv, Evict \/ Tick
    PROVE  IInv'
<1>1. /\ inCache' \in BOOLEAN /\ (inCache' => inCache)
      /\ idle' \in 0..Ttl /\ quiet' \in 0..Ttl
  <2>1. /\ inCache \in BOOLEAN /\ idle \in 0..Ttl /\ quiet \in 0..Ttl
        /\ Ttl \in Nat
    BY DEF IInv, TypeOK, CursorAssumption
  <2>2. CASE Evict
    BY <2>1, <2>2 DEF Evict, cursor, history
  <2>3. CASE Tick
    BY <2>1, <2>3 DEF Tick, AtMost
  <2> QED
    BY <2>2, <2>3
<1>2. UNCHANGED <<total, pending, position, nextSequence, rowsReturned, lastPage,
                  done, pc, conn, seq, rows, served, lost, failed>>
  BY DEF Evict, Tick, cursor, history, request
<1>3. TypeOK'
  BY <1>1, <1>2 DEF IInv, TypeOK
<1>4. RowAccounting' /\ RetryIdempotent' /\ InOrder' /\ EndIsTheEnd' /\ CapRespected'
  BY <1>2 DEF IInv, RowAccounting, RetryIdempotent, InOrder, EndIsTheEnd,
              CapRespected, Unlocked
<1>5. FailureRemoves' /\ ReaderInv' /\ PagesInv' /\ DoneInv' /\ LastPageInv'
  BY <1>1, <1>2 DEF IInv, FailureRemoves, ReaderInv, PagesInv, DoneInv,
                    LastPageInv, PageSize, AtMost
<1> QED
  BY <1>3, <1>4, <1>5 DEF IInv

-----------------------------------------------------------------------------
(* Steps of the reading handler *)

LEMMA StartInv ==
    ASSUME CursorAssumption, IInv, NEW t \in Task, StartPage(t)
    PROVE  IInv'
<1> USE DEF StartPage, Goto, request
<1>1. Unlocked /\ rows[t] = 0 /\ PageSize \in Nat
  BY PageSizeFact DEF IInv, TypeOK, ReaderInv
<1>2. TypeOK'
  BY <1>1 DEF IInv, TypeOK, Unlocked, CursorAssumption
<1>3. RowAccounting'
  BY <1>1 DEF IInv, TypeOK, RowAccounting, Unlocked
<1>4. RetryIdempotent' /\ InOrder' /\ EndIsTheEnd' /\ CapRespected'
      /\ DoneInv' /\ LastPageInv' /\ PagesInv'
  BY DEF IInv, RetryIdempotent, InOrder, EndIsTheEnd, CapRespected, DoneInv,
         LastPageInv, PagesInv
<1>5. FailureRemoves'
  BY DEF IInv, TypeOK, FailureRemoves
<1>6. ReaderInv'
  <2>1. PageSize' = PageSize
    BY DEF PageSize, AtMost
  <2>2. ASSUME NEW u \in Task
        PROVE  /\ pc'[u] = "reading" => seq'[u] = nextSequence' /\ rows'[u] <= PageSize'
               /\ pc'[u] # "reading" => rows'[u] = 0
    BY <1>1, <2>1 DEF IInv, TypeOK, ReaderInv, Unlocked, InSequence
  <2> QED
    BY <2>2 DEF ReaderInv
<1> QED
  BY <1>2, <1>3, <1>4, <1>5, <1>6 DEF IInv

\* Taking a slice: only the position, the pending rows and the hands of the
\* reader change, and no done page was served before.
LEMMA TakeInv ==
    ASSUME CursorAssumption, IInv, NEW t \in Task, TakeRows(t)
    PROVE  IInv'
<1> USE DEF TakeRows, Taking, request, history
<1>1. /\ Slice(t) \in Nat /\ Slice(t) <= pending /\ rows[t] + Slice(t) <= PageSize
      /\ Rest(t) \in Nat /\ pending - Rest(t) = Slice(t)
  BY SliceFact DEF IInv
<1>2. PageSize' = PageSize
  BY DEF PageSize, AtMost
<1>3. /\ rows \in [Task -> Nat] /\ position \in Nat /\ pending \in Nat
      /\ position' = position + Slice(t) /\ pending' = pending - Slice(t)
      /\ rows' = [rows EXCEPT ![t] = rows[t] + Slice(t)]
  BY <1>1 DEF IInv, TypeOK, Rest
<1>4. TypeOK'
  BY <1>1, <1>3 DEF IInv, TypeOK
<1>5. \A u \in Task : pc[u] = "reading" => u = t
  BY DEF IInv, TypeOK
<1>6. RowAccounting'
  BY <1>1, <1>3, <1>5 DEF IInv, TypeOK, RowAccounting, Unlocked
<1>7. \A p \in served : ~p.done
  BY DEF IInv, PagesInv
<1>8. PagesInv'
  BY <1>1, <1>3, <1>7 DEF IInv, PagesInv, TypeOK, Page
<1>9. RetryIdempotent' /\ InOrder' /\ EndIsTheEnd' /\ CapRespected' /\ LastPageInv'
  BY DEF IInv, RetryIdempotent, InOrder, EndIsTheEnd, CapRespected, LastPageInv
<1>10. FailureRemoves' /\ DoneInv'
  BY DEF IInv, FailureRemoves, DoneInv
<1>11. ReaderInv'
  BY <1>1, <1>2, <1>3, <1>5 DEF IInv, ReaderInv
<1> QED
  BY <1>4, <1>6, <1>8, <1>9, <1>10, <1>11 DEF IInv

LEMMA PollInv ==
    ASSUME CursorAssumption, IInv, NEW t \in Task, StreamBatch(t) \/ StreamEnd(t)
    PROVE  IInv'
<1>1. /\ Polling(t) /\ pending' \in Nat /\ done' \in BOOLEAN
      /\ position + pending' <= total
      /\ done' => pending' = 0 /\ position = total
      /\ pending = 0 /\ ~done
  <2>1. position \in Nat /\ total \in Nat /\ position + pending <= total
    BY DEF IInv, TypeOK, RowAccounting
  <2>2. Polling(t) /\ pending = 0 /\ ~done
    BY DEF StreamBatch, StreamEnd, Polling
  <2>3. CASE StreamBatch(t)
    <3>1. PICK n \in 1..MaxBatch : n <= total - position /\ pending' = n
      BY <2>3 DEF StreamBatch
    <3>2. pending' \in Nat /\ position + pending' <= total
      BY <3>1, <2>1 DEF CursorAssumption
    <3>3. done' \in BOOLEAN /\ ~done'
      BY <2>2, <2>3 DEF StreamBatch, IInv, TypeOK
    <3> QED
      BY <2>2, <3>2, <3>3
  <2>4. CASE StreamEnd(t)
    <3>1. pending' = 0 /\ position = total /\ done' = TRUE
      BY <2>2, <2>4 DEF StreamEnd
    <3> QED
      BY <2>1, <2>2, <3>1
  <2> QED
    BY <2>3, <2>4
<1>2. UNCHANGED <<total, inCache, position, nextSequence, rowsReturned, lastPage,
                  idle, pc, conn, seq, rows, served, lost, failed, quiet>>
  BY DEF StreamBatch, StreamEnd, request, history
<1>3. TypeOK'
  BY <1>1, <1>2 DEF IInv, TypeOK
<1>4. RowAccounting'
  BY <1>1, <1>2 DEF IInv, RowAccounting, Unlocked
<1>5. RetryIdempotent' /\ InOrder' /\ EndIsTheEnd' /\ CapRespected' /\ LastPageInv'
      /\ FailureRemoves'
  BY <1>2 DEF IInv, RetryIdempotent, InOrder, EndIsTheEnd, CapRespected,
              LastPageInv, FailureRemoves
<1>6. ReaderInv'
  BY <1>2 DEF IInv, ReaderInv, PageSize, AtMost
<1>7. PagesInv'
  BY <1>1, <1>2 DEF IInv, PagesInv
<1>8. DoneInv'
  BY <1>1, <1>2 DEF DoneInv
<1> QED
  BY <1>3, <1>4, <1>5, <1>6, <1>7, <1>8 DEF IInv

\* Both errors: the rows in hand are lost, the cursor is done and failed.
LEMMA FailInv ==
    ASSUME CursorAssumption, IInv, NEW t \in Task, pc[t] = "reading",
           NEW n \in Nat, Fail(t, n),
           position' = position + n, pending' \in Nat,
           position' + pending' <= total,
           pending = 0 => pending' = 0,
           UNCHANGED <<total, inCache, nextSequence, rowsReturned, lastPage, idle,
                       served, quiet>>
    PROVE  IInv'
<1> USE DEF Fail, Goto, request
<1>1. \A u \in Task : pc[u] = "reading" => u = t
  BY DEF IInv, TypeOK
<1>2. /\ pc' = [pc EXCEPT ![t] = "failing"] /\ pc'[t] = "failing"
      /\ rows \in [Task -> Nat] /\ rows' = [rows EXCEPT ![t] = 0]
      /\ position \in Nat /\ lost \in Nat
  BY DEF IInv, TypeOK
<1>3. TypeOK'
  BY <1>1, <1>2 DEF IInv, TypeOK, Removing
<1>4. RowAccounting'
  <2>1. position = rowsReturned + lost + rows[t] /\ rowsReturned \in Nat
    BY DEF IInv, RowAccounting, TypeOK
  <2>2. \A u \in Task : pc'[u] # "reading"
    BY <1>1, <1>2 DEF IInv, TypeOK
  <2> QED
    BY <2>1, <2>2, <1>2 DEF RowAccounting, Unlocked
<1>5. RetryIdempotent' /\ InOrder' /\ CapRespected' /\ LastPageInv'
  BY DEF IInv, RetryIdempotent, InOrder, CapRespected, LastPageInv
<1>6. EndIsTheEnd' /\ FailureRemoves' /\ DoneInv'
  BY <1>2 DEF IInv, EndIsTheEnd, FailureRemoves, DoneInv
<1>7. ReaderInv'
  <2>1. PageSize' = PageSize
    BY DEF PageSize, AtMost
  <2> QED
    BY <2>1, <1>1, <1>2 DEF IInv, ReaderInv, TypeOK
<1>8. PagesInv'
  <2>1. \A u \in Task : rows[u] = 0 => rows'[u] = 0
    BY <1>2
  <2> QED
    BY <2>1, <1>2 DEF IInv, PagesInv, TypeOK, Page
<1> QED
  BY <1>3, <1>4, <1>5, <1>6, <1>7, <1>8 DEF IInv

LEMMA ErrorInv ==
    ASSUME CursorAssumption, IInv, NEW t \in Task, SerializeError(t) \/ StreamError(t)
    PROVE  IInv'
<1>1. CASE SerializeError(t)
  <2>1. pc[t] = "reading"
    BY <1>1 DEF SerializeError, Taking
  <2>2. /\ Slice(t) \in Nat /\ Slice(t) <= pending /\ pending - Rest(t) = Slice(t)
        /\ Rest(t) \in Nat
    BY <2>1, SliceFact DEF IInv
  <2>3. position + pending <= total /\ position \in Nat /\ pending \in Nat
    BY DEF IInv, TypeOK, RowAccounting
  <2>4. /\ position' = position + Slice(t) /\ pending' \in Nat
        /\ position' + pending' <= total /\ (pending = 0 => pending' = 0)
    BY <1>1, <2>2, <2>3 DEF SerializeError, Rest
  <2> QED
    BY <1>1, <2>1, <2>2, <2>4, FailInv DEF SerializeError
<1>2. CASE StreamError(t)
  <2>1. pc[t] = "reading" /\ Fail(t, 0) /\ 0 \in Nat
    BY <1>2 DEF StreamError, Polling
  <2>2. /\ position \in Nat /\ pending \in Nat /\ position + pending <= total
        /\ position' = position /\ pending' = pending
    BY <1>2 DEF IInv, TypeOK, RowAccounting, StreamError
  <2>3. position' = position + 0
    BY <2>2
  <2> QED
    BY <1>2, <2>1, <2>2, <2>3, FailInv DEF StreamError
<1> QED
  BY <1>1, <1>2

\* The reader's connection is dropped at its await: its rows are lost.
LEMMA DisconnectInv ==
    ASSUME CursorAssumption, IInv, NEW t \in Task, Disconnect(t)
    PROVE  IInv'
<1>1. CASE pc[t] \in Waiting
  <2>1. pc[t] # "reading" /\ pc[t] # "failing" /\ rows[t] = 0
    BY <1>1 DEF Waiting, IInv, ReaderInv
  <2>2. lost' = lost /\ Leave(t)
    BY <2>1 DEF Disconnect, IInv, TypeOK
  <2>3. inCache \in BOOLEAN /\ idle \in 0..Ttl /\ quiet \in 0..Ttl
    BY DEF IInv, TypeOK
  <2> QED
    BY <2>1, <2>2, <2>3, LeaveFact, MoveInv DEF Disconnect, cursor
<1>2. CASE Polling(t)
  <2> USE DEF Disconnect, Leave, Goto, cursor
  <2>1. /\ pc[t] = "reading" /\ \A u \in Task : pc[u] = "reading" => u = t
        /\ pc' = [pc EXCEPT ![t] = "idle"] /\ rows' = [rows EXCEPT ![t] = 0]
        /\ rows \in [Task -> Nat] /\ lost \in Nat /\ lost' = lost + rows[t]
    BY <1>2 DEF IInv, TypeOK, Polling
  <2>2. TypeOK'
    BY <2>1 DEF IInv, TypeOK, Conn
  <2>3. RowAccounting'
    <3>1. position = rowsReturned + lost + rows[t] /\ rowsReturned \in Nat
          /\ position + pending <= total
      BY <2>1 DEF IInv, RowAccounting, TypeOK
    <3>2. \A u \in Task : pc'[u] # "reading"
      BY <2>1 DEF IInv, TypeOK
    <3> QED
      BY <3>1, <3>2, <2>1 DEF RowAccounting, Unlocked
  <2>4. RetryIdempotent' /\ InOrder' /\ EndIsTheEnd' /\ CapRespected'
        /\ DoneInv' /\ LastPageInv'
    BY DEF IInv, RetryIdempotent, InOrder, EndIsTheEnd, CapRespected, DoneInv,
           LastPageInv
  <2>5. FailureRemoves'
    BY <2>1 DEF IInv, TypeOK, FailureRemoves
  <2>6. ReaderInv'
    BY <2>1 DEF IInv, ReaderInv, TypeOK, PageSize, AtMost
  <2>7. PagesInv'
    <3>1. \A u \in Task : rows[u] = 0 => rows'[u] = 0
      BY <2>1
    <3>2. rowsReturned + lost <= rowsReturned' + lost'
      BY <2>1 DEF IInv, TypeOK
    <3>3. /\ rowsReturned + lost \in Nat /\ rowsReturned' + lost' \in Nat
          /\ \A p \in served : p.first + p.rows \in Nat
      BY <2>1 DEF IInv, TypeOK, Page
    <3> QED
      BY <3>1, <3>2, <3>3 DEF IInv, PagesInv
  <2> QED
    BY <2>2, <2>3, <2>4, <2>5, <2>6, <2>7 DEF IInv
<1> QED
  BY <1>1, <1>2 DEF Disconnect

\* What is known of the page FinishPage hands out.
LEMMA FinishFact ==
    ASSUME CursorAssumption, IInv, NEW t \in Task, FinishPage(t)
    PROVE  /\ lastPage' \in Page
           /\ lastPage'.sequence = nextSequence
           /\ lastPage'.rows = rows[t]
           /\ lastPage'.first = rowsReturned + lost
           /\ lastPage'.first + rows[t] = position
           /\ rowsReturned' = rowsReturned + rows[t] /\ rowsReturned' <= MaxRows
           /\ lastPage'.truncated <=> rowsReturned' = MaxRows
           /\ lastPage'.done => done' /\ pending' = 0
           /\ lastPage'.done /\ rowsReturned' # MaxRows => done /\ pending = 0
           /\ rows[t] < PageRows => lastPage'.done
           /\ pending' \in Nat /\ pending' <= pending /\ done' \in BOOLEAN
           /\ (done => done') /\ (done' => done \/ rowsReturned' = MaxRows)
           /\ rowsReturned' = MaxRows => pending' = 0
<1>1. /\ pc[t] = "reading" /\ rows[t] \in Nat /\ seq[t] = nextSequence
      /\ rows[t] <= PageSize /\ position = rowsReturned + lost + rows[t]
      /\ rowsReturned \in Nat /\ lost \in Nat /\ position \in Nat
      /\ nextSequence \in Nat /\ pending \in Nat /\ rowsReturned <= MaxRows
  BY DEF FinishPage, IInv, TypeOK, ReaderInv, RowAccounting, CapRespected
<1>2. /\ PageSize \in Nat /\ PageSize <= PageRows /\ MaxRows \in Nat
      /\ rowsReturned + PageSize <= MaxRows
      /\ PageSize < PageRows => rowsReturned + PageSize >= MaxRows
  BY <1>1, PageSizeFact DEF CursorAssumption
<1>3. Capped(t) <=> rowsReturned + rows[t] = MaxRows
  BY <1>1, <1>2 DEF Capped
<1>4. rows[t] < PageRows => EndsHere(t)
  <2>1. CASE rows[t] = PageSize
    <3>1. rows[t] < PageRows => Capped(t)
      BY <2>1, <1>1, <1>2, <1>3
    <3> QED
      BY <3>1 DEF EndsHere
  <2>2. CASE done /\ pending = 0
    BY <2>2 DEF EndsHere
  <2> QED
    BY <2>1, <2>2 DEF FinishPage
<1>5. /\ lastPage' = [sequence |-> nextSequence, first |-> position - rows[t],
                      rows |-> rows[t], done |-> EndsHere(t), truncated |-> Capped(t)]
      /\ rowsReturned' = rowsReturned + rows[t]
      /\ pending' = IF Capped(t) THEN 0 ELSE pending
      /\ done' = (Capped(t) \/ done)
  BY <1>1 DEF FinishPage
<1>6. Capped(t) \in BOOLEAN /\ EndsHere(t) \in BOOLEAN
  BY DEF Capped, EndsHere
<1>7. lastPage' \in Page
  BY <1>1, <1>5, <1>6 DEF Page
<1>8. done' \in BOOLEAN
  BY <1>5
<1>9. rowsReturned' <= MaxRows
  BY <1>1, <1>2, <1>5
<1>10. /\ lastPage'.sequence = nextSequence /\ lastPage'.rows = rows[t]
       /\ lastPage'.first = position - rows[t]
       /\ lastPage'.done = EndsHere(t) /\ lastPage'.truncated = Capped(t)
  BY <1>5
<1>11. lastPage'.first = rowsReturned + lost /\ lastPage'.first + rows[t] = position
  BY <1>1, <1>10
<1>12. /\ pending' \in Nat /\ pending' <= pending
       /\ Capped(t) => pending' = 0
       /\ pending = 0 => pending' = 0
  BY <1>1, <1>5
<1>13. Capped(t) <=> rowsReturned' = MaxRows
  BY <1>3, <1>5
<1>14. lastPage'.done => done' /\ pending' = 0
  BY <1>5, <1>10, <1>12 DEF EndsHere
<1>15. lastPage'.done /\ rowsReturned' # MaxRows => done /\ pending = 0
  BY <1>10, <1>13 DEF EndsHere
<1>16. (done => done') /\ (done' => done \/ rowsReturned' = MaxRows)
  BY <1>5, <1>13
<1> QED
  BY <1>4, <1>5, <1>7, <1>8, <1>9, <1>10, <1>11, <1>12, <1>13, <1>14, <1>15, <1>16

LEMMA FinishInv ==
    ASSUME CursorAssumption, IInv, NEW t \in Task, FinishPage(t)
    PROVE  IInv'
<1> DEFINE page == lastPage'
<1>1. /\ page \in Page /\ page.sequence = nextSequence /\ page.rows = rows[t]
      /\ page.first = rowsReturned + lost /\ page.first + rows[t] = position
      /\ rowsReturned' = rowsReturned + rows[t] /\ rowsReturned' <= MaxRows
      /\ page.truncated <=> rowsReturned' = MaxRows
      /\ page.done => done' /\ pending' = 0
      /\ page.done /\ rowsReturned' # MaxRows => done /\ pending = 0
      /\ rows[t] < PageRows => page.done
      /\ pending' \in Nat /\ pending' <= pending /\ done' \in BOOLEAN
      /\ (done => done') /\ (done' => done \/ rowsReturned' = MaxRows)
      /\ rowsReturned' = MaxRows => pending' = 0
  BY FinishFact
<1>2. /\ pc[t] = "reading" /\ \A u \in Task : pc[u] = "reading" => u = t
      /\ pc' = [pc EXCEPT ![t] = "idle"] /\ rows' = [rows EXCEPT ![t] = 0]
      /\ conn' = [conn EXCEPT ![t] = "owner"] /\ seq' = [seq EXCEPT ![t] = 0]
      /\ nextSequence' = nextSequence + 1 /\ served' = served \cup {page}
      /\ quiet' = 0
      /\ UNCHANGED <<total, inCache, position, idle, lost, failed>>
  BY DEF FinishPage, Leave, Goto, IInv, TypeOK
<1>3. /\ pc \in [Task -> Labels] /\ rows \in [Task -> Nat] /\ seq \in [Task -> Nat]
      /\ conn \in [Task -> Conn] /\ nextSequence \in Nat /\ rowsReturned \in Nat
      /\ lost \in Nat /\ position \in Nat /\ pending \in Nat /\ total \in Nat
      /\ rowsReturned <= MaxRows /\ MaxRows \in Nat /\ position + pending <= total
  BY DEF IInv, TypeOK, Labels, CapRespected, RowAccounting, CursorAssumption
<1>4. \A u \in Task : pc'[u] # "reading" /\ rows'[u] = 0
  BY <1>2, <1>3 DEF IInv, ReaderInv
<1>5. \A p \in served : /\ p \in Page /\ p.sequence \in Nat /\ p.first \in Nat
                        /\ p.rows \in Nat
                        /\ p.sequence < nextSequence
                        /\ p.first + p.rows <= page.first
                        /\ p.done => done /\ pending = 0 /\ rows[t] = 0
  BY <1>1 DEF IInv, TypeOK, Page, RetryIdempotent, PagesInv
<1>6. page.sequence \in Nat /\ page.first \in Nat /\ page.rows \in Nat
  BY <1>1, <1>3
<1>7. TypeOK'
  <2>1. /\ pc' \in [Task -> Labels] /\ rows' \in [Task -> Nat]
        /\ seq' \in [Task -> Nat] /\ conn' \in [Task -> Conn]
    BY <1>2, <1>3 DEF Labels, Conn
  <2>2. /\ nextSequence' \in Nat /\ rowsReturned' \in Nat /\ pending' \in Nat
        /\ 0 \in 0..Ttl
    BY <1>1, <1>2, <1>3 DEF CursorAssumption
  <2>3. served' \subseteq Page /\ lastPage' \in Page \cup {NoPage}
    BY <1>1, <1>2, <1>5
  <2>4. done' \in BOOLEAN /\ inCache' \in BOOLEAN /\ failed' \in BOOLEAN
        /\ idle' \in 0..Ttl
    BY <1>1, <1>2 DEF IInv, TypeOK
  <2> QED
    BY <1>2, <1>3, <1>4, <2>1, <2>2, <2>3, <2>4 DEF TypeOK, Labels
<1>8. RowAccounting'
  <2>1. position' + pending' <= total'
    <3>1. \A a, b, c, d \in Nat : b <= c /\ a + c <= d => a + b <= d
      OBVIOUS
    <3>2. /\ pending \in Nat /\ position \in Nat /\ total \in Nat
          /\ position + pending <= total
          /\ pending' \in Nat /\ pending' <= pending
      BY <1>1, <1>3
    <3>3. position + pending' <= total
      BY <3>1, <3>2
    <3> QED
      BY <3>3, <1>2
  <2>2. position' = rowsReturned' + lost'
    BY <1>1, <1>2, <1>3
  <2> QED
    BY <1>4, <2>1, <2>2 DEF RowAccounting
<1>9. RetryIdempotent'
  <2>1. nextSequence' = nextSequence + 1 /\ nextSequence' - 1 = nextSequence
    BY <1>2, <1>3
  <2>2. \A p, q \in served' : p.sequence = q.sequence => p = q
    BY <1>1, <1>2, <1>3, <1>5 DEF IInv, RetryIdempotent
  <2>3. \A p \in served' : p.sequence < nextSequence'
    BY <1>1, <1>2, <1>3, <1>5
  <2> QED
    BY <1>1, <1>2, <2>1, <2>2, <2>3 DEF RetryIdempotent
<1>10. InOrder'
  <2> SUFFICES ASSUME NEW p \in served', NEW q \in served', p.sequence < q.sequence
               PROVE  p.first + p.rows <= q.first
    BY DEF InOrder
  <2>1. CASE p \in served /\ q \in served
    BY <2>1 DEF IInv, InOrder
  <2>2. CASE p \in served /\ q = page
    BY <2>2, <1>5
  <2>3. CASE p = page
    BY <2>3, <1>1, <1>2, <1>3, <1>5
  <2> QED
    BY <2>1, <2>2, <2>3, <1>2
<1>11. CapRespected'
  <2>1. ASSUME NEW p \in served, p.truncated
        PROVE  rowsReturned' = MaxRows
    <3>1. rowsReturned = MaxRows
      BY <2>1 DEF IInv, CapRespected
    <3> QED
      BY <3>1, <1>1, <1>3
  <2> QED
    BY <2>1, <1>1, <1>2 DEF CapRespected
<1>12. PagesInv'
  <2>1. \A p \in served' : p.first + p.rows <= rowsReturned' + lost'
    BY <1>1, <1>2, <1>3, <1>5
  <2>2. \A p \in served' : p.done => done' /\ pending' = 0
    BY <1>1, <1>2, <1>3, <1>5
  <2> QED
    BY <2>1, <2>2, <1>4 DEF PagesInv
<1>13. EndIsTheEnd'
  <2>1. page.done /\ ~page.truncated /\ ~failed => page.first + page.rows = total
    <3> SUFFICES ASSUME page.done, ~page.truncated, ~failed
                 PROVE  page.first + page.rows = total
      OBVIOUS
    <3>1. rowsReturned' # MaxRows /\ done /\ pending = 0
      BY <1>1
    <3>2. rowsReturned # MaxRows
      <4>1. rowsReturned = MaxRows => rowsReturned' = MaxRows
        BY <1>1, <1>3
      <4> QED
        BY <3>1, <4>1
    <3>3. position = total
      BY <3>1, <3>2 DEF IInv, DoneInv
    <3> QED
      BY <3>3, <1>1
  <2>2. \A p \in served : p.done => page.rows = 0
    BY <1>1, <1>5
  <2>3. \A q \in served : ~(q.sequence > page.sequence)
    BY <1>1, <1>3, <1>5
  <2> SUFFICES ASSUME NEW p \in served'
               PROVE  /\ p.done /\ ~p.truncated /\ ~failed => p.first + p.rows = total
                      /\ p.rows < PageRows => p.done
                      /\ p.done => \A q \in served' :
                                     q.sequence > p.sequence => q.rows = 0
    BY <1>2 DEF EndIsTheEnd
  <2>4. CASE p \in served
    BY <2>2, <2>4, <1>2 DEF IInv, EndIsTheEnd
  <2>5. CASE p = page
    <3>1. ~(page.sequence > page.sequence)
      BY <1>6
    <3> QED
      BY <2>1, <2>3, <2>5, <3>1, <1>1, <1>2
  <2> QED
    BY <2>4, <2>5, <1>2
<1>14. FailureRemoves' /\ LastPageInv' /\ ReaderInv'
  <2>1. FailureRemoves'
    BY <1>2, <1>3 DEF IInv, FailureRemoves
  <2>2. LastPageInv'
    BY <1>2, <1>3 DEF LastPageInv
  <2>3. ReaderInv'
    BY <1>4 DEF ReaderInv
  <2> QED
    BY <2>1, <2>2, <2>3
<1>15. DoneInv'
  <2>1. CASE rowsReturned' = MaxRows
    BY <2>1 DEF DoneInv
  <2>2. CASE rowsReturned' # MaxRows
    <3>1. rowsReturned # MaxRows
      <4>1. rowsReturned = MaxRows => rowsReturned' = MaxRows
        BY <1>1, <1>3
      <4> QED
        BY <2>2, <4>1
    <3>2. pending = 0 => pending' = 0
      BY <1>1, <1>3
    <3> QED
      BY <1>1, <1>2, <2>2, <3>1, <3>2 DEF IInv, DoneInv
  <2> QED
    BY <2>1, <2>2
<1> QED
  BY <1>7, <1>8, <1>9, <1>10, <1>11, <1>12, <1>13, <1>14, <1>15 DEF IInv

LEMMA StepInv ==
    ASSUME CursorAssumption, IInv, [Next]_vars
    PROVE  IInv'
<1>1. CASE UNCHANGED vars
  <2> USE <1>1 DEF vars, cursor, request, history
  <2>1. TypeOK'
    BY DEF IInv, TypeOK
  <2>2. RowAccounting' /\ RetryIdempotent' /\ InOrder' /\ EndIsTheEnd' /\ CapRespected'
    BY DEF IInv, RowAccounting, RetryIdempotent, InOrder, EndIsTheEnd,
           CapRespected, Unlocked
  <2>3. FailureRemoves' /\ ReaderInv' /\ PagesInv' /\ DoneInv' /\ LastPageInv'
    BY DEF IInv, FailureRemoves, ReaderInv, PagesInv, DoneInv, LastPageInv,
           PageSize, AtMost
  <2> QED
    BY <2>1, <2>2, <2>3 DEF IInv
<1>2. ASSUME NEW t \in Task, RequestPage(t) \/ RequestCancel(t)
      PROVE  IInv'
  <2>1. \A s \in 0..MaxSequence : s \in Nat
    BY DEF CursorAssumption
  <2>2. "waiting" \in Waiting /\ "cancelWaiting" \in Waiting
    BY DEF Waiting
  <2> QED
    BY <1>2, <2>1, <2>2, LookupInv DEF RequestPage, RequestCancel
<1>3. ASSUME NEW t \in Task, LockStep(t)
      PROVE  IInv'
  BY <1>3, RejectInv, RepeatInv, StartInv, CancelInv DEF LockStep
<1>4. ASSUME NEW t \in Task, ReadStep(t)
      PROVE  IInv'
  BY <1>4, TakeInv, PollInv, FinishInv DEF ReadStep
<1> QED
  BY <1>1, <1>2, <1>3, <1>4, RemoveInv, ErrorInv, DisconnectInv, OutsideInv
  DEF Next, Handler

-----------------------------------------------------------------------------
(* Theorems *)

LEMMA InvariantHolds == Spec => []IInv
<1>1. CursorAssumption
  BY CursorAssumption
<1>2. Init => IInv
  BY <1>1, InitInv
<1>3. IInv /\ [Next]_vars => IInv'
  BY <1>1, StepInv
<1> QED
  BY <1>2, <1>3, PTL DEF Spec

\* The fields of the cursor keep their types and one handler at a time is past
\* the lock (query.rs:230-321).
THEOREM TypeCorrect == Spec => []TypeOK
<1>1. IInv => TypeOK
  BY DEF IInv
<1> QED
  BY <1>1, InvariantHolds, PTL

\* No row is forgotten or counted twice between the stream, the pending batch,
\* the reading handler and the answers (query.rs:262-321).
THEOREM RowsAccounted == Spec => []RowAccounting
<1>1. IInv => RowAccounting
  BY DEF IInv
<1> QED
  BY <1>1, InvariantHolds, PTL

\* One page for one sequence, whatever is retried, duplicated, dropped or
\* raced; the latest one can be had again (query.rs:248-260, 318-319).
THEOREM RetriesIdempotent == Spec => []RetryIdempotent
<1>1. IInv => RetryIdempotent
  BY DEF IInv
<1> QED
  BY <1>1, InvariantHolds, PTL

\* Pages are served in the order of the result and share no row.
THEOREM PagesInOrder == Spec => []InOrder
<1>1. IInv => InOrder
  BY DEF IInv
<1> QED
  BY <1>1, InvariantHolds, PTL

\* `done` tells the end of the result, as long as the query has not failed; a
\* short page is always marked done, and no rows follow a done page, failed or not
\* (query.rs:305-317).  EndsAreTrue says when the first holds of a failed query.
THEOREM EndAnnounced == Spec => []EndIsTheEnd
<1>1. IInv => EndIsTheEnd
  BY DEF IInv
<1> QED
  BY <1>1, InvariantHolds, PTL

\* The cap on returned rows holds and `truncated` goes with it.
THEOREM CapHolds == Spec => []CapRespected
<1>1. IInv => CapRespected
  BY DEF IInv
<1> QED
  BY <1>1, InvariantHolds, PTL

\* The handler that met an error is on its way to remove the cursor, or the
\* cursor is gone (query.rs:280-284, 294-299).
THEOREM FailuresRemove == Spec => []FailureRemoves
<1>1. IInv => FailureRemoves
  BY DEF IInv
<1> QED
  BY <1>1, InvariantHolds, PTL

-----------------------------------------------------------------------------
(* The contract, under every fault *)

\* Some fault lets a request go down while rows may still come.
LossyFaults == Faults \cap {"disconnect", "serialize"} # {}

\* One page per sequence so far; when only the stream can fail, nothing is left
\* to serve after that.
CInv ==
    /\ IsFiniteSet(served) /\ Cardinality(served) = nextSequence
    /\ failed => done
    /\ failed /\ ~LossyFaults => pending = 0 /\ \A t \in Task : rows[t] = 0
    /\ total \in 0..MaxTotal

LEMMA CInit == CursorAssumption /\ Init => CInv
  BY FS_EmptySet DEF CursorAssumption, Init, CInv

\* The page FinishPage adds is the next page of the contract.
LEMMA FinishRefines ==
    ASSUME CursorAssumption, IInv, CInv, NEW t \in Task, FinishPage(t)
    PROVE  Contract!ServePage /\ CInv'
<1> DEFINE page == lastPage'
           n == rows[t]
<1>1. /\ page \in Page /\ page.sequence = nextSequence /\ page.rows = n
      /\ page.first = rowsReturned + lost /\ page.first + n = position
      /\ rowsReturned' = rowsReturned + n /\ rowsReturned' <= MaxRows
      /\ page.truncated <=> rowsReturned' = MaxRows
      /\ page.done => done' /\ pending' = 0
      /\ page.done /\ rowsReturned' # MaxRows => done /\ pending = 0
      /\ n < PageRows => page.done
      /\ pending' \in Nat /\ pending' <= pending /\ done' \in BOOLEAN
      /\ (done => done') /\ (done' => done \/ rowsReturned' = MaxRows)
      /\ rowsReturned' = MaxRows => pending' = 0
  BY FinishFact
<1>2. /\ served' = served \cup {page} /\ nextSequence' = nextSequence + 1
      /\ rows' = [rows EXCEPT ![t] = 0]
      /\ UNCHANGED <<total, position, lost, failed>>
  BY DEF FinishPage, Leave
<1>3. /\ n \in Nat /\ rowsReturned \in Nat /\ nextSequence \in Nat /\ total \in Nat
      /\ position \in Nat /\ pending \in Nat /\ position <= total /\ lost \in Nat
      /\ rowsReturned <= MaxRows /\ MaxRows \in Nat /\ PageRows \in Nat
      /\ rowsReturned + n + lost <= total
  <2>1. /\ n \in Nat /\ rowsReturned \in Nat /\ nextSequence \in Nat /\ total \in Nat
        /\ position \in Nat /\ pending \in Nat /\ position <= total /\ lost \in Nat
        /\ rowsReturned <= MaxRows /\ MaxRows \in Nat /\ PageRows \in Nat
    BY DEF IInv, TypeOK, RowAccounting, CapRespected, CursorAssumption
  <2> QED
    BY <2>1, <1>1
<1>4. n \in 0..PageRows
  <2>1. n <= PageSize /\ PageSize \in Nat /\ PageSize <= PageRows
    BY <1>3, PageSizeFact DEF IInv, ReaderInv, FinishPage
  <2> QED
    BY <2>1, <1>3
<1>5. page \notin served /\ page.sequence = Cardinality(served)
  BY <1>1, <1>3 DEF IInv, RetryIdempotent, CInv, TypeOK, Page
<1>6. CInv'
  <2>1. IsFiniteSet(served') /\ Cardinality(served') = nextSequence'
    BY <1>2, <1>5, FS_AddElement DEF CInv
  <2>2. failed' => done'
    BY <1>1, <1>2, <1>3 DEF CInv
  <2>3. failed' /\ ~LossyFaults => pending' = 0
    BY <1>1, <1>2, <1>3 DEF CInv
  <2>4. \A u \in Task : rows[u] = 0 => rows'[u] = 0
    BY <1>2 DEF IInv, TypeOK
  <2> QED
    BY <2>1, <2>2, <2>3, <2>4, <1>2 DEF CInv, LossyFaults
<1>7. Contract!ServePage
  <2>1. failed /\ ~LossyFaults => n = 0
    BY DEF CInv
  <2>2. rowsReturned + n <= Contract!Bound
    BY <1>1, <1>3 DEF Contract!Bound
  <2>3. ASSUME ~failed, page.done
        PROVE  rowsReturned + n = Contract!Bound
    <3>1. CASE rowsReturned' = MaxRows
      BY <3>1, <1>1, <1>3 DEF Contract!Bound
    <3>2. CASE rowsReturned' # MaxRows
      <4>1. done /\ pending = 0
        BY <2>3, <3>2, <1>1
      <4>2. rowsReturned # MaxRows
        <5>1. rowsReturned = MaxRows => rowsReturned' = MaxRows
          BY <1>1, <1>3
        <5> QED
          BY <3>2, <5>1
      <4>3. position = total
        BY <2>3, <4>1, <4>2 DEF IInv, DoneInv
      <4> QED
        BY <4>3, <1>1, <1>3 DEF Contract!Bound
    <3> QED
      BY <3>1, <3>2
  <2>4. page.done \in BOOLEAN /\ page.truncated = (rowsReturned + n = MaxRows)
    BY <1>1 DEF Page
  <2>5. page = [sequence |-> Contract!Cardinality(served),
                first |-> rowsReturned + lost, rows |-> n, done |-> page.done,
                truncated |-> rowsReturned + n = MaxRows]
    <3>1. Contract!Cardinality(served) = Cardinality(served)
      BY DEF Contract!Cardinality, Cardinality
    <3> QED
      BY <3>1, <2>4, <1>1, <1>5 DEF Page
  <2> HIDE DEF n, page
  <2>6. n < PageRows => page.done
    BY <1>1
  <2> QED
    BY <1>1, <1>2, <1>4, <2>1, <2>2, <2>3, <2>4, <2>5, <2>6
    DEF Contract!ServePage, LossyFaults
<1> QED
  BY <1>6, <1>7

\* What a handler holds, and what it takes while a row fails to serialize, is
\* no more than a page and was in nobody's page yet.
LEMMA HeldFact ==
    ASSUME CursorAssumption, IInv, NEW t \in Task, pc[t] = "reading"
    PROVE  /\ rows[t] \in Nat /\ lost \in Nat /\ rowsReturned \in Nat
           /\ total \in Nat /\ rows[t] <= PageRows
           /\ rowsReturned + (lost + rows[t]) <= total
           /\ Taking(t) => /\ Slice(t) \in Nat /\ rows[t] + Slice(t) <= PageRows
                           /\ rowsReturned + (lost + rows[t] + Slice(t)) <= total
<1>1. /\ rows[t] \in Nat /\ lost \in Nat /\ rowsReturned \in Nat /\ total \in Nat
      /\ pending \in Nat /\ position \in Nat /\ position + pending <= total
      /\ position = rowsReturned + lost + rows[t]
  BY DEF IInv, TypeOK, RowAccounting
<1>2. PageSize \in Nat /\ PageSize <= PageRows /\ rows[t] <= PageSize
      /\ PageRows \in Nat
  BY PageSizeFact DEF IInv, ReaderInv, CursorAssumption, TypeOK, CapRespected
<1>3. Taking(t) => Slice(t) \in Nat /\ Slice(t) <= pending
                   /\ rows[t] + Slice(t) <= PageSize
  BY <1>1, <1>2 DEF Slice, AtMost, Taking
<1> QED
  BY <1>1, <1>2, <1>3

\* Every other step stutters in the contract, or loses rows, or breaks it off.
LEMMA StepRefines ==
    ASSUME CursorAssumption, IInv, CInv, [Next]_vars
    PROVE  [Contract!Next]_(Contract!vars) /\ CInv'
<1> DEFINE Same == UNCHANGED <<total, served, rowsReturned, lost, failed>>
<1>1. ASSUME Same, UNCHANGED nextSequence, failed => done',
             failed /\ ~LossyFaults =>
                 pending' = 0 /\ \A u \in Task : rows[u] = 0 => rows'[u] = 0
      PROVE  [Contract!Next]_(Contract!vars) /\ CInv'
  <2>1. Contract!vars' = Contract!vars
    BY <1>1 DEF Contract!vars
  <2>2. CInv'
    BY <1>1 DEF CInv, LossyFaults
  <2> QED
    BY <2>1, <2>2
<1>2. ASSUME NEW t \in Task, Leave(t)
      PROVE  \A u \in Task : rows[u] = 0 => rows'[u] = 0
  BY <1>2 DEF Leave, IInv, TypeOK
<1>3. CASE UNCHANGED vars
  BY <1>3, <1>1 DEF vars, cursor, history, CInv
<1>4. CASE Evict \/ Tick
  BY <1>4, <1>1 DEF Evict, Tick, cursor, history, CInv
<1>5. ASSUME NEW t \in Task, RequestPage(t) \/ RequestCancel(t)
      PROVE  [Contract!Next]_(Contract!vars) /\ CInv'
  BY <1>5, <1>1 DEF RequestPage, RequestCancel, Lookup, cursor, history, CInv
<1>6. ASSUME NEW t \in Task, LockStep(t) \/ Remove(t)
      PROVE  [Contract!Next]_(Contract!vars) /\ CInv'
  <2>1. CASE Reject(t)
    BY <2>1, <1>1 DEF Reject, cursor, history, CInv
  <2>2. CASE RepeatPage(t)
    <3>1. served' = served
      BY <2>2 DEF RepeatPage, Repeats, IInv, RetryIdempotent, LastPageInv
    <3> QED
      BY <2>2, <3>1, <1>1, <1>2 DEF RepeatPage, CInv
  <2>3. CASE RefusePage(t)
    BY <2>3, <1>1, <1>2 DEF RefusePage, CInv
  <2>4. CASE StartPage(t)
    BY <2>4, <1>1 DEF StartPage, CInv
  <2>5. CASE Cancel(t)
    BY <2>5, <1>1, <1>2 DEF Cancel, cursor, history, CInv
  <2>6. CASE Remove(t)
    BY <2>6, <1>1, <1>2 DEF Remove, cursor, history, CInv
  <2> QED
    BY <1>6, <2>1, <2>2, <2>3, <2>4, <2>5, <2>6 DEF LockStep
<1>7. ASSUME NEW t \in Task, ReadStep(t)
      PROVE  [Contract!Next]_(Contract!vars) /\ CInv'
  <2>1. CASE TakeRows(t)
    <3>1. /\ Same /\ UNCHANGED <<done, nextSequence>> /\ pending > 0
      BY <2>1 DEF TakeRows, Taking, history
    <3>2. ~(failed /\ ~LossyFaults)
      BY <3>1 DEF CInv
    <3> QED
      BY <3>1, <3>2, <1>1 DEF CInv
  <2>2. CASE StreamBatch(t) \/ StreamEnd(t)
    <3>1. ~failed /\ Same /\ UNCHANGED nextSequence
      BY <2>2 DEF StreamBatch, StreamEnd, Polling, history, CInv
    <3> QED
      BY <3>1, <1>1
  <2>3. CASE FinishPage(t)
    BY <2>3, FinishRefines DEF Contract!Next
  <2> QED
    BY <1>7, <2>1, <2>2, <2>3 DEF ReadStep
<1>8. ASSUME NEW t \in Task, Disconnect(t)
      PROVE  [Contract!Next]_(Contract!vars) /\ CInv'
  <2>1. /\ lost' = lost + rows[t] /\ LossyFaults /\ Leave(t)
        /\ UNCHANGED <<total, served, rowsReturned, failed, nextSequence, done>>
    BY <1>8 DEF Disconnect, cursor, LossyFaults
  <2>2. CInv'
    BY <2>1 DEF CInv, LossyFaults
  <2>3. CASE pc[t] \in Waiting
    <3>1. rows[t] = 0 /\ lost \in Nat
      BY <2>3 DEF IInv, ReaderInv, TypeOK, Waiting
    <3>2. lost' = lost
      BY <3>1, <2>1
    <3> QED
      BY <3>2, <2>1, <2>2 DEF Contract!vars
  <2>4. CASE Polling(t)
    <3>1. /\ rows[t] \in Nat /\ lost \in Nat /\ rowsReturned \in Nat
          /\ total \in Nat /\ rows[t] <= PageRows /\ PageRows \in Nat
          /\ rowsReturned + (lost + rows[t]) <= total
      BY <2>4, HeldFact DEF Polling, CursorAssumption
    <3>2. lost' \in lost..(lost + PageRows) /\ rowsReturned + lost' <= total
      BY <3>1, <2>1
    <3>3. ~failed
      BY <2>4 DEF Polling, CInv
    <3> QED
      BY <3>2, <3>3, <2>1, <2>2
      DEF Contract!Next, Contract!Lose, Contract!GoesDown, LossyFaults
  <2> QED
    BY <1>8, <2>3, <2>4 DEF Disconnect
<1>9. ASSUME NEW t \in Task, SerializeError(t)
      PROVE  [Contract!Next]_(Contract!vars) /\ CInv'
  <2>1. /\ lost' = lost + rows[t] + Slice(t) /\ LossyFaults /\ Taking(t)
        /\ UNCHANGED <<total, served, rowsReturned, nextSequence>>
        /\ failed' = TRUE /\ done' = TRUE
    BY <1>9 DEF SerializeError, Fail, LossyFaults
  <2>2. CInv'
    BY <2>1 DEF CInv, LossyFaults
  <2>3. /\ rows[t] \in Nat /\ lost \in Nat /\ rowsReturned \in Nat /\ total \in Nat
        /\ Slice(t) \in Nat /\ rows[t] + Slice(t) <= PageRows /\ PageRows \in Nat
        /\ rowsReturned + (lost + rows[t] + Slice(t)) <= total
    BY <2>1, HeldFact DEF Taking, CursorAssumption
  <2>4. lost' \in lost..(lost + PageRows) /\ rowsReturned + lost' <= total
    BY <2>1, <2>3
  <2> QED
    BY <2>1, <2>2, <2>4 DEF Contract!Next, Contract!Break, Contract!GoesDown
<1>10. ASSUME NEW t \in Task, StreamError(t)
       PROVE  [Contract!Next]_(Contract!vars) /\ CInv'
  <2>1. /\ lost' = lost + rows[t] + 0 /\ Polling(t) /\ pending' = pending
        /\ UNCHANGED <<total, served, rowsReturned, nextSequence>>
        /\ failed' = TRUE /\ done' = TRUE
    BY <1>10 DEF StreamError, Fail
  <2>2. \A u \in Task : rows'[u] = 0
    <3>1. \A u \in Task : pc[u] = "reading" => u = t
      BY <2>1 DEF Polling, IInv, TypeOK
    <3> QED
      BY <3>1, <1>10 DEF StreamError, Fail, IInv, TypeOK, ReaderInv
  <2>3. CInv'
    BY <2>1, <2>2 DEF Polling, CInv
  <2>4. /\ rows[t] \in Nat /\ lost \in Nat /\ rowsReturned \in Nat /\ total \in Nat
        /\ rows[t] <= PageRows /\ PageRows \in Nat
        /\ rowsReturned + (lost + rows[t]) <= total
    BY <2>1, HeldFact DEF Polling, CursorAssumption
  <2>5. lost' \in lost..(lost + PageRows) /\ rowsReturned + lost' <= total
    BY <2>1, <2>4
  <2> QED
    BY <2>1, <2>3, <2>5 DEF Contract!Next, Contract!Break, Contract!GoesDown
<1> QED
  BY <1>3, <1>4, <1>5, <1>6, <1>7, <1>8, <1>9, <1>10 DEF Next, Handler

\* Concurrent handlers, retries, cancellations, evictions, disconnects and
\* errors keep the contract of the pages (README.md:193-206, query.rs:221-335).
THEOREM ContractKept == Spec => KeepsContract
<1>1. CursorAssumption
  BY CursorAssumption
<1>2. Init => CInv /\ Contract!Init
  BY <1>1, CInit DEF Init, Contract!Init
<1>3. IInv /\ CInv /\ [Next]_vars => [Contract!Next]_(Contract!vars) /\ CInv'
  BY <1>1, StepRefines
<1> QED
  BY <1>2, <1>3, InvariantHolds, PTL DEF Spec, KeepsContract, Contract!Spec

-----------------------------------------------------------------------------
(* What holds of the pages when less can go wrong *)

\* Before a failure no row is lost, and the latest page ends where the next begins.
NoGap ==
    /\ NoRowSkipped
    /\ ~failed =>
        /\ lost = 0
        /\ \/ nextSequence = 0 /\ rowsReturned = 0
           \/ \E p \in served :
                 p.sequence + 1 = nextSequence /\ p.first + p.rows = rowsReturned

\* The contract alone keeps it, when it allows no loss.
LEMMA NoGapKept ==
    ASSUME CursorAssumption, IInv, CInv, CInv', ~LossyFaults, NoGap,
           [Contract!Next]_(Contract!vars)
    PROVE  NoGap'
<1>0. nextSequence \in Nat /\ rowsReturned \in Nat /\ lost \in Nat
  BY DEF IInv, TypeOK
<1>1. CASE Contract!vars' = Contract!vars
  <2>1. UNCHANGED <<served, rowsReturned, lost, failed>>
    BY <1>1 DEF Contract!vars
  <2>2. nextSequence' = nextSequence
    BY <2>1 DEF CInv
  <2> QED
    BY <2>1, <2>2 DEF NoGap, NoRowSkipped
<1>2. CASE Contract!ServePage
  <2>1. PICK n \in 0..PageRows, d \in BOOLEAN :
          /\ failed => n = 0
          /\ served' = served \cup
               {[sequence |-> Contract!Cardinality(served), first |-> rowsReturned + lost,
                 rows |-> n, done |-> d, truncated |-> rowsReturned + n = MaxRows]}
          /\ rowsReturned' = rowsReturned + n
          /\ UNCHANGED <<total, lost, failed>>
    BY <1>2 DEF Contract!ServePage, LossyFaults
  <2> DEFINE q == [sequence |-> Contract!Cardinality(served), first |-> rowsReturned + lost,
                   rows |-> n, done |-> d, truncated |-> rowsReturned + n = MaxRows]
  <2>2. q.sequence = nextSequence /\ q.first = rowsReturned + lost /\ q.rows = n
    <3>1. Contract!Cardinality(served) = Cardinality(served)
      BY DEF Contract!Cardinality, Cardinality
    <3> QED
      BY <3>1 DEF CInv
  <2>3. served' = served \cup {q}
    BY <2>1
  <2> HIDE DEF q
  <2>4. nextSequence' = nextSequence + 1
    <3>1. q \notin served
      BY <1>0, <2>2 DEF IInv, RetryIdempotent
    <3>2. Cardinality(served') = Cardinality(served) + 1
      BY <2>3, <3>1, FS_AddElement DEF CInv
    <3> QED
      BY <3>2 DEF CInv
  <2>5. \/ q.rows = 0 \/ (q.sequence = 0 /\ q.first = 0)
        \/ \E p \in served : p.sequence + 1 = q.sequence /\ p.first + p.rows = q.first
    BY <1>0, <2>1, <2>2 DEF NoGap
  <2>6. NoRowSkipped'
    BY <2>3, <2>5 DEF NoGap, NoRowSkipped
  <2>7. ~failed => lost = 0 /\ q.sequence + 1 = nextSequence' /\ q.first + q.rows = rowsReturned'
    BY <1>0, <2>1, <2>2, <2>4 DEF NoGap
  <2> QED
    BY <2>1, <2>3, <2>6, <2>7 DEF NoGap
<1>3. CASE Contract!Lose
  BY <1>3 DEF Contract!Lose, LossyFaults
<1>4. CASE Contract!Break
  <2>1. served' = served /\ failed' = TRUE
    BY <1>4 DEF Contract!Break, Contract!GoesDown
  <2> QED
    BY <2>1 DEF NoGap, NoRowSkipped
<1> QED
  BY <1>1, <1>2, <1>3, <1>4 DEF Contract!Next

\* Rows are skipped only by a handler that was dropped or whose rows failed to
\* serialize: with other faults each page starts where the one before ended,
\* as README.md:218-220 has it.
THEOREM OnlyDroppedRowsSkipped ==
    ASSUME ~LossyFaults
    PROVE  Spec => []NoRowSkipped
<1>1. CursorAssumption
  BY CursorAssumption
<1>2. Init => CInv /\ NoGap
  BY <1>1, CInit DEF Init, NoGap, NoRowSkipped
<1>3. IInv /\ CInv /\ NoGap /\ [Next]_vars => CInv' /\ NoGap'
  BY <1>1, StepRefines, NoGapKept
<1>4. NoGap => NoRowSkipped
  BY DEF NoGap
<1> QED
  BY <1>2, <1>3, <1>4, InvariantHolds, PTL DEF Spec

\* After a failure the one handler there is removes the cursor, or has done so.
Invalidated ==
    failed => \A t \in Task : pc[t] = "failing" \/ (pc[t] = "idle" /\ ~inCache)

LEMMA FailedIsRemoved ==
    ASSUME \A t, u \in Task : t = u, IInv, Invalidated, [Next]_vars
    PROVE  Invalidated' /\ (failed => served' = served)
<1>1. CASE UNCHANGED vars
  BY <1>1 DEF vars, history, Invalidated
<1>2. CASE Evict \/ Tick
  BY <1>2 DEF Evict, Tick, cursor, history, Invalidated
<1>3. ASSUME NEW t \in Task, Handler(t)
      PROVE  Invalidated' /\ (failed => served' = served)
  <2>0. pc \in [Task -> {"idle", "reading"} \cup Waiting \cup Removing]
    BY DEF IInv, TypeOK
  <2>1. CASE Remove(t)
    BY <1>3, <2>0, <2>1 DEF Remove, Leave, Goto, history, Invalidated, Removing
  <2>2. CASE SerializeError(t) \/ StreamError(t)
    BY <1>3, <2>0, <2>2
    DEF SerializeError, StreamError, Taking, Polling, Fail, Goto, Invalidated
  <2>3. CASE ~Remove(t) /\ ~(SerializeError(t) \/ StreamError(t))
    <3>1. ~failed /\ failed' = failed
      BY <1>3, <2>0, <2>3
      DEF Handler, RequestPage, RequestCancel, Lookup, LockStep, ReadStep, Reject, RepeatPage,
          RefusePage, StartPage, Cancel, TakeRows, StreamBatch, StreamEnd, FinishPage,
          Disconnect, Taking, Polling, Waiting, history, Invalidated
    <3> QED
      BY <3>1 DEF Invalidated
  <2> QED
    BY <2>1, <2>2, <2>3
<1> QED
  BY <1>1, <1>2, <1>3 DEF Next

\* To a client whose requests are handled one after the other a failed cursor
\* serves no page any more, as README.md:221-222 has it.
THEOREM FailedServeNothing ==
    ASSUME \A t, u \in Task : t = u
    PROVE  Spec => FailedServesNothing
<1>1. Init => Invalidated
  BY DEF Init, Invalidated
<1>2. IInv /\ Invalidated /\ [Next]_vars => Invalidated' /\ [failed => served' = served]_vars
  BY FailedIsRemoved
<1> QED
  BY <1>1, <1>2, InvariantHolds, PTL DEF Spec, FailedServesNothing

\* The query itself has no error to meet.
NoFailure == Faults \cap {"stream", "serialize"} = {}

\* Only an error makes a query fail, and no page is served by it.
LEMMA FailingStep ==
    ASSUME IInv, [Next]_vars, ~failed, failed'
    PROVE  ~NoFailure /\ served' = served
<1>1. CASE UNCHANGED vars
  BY <1>1 DEF vars, history
<1>2. CASE Evict \/ Tick
  BY <1>2 DEF Evict, Tick, cursor, history
<1>3. ASSUME NEW t \in Task, Handler(t)
      PROVE  ~NoFailure /\ served' = served
  <2>1. CASE SerializeError(t) \/ StreamError(t)
    BY <2>1 DEF SerializeError, StreamError, Fail, NoFailure
  <2>2. CASE ~(SerializeError(t) \/ StreamError(t))
    BY <1>3, <2>2
    DEF Handler, RequestPage, RequestCancel, Lookup, LockStep, ReadStep, Reject, RepeatPage,
        RefusePage, StartPage, Cancel, TakeRows, StreamBatch, StreamEnd, FinishPage,
        Disconnect, Remove, history
  <2> QED
    BY <2>1, <2>2
<1> QED
  BY <1>1, <1>2, <1>3 DEF Next

LEMMA TotalStays ==
    ASSUME [Next]_vars
    PROVE  total' = total
BY DEF Next, vars, Evict, Tick, Handler, RequestPage, RequestCancel, Lookup, LockStep, ReadStep,
       Reject, RepeatPage, RefusePage, StartPage, Cancel, TakeRows, StreamBatch, StreamEnd,
       FinishPage, SerializeError, StreamError, Fail, Disconnect, Remove, cursor, history

\* A page that is told to be the last of a result not cut at the cap ends with the
\* last row of the query, provided the query cannot fail or requests are handled one
\* after the other.  With two handlers a failing cursor may tell an end that is none
\* (MCSqlCursor_end.cfg).
THEOREM EndsAreTrue ==
    ASSUME NoFailure \/ \A t, u \in Task : t = u
    PROVE  Spec => []EndIsTrue
<1> DEFINE Inv == EndIsTrue /\ (NoFailure => ~failed) /\ (~NoFailure => Invalidated)
<1>1. Init => Inv
  BY DEF Init, EndIsTrue, Invalidated
<1>2. IInv /\ IInv' /\ Inv /\ [Next]_vars => Inv'
  <2> SUFFICES ASSUME IInv, IInv', Inv, [Next]_vars PROVE Inv'
    OBVIOUS
  <2>1. CASE NoFailure
    <3>1. ~failed'
      BY <2>1, FailingStep
    <3>2. EndIsTrue'
      BY <3>1 DEF IInv, EndIsTheEnd, EndIsTrue
    <3> QED
      BY <2>1, <3>1, <3>2 DEF NoFailure
  <2>2. CASE ~NoFailure
    <3>1. Invalidated' /\ (failed => served' = served)
      BY <2>2, FailedIsRemoved
    <3>2. CASE ~failed'
      <4>1. EndIsTrue'
        BY <3>2 DEF IInv, EndIsTheEnd, EndIsTrue
      <4> QED
        BY <2>2, <3>1, <4>1 DEF NoFailure
    <3>3. CASE failed'
      <4>1. served' = served
        BY <3>1, <3>3, FailingStep
      <4>2. EndIsTrue'
        BY <4>1, TotalStays DEF EndIsTrue
      <4> QED
        BY <2>2, <3>1, <4>2 DEF NoFailure
    <3> QED
      BY <3>2, <3>3
  <2> QED
    BY <2>1, <2>2
<1>3. Inv => EndIsTrue
  OBVIOUS
<1> QED
  BY <1>1, <1>2, <1>3, InvariantHolds, PTL DEF Spec
=============================================================================
