---------------------------- MODULE PagedResult -----------------------------
(***************************************************************************)
(* What the reader of a query result can rely on: its rows come in pages,   *)
(* numbered from 0, each starting where the one before ended, or after the  *)
(* rows that went down with a request in between; a page asked for again is *)
(* the same page; the last page says so; no more than MaxRows rows come,    *)
(* and a result cut there is marked as truncated.                           *)
(* How the rows reach the server, who asks and when is left open.           *)
(***************************************************************************)
EXTENDS Naturals, FiniteSets

CONSTANTS
    PageRows, MaxRows, MaxTotal,
    Lossy       \* whether a request may go down with the rows it had taken

VARIABLES
    total,      \* rows of the complete result
    served,     \* the pages handed out
    returned,   \* rows in them
    lost,       \* rows that went down with a request
    broken      \* the query failed half way

vars == <<total, served, returned, lost, broken>>

Init ==
    /\ total \in 0..MaxTotal
    /\ served = {} /\ returned = 0 /\ lost = 0 /\ broken = FALSE

Bound == IF total - lost <= MaxRows THEN total - lost ELSE MaxRows

\* The next page holds all that fits.  Of a broken query nothing comes any
\* more, except what was already taken when a request could go down.
ServePage ==
    \E n \in 0..PageRows, d \in BOOLEAN :
        /\ returned + n <= Bound
        /\ n < PageRows => d
        /\ d /\ ~broken => returned + n = Bound
        /\ broken /\ ~Lossy => n = 0
        /\ served' = served \cup
             {[sequence |-> Cardinality(served), first |-> returned + lost,
               rows |-> n, done |-> d, truncated |-> returned + n = MaxRows]}
        /\ returned' = returned + n
        /\ UNCHANGED <<total, lost, broken>>

\* No more than a page goes down at once, and never a row already served.
GoesDown ==
    /\ lost' \in lost..(lost + PageRows)
    /\ returned + lost' <= total
    /\ UNCHANGED <<total, served, returned>>

Lose == Lossy /\ ~broken /\ GoesDown /\ UNCHANGED broken

Break == broken' = TRUE /\ GoesDown

Next == ServePage \/ Lose \/ Break

Spec == Init /\ [][Next]_vars
=============================================================================
