----------------------------- MODULE SqlClient ------------------------------
(***************************************************************************)
(* The SQL view of the browser (frontend/src/components/SqlQueryView.tsx)   *)
(* with the network and the cursors it has on the server.  The component    *)
(* keeps refs, which every callback sees at once, and React state, which    *)
(* callbacks see as of the last render: `ui` is the state set, `view` the   *)
(* state rendered.                                                          *)
(*                                                                         *)
(* The server answers at the grain of PagedResult: a page at a time, the    *)
(* latest one again, anything else refused.  A run of a statement starts at *)
(* most one cursor, so a cursor has the number of its run, and page n of    *)
(* cursor c is the pair <<c, n>>.                                           *)
(***************************************************************************)
EXTENDS Naturals, Sequences, FiniteSets

CONSTANTS
    MaxRuns,        \* bound: values of generation
    MaxPages,       \* bound: pages of a result
    MaxFaults,      \* bound: network errors and cursors lost by the server
    None            \* undefined, and the answer not yet given

ASSUME ClientAssumption ==
    /\ MaxRuns \in Nat \ {0} /\ MaxPages \in Nat \ {0} /\ MaxFaults \in Nat
    /\ None \notin Nat \cup {"started", "page", "gone", "refused"}

VARIABLES
    mounted, generation, cursor, nextSequence, loading,     \* refs
    ui,             \* React state
    view,           \* React state of the last render
    fetches,        \* HTTP requests that are not over, request.current is `latest`
    cancels,        \* cursors with a cancel request under way
    serverNext,     \* next sequence of each cursor the server has, else None
    pages,          \* pages of each result
    faults          \* faults so far

refs == <<mounted, generation, cursor, nextSequence, loading>>
server == <<serverNext, pages>>
vars == <<refs, ui, view, fetches, cancels, server, faults>>

Cursors == 1..MaxRuns
Live == {c \in Cursors : serverNext[c] # None}
Heard == {f \in fetches : f.heard}

Blank == [data |-> None, error |-> FALSE, streaming |-> FALSE, hasMore |-> TRUE,
          retryRequired |-> FALSE, rerunRequired |-> FALSE]

Init ==
    /\ mounted = TRUE /\ generation = 0 /\ cursor = None /\ nextSequence = 0
    /\ loading = FALSE
    /\ ui = Blank /\ view = Blank
    /\ fetches = {} /\ cancels = {}
    /\ serverNext = [c \in Cursors |-> None]
    /\ pages \in [Cursors -> 1..MaxPages]
    /\ faults = 0

-----------------------------------------------------------------------------
(* The component *)

\* A fetch under a new controller, which request.current then holds, added to
\* the others; it is listened to until it is aborted.
Fetch(others, kind, run, of, sequence) ==
    {[f EXCEPT !.latest = FALSE] : f \in others}
        \cup {[kind |-> kind, run |-> run, cursor |-> of, sequence |-> sequence,
               latest |-> TRUE, heard |-> TRUE, answer |-> None]}

\* A request nobody listens to any more may still be on its way to the server.
Unheard(f) ==
    {[g EXCEPT !.heard = FALSE, !.latest = FALSE] : g \in {h \in {f} : h.answer = None}}

\* Abort that reaches nothing.
AbortNothing == fetches

\* request.current.abort()
Abort ==
    {f \in fetches : ~f.latest}
        \cup UNION {Unheard(f) : f \in {g \in fetches : g.latest}}

\* cancelSqlCursor without its test for a missing cursor.
OwnedOrNone == {cursor}

Owned == IF cursor = None THEN {} ELSE {cursor}

\* execute with generation.current advanced to run.
Execute(run) ==
    /\ generation' = run
    /\ fetches' = Fetch(Abort, "start", run, None, 0)
    /\ cancels' = cancels \cup Owned
    /\ cursor' = None
    /\ loading' = TRUE
    /\ ui' = [Blank EXCEPT !.streaming = TRUE]

\* The user applies a statement (the keyboard may while one is streaming) or
\* reruns it; so does the mount effect.
Apply ==
    /\ mounted /\ generation < MaxRuns
    /\ Execute(generation + 1)
    /\ UNCHANGED <<mounted, nextSequence, view, server, faults>>

\* Another connectionId: the effect's cleanup, then execute of the default.
SwitchConnection ==
    /\ mounted /\ generation > 0 /\ generation + 1 < MaxRuns
    /\ Execute(generation + 2)
    /\ UNCHANGED <<mounted, nextSequence, view, server, faults>>

Unmount ==
    /\ mounted
    /\ mounted' = FALSE
    /\ generation' = generation + 1
    /\ fetches' = Abort
    /\ cancels' = cancels \cup Owned
    /\ UNCHANGED <<cursor, nextSequence, loading, ui, view, server, faults>>

Render ==
    /\ mounted /\ view # ui
    /\ view' = ui
    /\ UNCHANGED <<refs, ui, fetches, cancels, server, faults>>

\* loadPage without its test of loading.current.
LoadsAnyway == TRUE

MayLoad == ~loading

\* loadMore, from the observer of the rendered table or the Retry button.  A
\* stale render may ask past the end, MaxPages bounds how often.
LoadMore(retry) ==
    /\ mounted
    /\ IF retry THEN view.error ELSE view.data \notin {None, << >>}
    /\ ~view.streaming /\ view.hasMore /\ view.data # None /\ cursor # None
    /\ ~view.rerunRequired /\ (view.retryRequired => retry)
    /\ MayLoad /\ nextSequence <= MaxPages
    /\ fetches' = Fetch(fetches, "page", generation, cursor, nextSequence)
    /\ loading' = TRUE
    /\ ui' = [ui EXCEPT !.error = FALSE, !.streaming = TRUE]
    /\ UNCHANGED <<mounted, generation, cursor, nextSequence, view, cancels,
                   server, faults>>

-----------------------------------------------------------------------------
(* The answers.  A continuation of an aborted fetch changes nothing. *)

\* Only loadPage has a finally block.
SettlesPages(f) == f.kind = "page" /\ f.latest /\ f.run = generation

\* The condition of the finally blocks.
Settles(f) == f.latest /\ f.run = generation

Settled(f, state) ==
    /\ loading' = (loading /\ ~Settles(f))
    /\ ui' = [state EXCEPT !.streaming = @ /\ ~Settles(f)]

\* The answer of /sql/start: the page request follows in the same step.  An
\* answer that outlived its run gives the cursor back.
Started(f) ==
    /\ f.kind = "start" /\ f.answer = "started"
    /\ IF f.run = generation
       THEN /\ cursor' = f.run /\ nextSequence' = 0
            /\ loading' = TRUE
            /\ fetches' = Fetch(fetches \ {f}, "page", f.run, f.run, 0)
            /\ ui' = [ui EXCEPT !.data = << >>, !.error = FALSE, !.streaming = TRUE]
            /\ UNCHANGED cancels
       ELSE /\ cancels' = cancels \cup {f.run}
            /\ fetches' = fetches \ {f}
            /\ UNCHANGED <<cursor, nextSequence, loading, ui>>

\* Whether a page that comes back still belongs to what is shown.
Current(f) == f.run = generation /\ cursor = f.cursor

\* The answer of /sql/:cursor/page: replace applies to the page of a new cursor,
\* whose table is empty.
GotPage(f) ==
    /\ f.kind = "page" /\ f.answer = "page"
    /\ fetches' = fetches \ {f}
    /\ IF Current(f)
       THEN /\ nextSequence' = f.sequence + 1
            /\ Settled(f, [ui EXCEPT !.data = Append(@, <<f.cursor, f.sequence>>),
                                     !.hasMore = f.sequence + 1 < pages[f.cursor],
                                     !.retryRequired = FALSE,
                                     !.rerunRequired = FALSE])
       ELSE UNCHANGED nextSequence /\ Settled(f, ui)
    /\ UNCHANGED <<cursor, cancels>>

\* An error status or a network error; 404 and 422 ask for a rerun, everything
\* else for a retry.  A failed start asks for neither.
Failed(f, gone) ==
    /\ IF f.run # generation THEN Settled(f, ui)
       ELSE IF f.kind = "start" THEN Settled(f, [ui EXCEPT !.error = TRUE])
       ELSE Settled(f, [ui EXCEPT !.error = TRUE, !.retryRequired = ~gone,
                                  !.rerunRequired = gone])
    /\ UNCHANGED <<cursor, nextSequence, cancels>>

Receive(f) ==
    /\ f.heard /\ f.answer # None
    /\ \/ Started(f)
       \/ GotPage(f)
       \/ /\ f.answer \in {"gone", "refused"}
          /\ fetches' = fetches \ {f}
          /\ Failed(f, f.answer = "gone")
    /\ UNCHANGED <<mounted, generation, view, server, faults>>

\* fetch rejects; the request, or only its answer, was on its way.
NetworkError(f) ==
    /\ f.heard /\ faults < MaxFaults
    /\ faults' = faults + 1
    /\ fetches' = (fetches \ {f}) \cup Unheard(f)
    /\ Failed(f, FALSE)
    /\ UNCHANGED <<mounted, generation, view, server>>

-----------------------------------------------------------------------------
(* The network and the server *)

\* A request nobody listens to is lost.
LoseRequest(f) ==
    /\ ~f.heard
    /\ fetches' = fetches \ {f}
    /\ UNCHANGED <<refs, ui, view, cancels, server, faults>>

\* A server that keeps no last page.
NoLastPage(f) == FALSE

IsLastPage(f) == f.sequence + 1 = serverNext[f.cursor]

PageAnswer(f) ==
    IF f.cursor \notin Live THEN "gone"
    ELSE IF f.sequence = serverNext[f.cursor] \/ IsLastPage(f) THEN "page"
    ELSE "refused"

Serve(f) ==
    /\ f.answer = None
    /\ LET answer == IF f.kind = "start" THEN "started" ELSE PageAnswer(f)
       IN  /\ fetches' = (fetches \ {f})
                 \cup {[g EXCEPT !.answer = answer] : g \in {f} \cap Heard}
           /\ serverNext' =
                 IF f.kind = "start" THEN [serverNext EXCEPT ![f.run] = 0]
                 ELSE IF answer = "page" /\ ~IsLastPage(f)
                 THEN [serverNext EXCEPT ![f.cursor] = @ + 1]
                 ELSE serverNext
    /\ UNCHANGED <<refs, ui, view, cancels, pages, faults>>

\* A statement the server refuses.
RefuseStart(f) ==
    /\ f.heard /\ f.kind = "start" /\ f.answer = None /\ faults < MaxFaults
    /\ faults' = faults + 1
    /\ fetches' = (fetches \ {f}) \cup {[f EXCEPT !.answer = "refused"]}
    /\ UNCHANGED <<refs, ui, view, cancels, server>>

ServeCancel(c) ==
    /\ c \in cancels
    /\ serverNext' = [serverNext EXCEPT ![c] = None] /\ cancels' = cancels \ {c}
    /\ UNCHANGED <<refs, ui, view, fetches, pages, faults>>

LoseCancel(c) ==
    /\ c \in cancels /\ faults < MaxFaults
    /\ faults' = faults + 1
    /\ cancels' = cancels \ {c}
    /\ UNCHANGED <<refs, ui, view, fetches, server>>

\* The cursor expires, is evicted or failed.
LoseCursor(c) ==
    /\ c \in Live /\ faults < MaxFaults
    /\ faults' = faults + 1
    /\ serverNext' = [serverNext EXCEPT ![c] = None]
    /\ UNCHANGED <<refs, ui, view, fetches, cancels, pages>>

User == Apply \/ SwitchConnection \/ Unmount

Network ==
    \/ \E f \in fetches : LoseRequest(f) \/ Serve(f) \/ RefuseStart(f)
    \/ \E c \in Cursors : ServeCancel(c) \/ LoseCancel(c) \/ LoseCursor(c)

Next ==
    \/ User \/ Render
    \/ \E retry \in BOOLEAN : LoadMore(retry)
    \/ \E f \in fetches : Receive(f) \/ NetworkError(f)
    \/ Network

Spec == Init /\ [][Next]_vars

\* React renders what was set, the server and the network answer every request,
\* the table stays in sight and the user presses Retry when asked to.
Fairness ==
    /\ WF_vars(Render)
    /\ WF_vars(\E f \in fetches : f.heard /\ (Serve(f) \/ Receive(f)))
    /\ \A retry \in BOOLEAN : WF_vars(LoadMore(retry))

FairSpec == Spec /\ Fairness

-----------------------------------------------------------------------------
(* Properties *)

FetchRecord ==
    [kind : {"start", "page"}, run : Cursors, cursor : Cursors \cup {None},
     sequence : Nat, latest : BOOLEAN, heard : BOOLEAN,
     answer : {None, "started", "page", "gone", "refused"}]

UiState == [data : {None} \cup Seq(Cursors \X Nat), error : BOOLEAN,
            streaming : BOOLEAN, hasMore : BOOLEAN,
            retryRequired : BOOLEAN, rerunRequired : BOOLEAN]

\* The shape of the state; a page request is one of its run's cursor.
TypeOK ==
    /\ mounted \in BOOLEAN /\ loading \in BOOLEAN
    /\ generation \in Nat /\ nextSequence \in Nat /\ faults \in Nat
    /\ cursor \in Cursors \cup {None}
    /\ ui \in UiState /\ view \in UiState
    /\ cancels \subseteq Cursors
    /\ serverNext \in [Cursors -> Nat \cup {None}]
    /\ pages \in [Cursors -> Nat]
    /\ fetches \subseteq FetchRecord
    /\ \A f \in fetches : f.cursor = IF f.kind = "page" THEN f.run ELSE None

\* What is on screen is the result of the statement applied last, its first
\* pages, each once and in order, whatever was aborted, retried or late and
\* however stale the render was that asked for them (lines 37, 48-52); "End of
\* results" is only shown when every page is there.
TableIsPrefix ==
    mounted /\ ui.data # None =>
        /\ cursor = generation
        /\ ui.data = [i \in 1..nextSequence |-> <<cursor, i - 1>>]
        /\ ~ui.hasMore => nextSequence >= pages[cursor]

\* The browser issues one sequential request at a time (README.md:233): one
\* fetch is listened to, and exactly while loading.current says so.
OneRequest ==
    mounted => /\ Cardinality(Heard) = IF loading THEN 1 ELSE 0
               /\ loading = ui.streaming
               /\ \A f \in Heard : f.latest /\ f.run = generation

\* That is why one cached page is enough: a cursor of the server is at the page
\* the component asks for next or one past it, so no retry is ever refused.
SequencesAgree ==
    mounted /\ cursor \in Live =>
        serverNext[cursor] \in {nextSequence, nextSequence + 1}

\* The spinner goes away.
SpinnerEnds == mounted /\ ui.streaming ~> ~mounted \/ ~ui.streaming

\* A run comes to its end on screen, or says that it needs a rerun or that the
\* statement did not start; network errors only cost retries.
RunEnds ==
    generation > 0 ~>
        \/ ~mounted \/ ~ui.hasMore \/ ui.rerunRequired
        \/ ui.error /\ cursor = None

\* README.md:194: applying another query or switching snapshots cancels the
\* previous cursor.
PreviousCancelled ==
    \A c \in Live : \/ mounted /\ cursor = c
                   \/ c \in cancels
                   \/ \E f \in Heard : f.kind = "start" /\ f.run = c
=============================================================================
