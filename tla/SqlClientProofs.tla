--------------------------- MODULE SqlClientProofs --------------------------
(***************************************************************************)
(* The safety of the SQL view (SqlClient) for any number of runs, pages and  *)
(* faults: what is on screen is the beginning of the latest result.          *)
(***************************************************************************)
EXTENDS SqlClient, FiniteSetTheorems, TLAPS

\* One fetch is listened to at a time, the latest, and loading.current says so.
RequestsInv ==
    /\ \A f \in fetches :
          /\ f.run <= generation /\ (f.latest <=> f.heard)
          /\ f.heard => mounted /\ loading /\ f.run = generation
    /\ \A f, g \in Heard : f = g
    /\ mounted => (loading <=> ui.streaming) /\ (loading => Heard # {})

\* A run has no other request before its start is answered, and its cursor is
\* held by nobody but the component.
RunsInv ==
    /\ mounted => cursor \in {None, generation}
    /\ \A f, g \in fetches : f.kind = "start" /\ g.run = f.run => g = f
    /\ \A f \in fetches : f.kind = "start" =>
          /\ cursor # f.run /\ (f.heard => cursor = None)
          /\ f.answer = "started" => serverNext[f.run] \in {None, 0}

\* The page asked for is the next one; older requests ask for pages shown.
SequencesInv ==
    mounted =>
        \A f \in fetches : f.kind = "page" =>
            /\ f.run = cursor => f.sequence <= nextSequence
            /\ f.heard =>
                  /\ f.run = cursor /\ f.sequence = nextSequence
                  /\ f.answer = "page" => serverNext[cursor] \in {None, nextSequence + 1}

\* The table belongs to the cursor.
TableInv ==
    mounted =>
        IF cursor = None THEN ui.data = None /\ ui.hasMore
        ELSE /\ ui.data = [i \in 1..nextSequence |-> <<cursor, i - 1>>]
             /\ ~ui.hasMore => nextSequence >= pages[cursor]

IInv ==
    TypeOK /\ RequestsInv /\ RunsInv /\ SequencesAgree /\ SequencesInv /\ TableInv

-----------------------------------------------------------------------------
(* Requests *)

\* A request as it is made, and as it is after an abort.
Asked(kind, run, of, sequence) ==
    [kind |-> kind, run |-> run, cursor |-> of, sequence |-> sequence,
     latest |-> TRUE, heard |-> TRUE, answer |-> None]

Silenced(f) == IF f.latest THEN [f EXCEPT !.heard = FALSE, !.latest = FALSE] ELSE f

SameRequest(f, g) ==
    /\ f.kind = g.kind /\ f.run = g.run /\ f.cursor = g.cursor
    /\ f.sequence = g.sequence /\ f.answer = g.answer

LEMMA SilencedRequest ==
    ASSUME NEW f \in FetchRecord, (f.latest <=> f.heard)
    PROVE  /\ Silenced(f) \in FetchRecord /\ SameRequest(Silenced(f), f)
           /\ ~Silenced(f).latest /\ ~Silenced(f).heard
BY DEF Silenced, SameRequest, FetchRecord

\* The new request joins those nobody listens to.
LEMMA FetchAdds ==
    ASSUME NEW S \in SUBSET FetchRecord, \A f \in S : ~f.latest,
           NEW kind, NEW run, NEW of, NEW sequence
    PROVE  Fetch(S, kind, run, of, sequence) = S \cup {Asked(kind, run, of, sequence)}
<1>1. \A f \in S : f.latest = FALSE
    BY DEF FetchRecord
<1>2. \A f \in S : [f EXCEPT !.latest = FALSE] = f
    BY <1>1 DEF FetchRecord
<1>. QED BY <1>2 DEF Fetch, Asked

LEMMA AskedRequest ==
    ASSUME NEW kind \in {"start", "page"}, NEW run \in Cursors, NEW of \in Cursors \cup {None},
           NEW sequence \in Nat
    PROVE  /\ Asked(kind, run, of, sequence) \in FetchRecord
           /\ Asked(kind, run, of, sequence).kind = kind
           /\ Asked(kind, run, of, sequence).run = run
           /\ Asked(kind, run, of, sequence).cursor = of
           /\ Asked(kind, run, of, sequence).sequence = sequence
           /\ Asked(kind, run, of, sequence).latest
           /\ Asked(kind, run, of, sequence).heard
           /\ Asked(kind, run, of, sequence).answer = None
BY DEF Asked, FetchRecord

\* Every request left by an abort was there before, and nobody listens to it.
LEMMA Aborted ==
    ASSUME TypeOK, RequestsInv, NEW f \in Abort
    PROVE  \E g \in fetches :
               /\ f = Silenced(g) /\ f \in FetchRecord /\ SameRequest(f, g)
               /\ ~f.latest /\ ~f.heard
<1>1. fetches \subseteq FetchRecord /\ \A g \in fetches : (g.latest <=> g.heard) /\ g.latest \in BOOLEAN
    BY DEF TypeOK, RequestsInv, FetchRecord
<1>2. CASE \E g \in fetches : ~g.latest /\ f = g
    <2>1. PICK g \in fetches : ~g.latest /\ f = g
        BY <1>2
    <2>2. f = Silenced(g)
        BY <2>1 DEF Silenced
    <2>. QED BY <1>1, <2>1, <2>2, SilencedRequest
<1>3. CASE \E g \in fetches : g.latest /\ f \in Unheard(g)
    <2>1. PICK g \in fetches : g.latest /\ f \in Unheard(g)
        BY <1>3
    <2>2. f = Silenced(g)
        BY <2>1 DEF Unheard, Silenced
    <2>. QED BY <1>1, <2>1, <2>2, SilencedRequest
<1>. QED BY <1>2, <1>3 DEF Abort

\* What an abort does not change.
LEMMA AbortedFacts ==
    ASSUME IInv, NEW f \in Abort
    PROVE  /\ f \in FetchRecord /\ ~f.latest /\ ~f.heard
           /\ f.run <= generation /\ f.run \in Cursors /\ f.run \in Nat
           /\ f.cursor = IF f.kind = "page" THEN f.run ELSE None
           /\ f.kind = "start" => /\ cursor # f.run
                                  /\ f.answer = "started" => serverNext[f.run] \in {None, 0}
<1>1. PICK g \in fetches : /\ SameRequest(f, g) /\ f \in FetchRecord
                           /\ ~f.latest /\ ~f.heard
    BY Aborted DEF IInv
<1>2. /\ g.run <= generation
      /\ g.cursor = IF g.kind = "page" THEN g.run ELSE None
      /\ g.kind = "start" => /\ cursor # g.run
                             /\ g.answer = "started" => serverNext[g.run] \in {None, 0}
    BY DEF IInv, TypeOK, RequestsInv, RunsInv
<1>3. f.run \in Cursors
    BY <1>1 DEF FetchRecord
<1>. QED BY <1>1, <1>2, <1>3 DEF SameRequest, Cursors

LEMMA AbortedRuns ==
    ASSUME IInv, NEW f \in Abort, NEW g \in Abort, f.kind = "start", g.run = f.run
    PROVE  g = f
<1>1. PICK h \in fetches : f = Silenced(h) /\ SameRequest(f, h)
    BY Aborted DEF IInv
<1>2. PICK k \in fetches : g = Silenced(k) /\ SameRequest(g, k)
    BY Aborted DEF IInv
<1>3. h.kind = "start" /\ k.run = h.run
    BY <1>1, <1>2 DEF SameRequest
<1>. QED BY <1>1, <1>2, <1>3 DEF IInv, RunsInv

\* Whoever listens to an answer is the component as it is now.
LEMMA HeardRequest ==
    ASSUME IInv, NEW f \in fetches, f.heard
    PROVE  /\ mounted /\ loading /\ ui.streaming /\ f.latest /\ f.run = generation
           /\ f \in FetchRecord /\ f.run \in Cursors
           /\ \A g \in fetches : g # f => ~g.heard /\ ~g.latest
<1>1. fetches \subseteq FetchRecord /\ \A g \in fetches : g.run \in Cursors
    BY DEF IInv, TypeOK, FetchRecord
<1>. QED BY <1>1 DEF IInv, RequestsInv, Heard

\* Nobody else uses the run or the cursor of a start request.
LEMMA NoneIsNoNumber == None \notin Nat /\ None \notin Cursors
BY ClientAssumption DEF Cursors

-----------------------------------------------------------------------------
LEMMA InitIInv == Init => IInv
<1>. SUFFICES ASSUME Init PROVE IInv
    OBVIOUS
<1>1. TypeOK
    <2>1. Blank \in UiState
        BY DEF Blank, UiState
    <2>2. pages \in [Cursors -> Nat]
        BY ClientAssumption DEF Init
    <2>. QED BY <2>1, <2>2 DEF Init, TypeOK
<1>2. RequestsInv /\ RunsInv /\ SequencesInv
    BY DEF Init, RequestsInv, RunsInv, SequencesInv, Heard, Blank
<1>3. SequencesAgree
    BY NoneIsNoNumber DEF Init, SequencesAgree, Live
<1>4. TableInv
    BY DEF Init, TableInv, Blank
<1>. QED BY <1>1, <1>2, <1>3, <1>4 DEF IInv

-----------------------------------------------------------------------------
(* The user *)

\* A new run: everything before it is aborted.
LEMMA ExecuteKeeps ==
    ASSUME IInv, mounted, NEW run \in Cursors, generation < run, Execute(run),
           UNCHANGED <<mounted, nextSequence, view, server, faults>>
    PROVE  IInv'
<1>. DEFINE n == Asked("start", run, None, 0)
<1>1. /\ n \in FetchRecord /\ n.kind = "start" /\ n.run = run /\ n.cursor = None
      /\ n.latest /\ n.heard /\ n.answer = None
    BY DEF Asked, FetchRecord
<1>2. Abort \subseteq FetchRecord /\ \A f \in Abort : ~f.latest /\ ~f.heard
    BY Aborted DEF IInv
<1>3. fetches' = Abort \cup {n}
    <2>1. fetches' = Fetch(Abort, "start", run, None, 0)
        BY DEF Execute
    <2>2. Fetch(Abort, "start", run, None, 0) = Abort \cup {n}
        BY <1>2, FetchAdds
    <2>. QED BY <2>1, <2>2
<1>. HIDE DEF n
<1>4. /\ generation' = run /\ cursor' = None /\ loading' = TRUE
      /\ ui' = [Blank EXCEPT !.streaming = TRUE] /\ cancels' = cancels \cup Owned
      /\ mounted' = mounted /\ nextSequence' = nextSequence /\ view' = view
      /\ serverNext' = serverNext /\ pages' = pages /\ faults' = faults
    BY DEF Execute, server
<1>5. /\ ui' \in UiState /\ ui'.streaming = TRUE /\ ui'.data = None /\ ui'.hasMore = TRUE
    BY <1>4 DEF Blank, UiState
<1>6. run \in Nat
    BY DEF Cursors
<1>7. \A f \in Abort : /\ f.run <= generation /\ f.run \in Cursors /\ f.run \in Nat
                       /\ f.cursor = IF f.kind = "page" THEN f.run ELSE None
                       /\ f.kind = "start" /\ f.answer = "started" => serverNext[f.run] \in {None, 0}
    BY AbortedFacts
<1>8. TypeOK'
    <2>1. Owned \subseteq Cursors
        BY DEF Owned, IInv, TypeOK
    <2>2. /\ fetches' \subseteq FetchRecord
          /\ \A f \in fetches' : f.cursor = IF f.kind = "page" THEN f.run ELSE None
        BY <1>1, <1>2, <1>3, <1>7
    <2>. QED BY <1>4, <1>5, <1>6, <2>1, <2>2 DEF IInv, TypeOK
<1>9. RequestsInv'
    <2>1. \A f \in fetches' : f.run <= run /\ (f.latest <=> f.heard)
        <3>1. generation \in Nat
            BY DEF IInv, TypeOK
        <3>2. \A f \in Abort : f.run <= run /\ (f.latest <=> f.heard)
            BY <1>2, <1>6, <1>7, <3>1
        <3>. QED BY <1>1, <1>3, <1>6, <3>2
    <2>2. \A f \in fetches' : f.heard => f = n
        BY <1>2, <1>3
    <2>3. n \in Heard'
        BY <1>1, <1>3 DEF Heard
    <2>. QED BY <1>1, <1>4, <1>5, <2>1, <2>2, <2>3 DEF RequestsInv, Heard
<1>10. RunsInv'
    <2>1. ASSUME NEW f \in fetches', NEW g \in fetches', f.kind = "start", g.run = f.run
          PROVE  g = f
        <3>1. \A h \in Abort : h.run # run
            BY <1>6, <1>7 DEF IInv, TypeOK, Cursors
        <3>2. CASE f \in Abort /\ g \in Abort
            BY <2>1, <3>2, AbortedRuns
        <3>. QED BY <1>1, <1>3, <2>1, <3>1, <3>2
    <2>2. \A f \in fetches' : f.run # None
        BY <1>1, <1>3, <1>7, NoneIsNoNumber
    <2>3. \A f \in fetches' : f.answer = "started" /\ f.kind = "start" =>
              serverNext[f.run] \in {None, 0}
        BY <1>1, <1>3, <1>7, ClientAssumption
    <2>. QED BY <1>4, <2>1, <2>2, <2>3 DEF RunsInv
<1>11. SequencesInv'
    <2>1. \A f \in fetches' : f.kind = "page" => ~f.heard /\ f.run # None
        BY <1>1, <1>2, <1>3, <1>7, NoneIsNoNumber
    <2>. QED BY <1>4, <2>1 DEF SequencesInv
<1>12. SequencesAgree' /\ TableInv'
    BY <1>4, <1>5, NoneIsNoNumber DEF SequencesAgree, TableInv, Live
<1>. QED BY <1>8, <1>9, <1>10, <1>11, <1>12 DEF IInv

LEMMA UnmountKeeps ==
    ASSUME IInv, Unmount
    PROVE  IInv'
<1>1. /\ mounted' = FALSE /\ generation' = generation + 1 /\ fetches' = Abort
      /\ cancels' = cancels \cup Owned /\ cursor' = cursor /\ serverNext' = serverNext
      /\ UNCHANGED <<nextSequence, loading, ui, view, pages, faults>>
    BY DEF Unmount, server
<1>2. \A f \in Abort :
          /\ f \in FetchRecord /\ ~f.latest /\ ~f.heard
          /\ f.run <= generation /\ f.run \in Nat
          /\ f.cursor = IF f.kind = "page" THEN f.run ELSE None
          /\ f.kind = "start" => /\ cursor # f.run
                                 /\ f.answer = "started" => serverNext[f.run] \in {None, 0}
    BY AbortedFacts
<1>3. TypeOK'
    <2>1. Owned \subseteq Cursors
        BY DEF Owned, IInv, TypeOK
    <2>2. fetches' \subseteq FetchRecord
        BY <1>1, <1>2
    <2>4. mounted' \in BOOLEAN
        BY <1>1
    <2>5. generation' \in Nat
        BY <1>1 DEF IInv, TypeOK
    <2>3. \A f \in fetches' : f.cursor = IF f.kind = "page" THEN f.run ELSE None
        BY <1>1, <1>2
    <2>. QED BY <1>1, <2>1, <2>2, <2>3, <2>4, <2>5 DEF IInv, TypeOK
<1>4. RequestsInv'
    <2>1. \A f \in Abort : f.run <= generation + 1
        BY <1>2 DEF IInv, TypeOK
    <2>. QED BY <1>1, <1>2, <2>1 DEF RequestsInv, Heard
<1>5. RunsInv'
    BY <1>1, <1>2, AbortedRuns DEF RunsInv
<1>. QED BY <1>1, <1>3, <1>4, <1>5 DEF IInv, SequencesInv, SequencesAgree, TableInv

LEMMA RenderKeeps ==
    ASSUME IInv, Render
    PROVE  IInv'
<1>1. view' = ui /\ UNCHANGED <<mounted, generation, cursor, nextSequence, loading, ui, fetches,
                                cancels, serverNext, pages, faults>>
    BY DEF Render, refs, server
<1>2. TypeOK'
    BY <1>1 DEF IInv, TypeOK
<1>. QED BY <1>1, <1>2 DEF IInv, RequestsInv, RunsInv, SequencesInv, SequencesAgree, TableInv,
    Heard, Live

\* The next page, while nothing else is listened to.
LEMMA LoadMoreKeeps ==
    ASSUME IInv, NEW retry \in BOOLEAN, LoadMore(retry)
    PROVE  IInv'
<1>. DEFINE n == Asked("page", generation, cursor, nextSequence)
<1>1. /\ mounted /\ ~loading /\ cursor # None
      /\ fetches' = Fetch(fetches, "page", generation, cursor, nextSequence)
      /\ loading' = TRUE /\ ui' = [ui EXCEPT !.error = FALSE, !.streaming = TRUE]
      /\ UNCHANGED <<mounted, generation, cursor, nextSequence, view, cancels, serverNext, pages,
                     faults>>
    BY DEF LoadMore, MayLoad, server
<1>2. /\ cursor = generation /\ generation \in Cursors /\ generation \in Nat
      /\ nextSequence \in Nat /\ fetches \subseteq FetchRecord
    BY <1>1 DEF IInv, TypeOK, RunsInv, Cursors
<1>3. \A f \in fetches : ~f.heard /\ ~f.latest
    BY <1>1 DEF IInv, RequestsInv
<1>4. /\ n \in FetchRecord /\ n.kind = "page" /\ n.run = generation /\ n.cursor = cursor
      /\ n.sequence = nextSequence /\ n.latest /\ n.heard /\ n.answer = None
    BY <1>2, AskedRequest
<1>5. fetches' = fetches \cup {n}
    BY <1>1, <1>2, <1>3, FetchAdds
<1>. HIDE DEF n
<1>6. ui' \in UiState /\ ui'.streaming /\ ui'.data = ui.data /\ ui'.hasMore = ui.hasMore
    BY <1>1 DEF IInv, TypeOK, UiState
<1>7. TypeOK'
    <2>1. fetches' \subseteq FetchRecord
        BY <1>2, <1>4, <1>5
    <2>2. \A f \in fetches' : f.cursor = IF f.kind = "page" THEN f.run ELSE None
        BY <1>2, <1>4, <1>5 DEF IInv, TypeOK
    <2>3. loading' \in BOOLEAN
        BY <1>1
    <2>. QED BY <1>1, <1>6, <2>1, <2>2, <2>3 DEF IInv, TypeOK
<1>8. RequestsInv'
    <2>1. \A f \in fetches' : f.run <= generation
        BY <1>2, <1>4, <1>5 DEF IInv, RequestsInv
    <2>2. \A f \in fetches' : (f.latest <=> f.heard) /\ (f.heard => f = n)
        BY <1>3, <1>4, <1>5
    <2>3. n \in Heard'
        BY <1>4, <1>5 DEF Heard
    <2>. QED BY <1>1, <1>4, <1>6, <2>1, <2>2, <2>3 DEF RequestsInv, Heard
<1>9. RunsInv'
    <2>1. \A f \in fetches : f.kind = "start" => f.run # generation
        BY <1>2 DEF IInv, RunsInv
    <2>2. \A f, g \in fetches' : f.kind = "start" /\ g.run = f.run => g = f
        BY <1>4, <1>5, <2>1 DEF IInv, RunsInv
    <2>. QED BY <1>1, <1>4, <1>5, <2>2 DEF IInv, RunsInv
<1>10. SequencesInv'
    <2>1. nextSequence <= nextSequence
        BY <1>2
    <2>2. n.answer # "page"
        BY <1>4, ClientAssumption
    <2>. QED BY <1>1, <1>2, <1>3, <1>4, <1>5, <2>1, <2>2 DEF IInv, SequencesInv
<1>11. SequencesAgree' /\ TableInv'
    BY <1>1, <1>6 DEF IInv, SequencesAgree, TableInv, Live
<1>. QED BY <1>7, <1>8, <1>9, <1>10, <1>11 DEF IInv

-----------------------------------------------------------------------------
(* Answers *)

\* A cursor starts: its first page is asked for in the same step.
LEMMA StartedKeeps ==
    ASSUME IInv, NEW f \in fetches, f.heard, Started(f),
           UNCHANGED <<mounted, generation, view, server, faults>>
    PROVE  IInv'
<1>. DEFINE n == Asked("page", f.run, f.run, 0)
            rest == fetches \ {f}
<1>1. /\ mounted /\ f.run = generation /\ f.run \in Cursors /\ f.run \in Nat
      /\ \A g \in rest : ~g.heard /\ ~g.latest
    BY HeardRequest DEF Cursors
<1>2. /\ f.kind = "start" /\ f.answer = "started" /\ cursor' = f.run /\ nextSequence' = 0
      /\ loading' = TRUE /\ fetches' = Fetch(rest, "page", f.run, f.run, 0)
      /\ ui' = [ui EXCEPT !.data = << >>, !.error = FALSE, !.streaming = TRUE]
      /\ UNCHANGED <<cancels, mounted, generation, view, serverNext, pages, faults>>
    BY <1>1 DEF Started, server
<1>3. /\ rest \subseteq FetchRecord
      /\ \A g \in rest : /\ g.run # f.run
                         /\ g.cursor = IF g.kind = "page" THEN g.run ELSE None
    BY <1>2 DEF IInv, TypeOK, RunsInv
<1>4. /\ n \in FetchRecord /\ n.kind = "page" /\ n.run = f.run /\ n.cursor = f.run
      /\ n.sequence = 0 /\ n.latest /\ n.heard /\ n.answer = None
    BY <1>1, AskedRequest
<1>5. fetches' = rest \cup {n}
    BY <1>1, <1>2, <1>3, FetchAdds
<1>. HIDE DEF n
<1>6. cursor = None /\ ui.hasMore /\ serverNext[f.run] \in {None, 0}
    BY <1>1, <1>2 DEF IInv, RunsInv, TableInv
<1>7. ui' \in UiState /\ ui'.streaming /\ ui'.data = << >> /\ ui'.hasMore
    <2>1. << >> \in Seq(Cursors \X Nat) /\ ui \in UiState
        BY DEF IInv, TypeOK
    <2>. QED BY <1>2, <1>6, <2>1 DEF UiState
<1>8. TypeOK'
    <2>1. fetches' \subseteq FetchRecord
        BY <1>3, <1>4, <1>5
    <2>2. \A g \in fetches' : g.cursor = IF g.kind = "page" THEN g.run ELSE None
        BY <1>3, <1>4, <1>5
    <2>3. loading' \in BOOLEAN
        BY <1>2
    <2>. QED BY <1>1, <1>2, <1>7, <2>1, <2>2, <2>3 DEF IInv, TypeOK
<1>9. RequestsInv'
    <2>1. \A g \in fetches' : g.run <= generation
        BY <1>1, <1>4, <1>5 DEF IInv, RequestsInv
    <2>2. \A g \in fetches' : (g.latest <=> g.heard) /\ (g.heard => g = n)
        BY <1>1, <1>4, <1>5
    <2>3. n \in Heard'
        BY <1>4, <1>5 DEF Heard
    <2>4. mounted' /\ loading' /\ ui'.streaming /\ n.run = generation' /\ generation' = generation
        BY <1>1, <1>2, <1>4, <1>7
    <2>. QED BY <2>1, <2>2, <2>3, <2>4 DEF RequestsInv, Heard
<1>10. RunsInv'
    BY <1>1, <1>2, <1>3, <1>4, <1>5 DEF IInv, RunsInv
<1>11. SequencesInv'
    <2>1. n.answer # "page"
        BY <1>4, ClientAssumption
    <2>2. \A g \in fetches' : g.kind = "page" =>
              /\ g.run = f.run => g = n
              /\ g.heard => g = n
        BY <1>1, <1>3, <1>5
    <2>3. cursor' = f.run /\ nextSequence' = 0 /\ 0 <= 0
        BY <1>2
    <2>. QED BY <1>4, <2>1, <2>2, <2>3 DEF SequencesInv
<1>12. SequencesAgree'
    BY <1>2, <1>6 DEF SequencesAgree, Live
<1>13. TableInv'
    <2>1. << >> = [i \in 1..0 |-> <<f.run, i - 1>>]
        OBVIOUS
    <2>2. f.run # None
        BY <1>1, NoneIsNoNumber
    <2>. QED BY <1>2, <1>7, <2>1, <2>2 DEF TableInv
<1>. QED BY <1>8, <1>9, <1>10, <1>11, <1>12, <1>13 DEF IInv

\* A request is over, or nobody listens to it any more.
LEMMA RequestEnds ==
    ASSUME IInv, NEW f \in fetches, f.heard, NEW left \in SUBSET {Silenced(f)},
           fetches' = (fetches \ {f}) \cup left
    PROVE  /\ fetches' \subseteq FetchRecord
           /\ \A g \in fetches' :
                  /\ g.cursor = IF g.kind = "page" THEN g.run ELSE None
                  /\ g.run <= generation /\ ~g.latest /\ ~g.heard
                  /\ g.kind = "start" => /\ cursor # g.run
                                         /\ g.answer = "started" => serverNext[g.run] \in {None, 0}
                  /\ mounted /\ g.kind = "page" /\ g.run = cursor => g.sequence <= nextSequence
           /\ \A g, h \in fetches' : g.kind = "start" /\ h.run = g.run => h = g
<1>1. /\ fetches \subseteq FetchRecord
      /\ \A g \in fetches :
            /\ g.cursor = IF g.kind = "page" THEN g.run ELSE None
            /\ g.run <= generation
            /\ g.kind = "start" => /\ cursor # g.run
                                   /\ g.answer = "started" => serverNext[g.run] \in {None, 0}
            /\ mounted /\ g.kind = "page" /\ g.run = cursor => g.sequence <= nextSequence
      /\ \A g, h \in fetches : g.kind = "start" /\ h.run = g.run => h = g
    BY DEF IInv, TypeOK, RequestsInv, RunsInv, SequencesInv
<1>2. \A g \in fetches : g # f => ~g.heard /\ ~g.latest
    BY HeardRequest
<1>3. /\ Silenced(f) \in FetchRecord /\ SameRequest(Silenced(f), f)
      /\ ~Silenced(f).latest /\ ~Silenced(f).heard
    BY <1>1, SilencedRequest DEF IInv, RequestsInv
<1>. DEFINE s == Silenced(f)
<1>. HIDE DEF s
<1>4. /\ s.kind = f.kind /\ s.run = f.run /\ s.cursor = f.cursor /\ s.sequence = f.sequence
      /\ s.answer = f.answer
    BY <1>3 DEF SameRequest, s
<1>5. \A g \in fetches' : (g \in fetches /\ g # f) \/ g = s
    BY DEF s
<1>6. fetches' \subseteq FetchRecord /\ \A g \in fetches' : ~g.latest /\ ~g.heard
    BY <1>1, <1>2, <1>3, <1>5 DEF s
<1>7. \A g, h \in fetches' : g.kind = "start" /\ h.run = g.run => h = g
    BY <1>1, <1>4, <1>5
<1>8. \A g \in fetches' :
          /\ g.cursor = IF g.kind = "page" THEN g.run ELSE None
          /\ g.run <= generation
          /\ g.kind = "start" => /\ cursor # g.run
                                 /\ g.answer = "started" => serverNext[g.run] \in {None, 0}
          /\ mounted /\ g.kind = "page" /\ g.run = cursor => g.sequence <= nextSequence
    BY <1>1, <1>4, <1>5
<1>. QED BY <1>6, <1>7, <1>8

\* The table gains the page that belongs next.
LEMMA TableGrows ==
    ASSUME NEW c, NEW k \in Nat
    PROVE  Append([i \in 1..k |-> <<c, i - 1>>], <<c, k>>) = [i \in 1..(k + 1) |-> <<c, i - 1>>]
<1>. DEFINE t == [i \in 1..k |-> <<c, i - 1>>]
            u == [i \in 1..(k + 1) |-> <<c, i - 1>>]
<1>1. t \in Seq({<<c, j>> : j \in Nat}) /\ Len(t) = k
    <2>1. \A i \in 1..k : t[i] \in {<<c, j>> : j \in Nat}
        <3>1. \A i \in 1..k : i - 1 \in Nat
            OBVIOUS
        <3>. QED BY <3>1
    <2>. QED BY <2>1
<1>2. /\ DOMAIN Append(t, <<c, k>>) = 1..(k + 1)
      /\ \A i \in 1..k : Append(t, <<c, k>>)[i] = <<c, i - 1>>
      /\ Append(t, <<c, k>>)[k + 1] = <<c, k>>
    BY <1>1
<1>3. \A i \in 1..(k + 1) : Append(t, <<c, k>>)[i] = u[i]
    BY <1>2
<1>. QED BY <1>1, <1>2, <1>3

LEMMA GotPageKeeps ==
    ASSUME IInv, NEW f \in fetches, f.heard, GotPage(f),
           UNCHANGED <<mounted, generation, view, server, faults>>
    PROVE  IInv'
<1>1. /\ mounted /\ loading /\ f.latest /\ f.run = generation /\ f.run \in Cursors
    BY HeardRequest
<1>2. /\ f.kind = "page" /\ f.answer = "page" /\ fetches' = fetches \ {f}
      /\ UNCHANGED <<cursor, cancels, mounted, generation, view, serverNext, pages, faults>>
    BY DEF GotPage, server
<1>3. /\ f.run = cursor /\ f.cursor = cursor /\ f.sequence = nextSequence
      /\ serverNext[cursor] \in {None, nextSequence + 1} /\ nextSequence \in Nat
    BY <1>1, <1>2 DEF IInv, TypeOK, SequencesInv
<1>4. cursor \in Cursors /\ cursor # None
    BY <1>1, <1>3, NoneIsNoNumber
<1>. DEFINE state == [ui EXCEPT !.data = Append(@, <<f.cursor, f.sequence>>),
                                !.hasMore = f.sequence + 1 < pages[f.cursor],
                                !.retryRequired = FALSE, !.rerunRequired = FALSE]
<1>5. /\ nextSequence' = nextSequence + 1 /\ loading' = FALSE
      /\ ui' = [state EXCEPT !.streaming = FALSE]
    <2>1. nextSequence' = f.sequence + 1 /\ Settled(f, state)
        BY <1>1, <1>3 DEF GotPage, Current
    <2>2. Settles(f)
        BY <1>1 DEF Settles
    <2>. QED BY <1>3, <2>1, <2>2 DEF Settled
<1>6. /\ ui.data = [i \in 1..nextSequence |-> <<cursor, i - 1>>]
      /\ ui \in UiState /\ pages[cursor] \in Nat
    BY <1>1, <1>4 DEF IInv, TypeOK, TableInv
<1>7. Append(ui.data, <<cursor, nextSequence>>) = [i \in 1..(nextSequence + 1) |-> <<cursor, i - 1>>]
    BY <1>3, <1>6, TableGrows
<1>8. [i \in 1..(nextSequence + 1) |-> <<cursor, i - 1>>] \in Seq(Cursors \X Nat)
    BY <1>3, <1>4
<1>9. /\ ui' \in UiState /\ ~ui'.streaming
      /\ ui'.data = Append(ui.data, <<cursor, nextSequence>>)
      /\ ui'.hasMore <=> nextSequence + 1 < pages[cursor]
    <2>. DEFINE more == nextSequence + 1 < pages[cursor]
                data == Append(ui.data, <<cursor, nextSequence>>)
    <2>1. more \in BOOLEAN
        OBVIOUS
    <2>4. data \in Seq(Cursors \X Nat)
        BY <1>7, <1>8
    <2>2. ui' = [ui EXCEPT !.data = data, !.hasMore = more, !.retryRequired = FALSE,
                           !.rerunRequired = FALSE, !.streaming = FALSE]
        BY <1>3, <1>5, <1>6 DEF UiState
    <2>. HIDE DEF more, data
    <2>3. ui' \in UiState /\ ui'.streaming = FALSE /\ ui'.data = data /\ ui'.hasMore = more
        BY <1>6, <2>1, <2>2, <2>4 DEF UiState
    <2>. QED BY <2>1, <2>3 DEF more, data
<1>10. /\ fetches' \subseteq FetchRecord
       /\ \A g \in fetches' :
              /\ g.cursor = IF g.kind = "page" THEN g.run ELSE None
              /\ g.run <= generation /\ ~g.latest /\ ~g.heard
              /\ g.kind = "start" => /\ cursor # g.run
                                     /\ g.answer = "started" => serverNext[g.run] \in {None, 0}
              /\ g.kind = "page" /\ g.run = cursor => g.sequence <= nextSequence
       /\ \A g, h \in fetches' : g.kind = "start" /\ h.run = g.run => h = g
    <2>1. {} \in SUBSET {Silenced(f)} /\ fetches' = (fetches \ {f}) \cup {}
        BY <1>2
    <2>. QED BY <1>1, <2>1, RequestEnds
<1>11. TypeOK'
    <2>1. loading' \in BOOLEAN
        BY <1>5
    <2>2. nextSequence' \in Nat
        BY <1>3, <1>5
    <2>. QED BY <1>2, <1>9, <1>10, <2>1, <2>2 DEF IInv, TypeOK
<1>12. RequestsInv'
    <2>1. ~loading' /\ ~ui'.streaming /\ generation' = generation
        BY <1>2, <1>5, <1>9
    <2>. QED BY <1>10, <2>1 DEF RequestsInv, Heard
<1>13. RunsInv'
    BY <1>2, <1>10 DEF IInv, RunsInv
<1>14. SequencesInv'
    <2>1. \A g \in fetches' : g.kind = "page" /\ g.run = cursor => g.sequence <= nextSequence + 1
        <3>1. \A g \in fetches' : g.sequence \in Nat
            BY <1>10 DEF FetchRecord
        <3>. QED BY <1>3, <1>10, <3>1
    <2>. QED BY <1>2, <1>5, <1>10, <2>1 DEF SequencesInv
<1>15. SequencesAgree'
    BY <1>2, <1>3, <1>5 DEF SequencesAgree, Live
<1>16. TableInv'
    <2>1. ~(nextSequence + 1 < pages[cursor]) => nextSequence + 1 >= pages[cursor]
        BY <1>3, <1>6
    <2>. QED BY <1>2, <1>4, <1>5, <1>7, <1>9, <2>1 DEF TableInv
<1>. QED BY <1>11, <1>12, <1>13, <1>14, <1>15, <1>16 DEF IInv

\* An error leaves the table and what is known of its end.
LEMMA FailedKeeps ==
    ASSUME IInv, NEW f \in fetches, f.heard, NEW gone \in BOOLEAN, Failed(f, gone),
           NEW left \in SUBSET {Silenced(f)}, fetches' = (fetches \ {f}) \cup left,
           UNCHANGED <<mounted, generation, view, server>>, faults' \in Nat
    PROVE  IInv'
<1>1. /\ mounted /\ loading /\ f.latest /\ f.run = generation
    BY HeardRequest
<1>2. /\ UNCHANGED <<cursor, nextSequence, cancels, mounted, generation, view, serverNext, pages>>
    BY DEF Failed, server
<1>3. PICK state \in {[ui EXCEPT !.error = TRUE],
                      [ui EXCEPT !.error = TRUE, !.retryRequired = ~gone, !.rerunRequired = gone]} :
          Settled(f, state)
    BY <1>1 DEF Failed
<1>4. loading' = FALSE /\ ui' = [state EXCEPT !.streaming = FALSE]
    BY <1>1, <1>3 DEF Settled, Settles
<1>5. state \in UiState /\ state.data = ui.data /\ state.hasMore = ui.hasMore
    BY <1>3 DEF IInv, TypeOK, UiState
<1>6. ui' \in UiState /\ ~ui'.streaming /\ ui'.data = ui.data /\ ui'.hasMore = ui.hasMore
    BY <1>4, <1>5 DEF UiState
<1>7. TypeOK'
    <2>1. loading' \in BOOLEAN
        BY <1>4
    <2>. QED BY <1>2, <1>6, <2>1, RequestEnds DEF IInv, TypeOK
<1>8. RequestsInv'
    <2>1. ~loading' /\ ~ui'.streaming /\ generation' = generation
        BY <1>2, <1>4, <1>6
    <2>. QED BY <2>1, RequestEnds DEF RequestsInv, Heard
<1>9. RunsInv'
    BY <1>2, RequestEnds DEF IInv, RunsInv
<1>10. SequencesInv'
    BY <1>1, <1>2, RequestEnds DEF SequencesInv
<1>11. SequencesAgree' /\ TableInv'
    BY <1>2, <1>6 DEF IInv, SequencesAgree, TableInv, Live
<1>. QED BY <1>7, <1>8, <1>9, <1>10, <1>11 DEF IInv

\* An answer that reached the component, or the network's error for it.
LEMMA ReceiveKeeps ==
    ASSUME IInv, NEW f \in fetches, Receive(f)
    PROVE  IInv'
<1>1. f.heard /\ UNCHANGED <<mounted, generation, view, server, faults>>
    BY DEF Receive
<1>2. CASE Started(f)
    BY <1>1, <1>2, StartedKeeps
<1>3. CASE GotPage(f)
    BY <1>1, <1>3, GotPageKeeps
<1>4. CASE fetches' = fetches \ {f} /\ Failed(f, f.answer = "gone")
    <2>1. {} \in SUBSET {Silenced(f)} /\ fetches' = (fetches \ {f}) \cup {}
        BY <1>4
    <2>2. faults' \in Nat
        BY <1>1 DEF IInv, TypeOK
    <2>3. (f.answer = "gone") \in BOOLEAN
        OBVIOUS
    <2>. QED BY <1>1, <1>4, <2>1, <2>2, <2>3, FailedKeeps
<1>. QED BY <1>2, <1>3, <1>4 DEF Receive

LEMMA NetworkErrorKeeps ==
    ASSUME IInv, NEW f \in fetches, NetworkError(f)
    PROVE  IInv'
<1>1. /\ f.heard /\ Failed(f, FALSE) /\ fetches' = (fetches \ {f}) \cup Unheard(f)
      /\ UNCHANGED <<mounted, generation, view, server>> /\ faults' = faults + 1
    BY DEF NetworkError
<1>2. faults' \in Nat
    BY <1>1 DEF IInv, TypeOK
<1>3. Unheard(f) \in SUBSET {Silenced(f)}
    BY <1>1, HeardRequest DEF Unheard, Silenced
<1>4. FALSE \in BOOLEAN
    OBVIOUS
<1>. QED BY <1>1, <1>2, <1>3, <1>4, FailedKeeps

-----------------------------------------------------------------------------
(* The network and the server *)

\* A request is answered, or lost when nobody listens: what the component holds
\* stays, and the server keeps to the sequences.
LEMMA AnswerKeeps ==
    ASSUME IInv, NEW f \in fetches, NEW answer \in {"started", "page", "gone", "refused"},
           fetches' = (fetches \ {f}) \cup {[g EXCEPT !.answer = answer] : g \in {f} \cap Heard},
           UNCHANGED <<mounted, generation, cursor, nextSequence, loading, ui, view, cancels, pages>>,
           faults' \in Nat, serverNext' \in [Cursors -> Nat \cup {None}],
           \A g \in fetches : g # f /\ g.kind = "start" /\ g.answer = "started" =>
               serverNext'[g.run] \in {None, 0},
           f.kind = "start" /\ answer = "started" => serverNext'[f.run] \in {None, 0},
           \A g \in fetches : g # f /\ g.kind = "page" /\ g.heard /\ g.answer = "page" =>
               serverNext'[cursor] \in {None, nextSequence + 1},
           f.kind = "page" /\ f.heard /\ answer = "page" =>
               serverNext'[cursor] \in {None, nextSequence + 1},
           SequencesAgree'
    PROVE  IInv'
<1>. DEFINE a == [f EXCEPT !.answer = answer]
<1>1. /\ a \in FetchRecord /\ a.kind = f.kind /\ a.run = f.run /\ a.cursor = f.cursor
      /\ a.sequence = f.sequence /\ a.latest = f.latest /\ a.heard = f.heard
      /\ a.answer = answer
    BY DEF IInv, TypeOK, FetchRecord
<1>2. /\ \A g \in fetches' : (g \in fetches /\ g # f) \/ (f.heard /\ g = a)
      /\ f.heard => a \in fetches'
    <2>. DEFINE rest == fetches \ {f}
    <2>1. CASE f.heard
        <3>1. {f} \cap Heard = {f}
            BY <2>1 DEF Heard
        <3>2. fetches' = rest \cup {a}
            BY <3>1
        <3>. QED BY <2>1, <3>2
    <2>2. CASE ~f.heard
        <3>1. {f} \cap Heard = {}
            BY <2>2 DEF Heard
        <3>2. fetches' = rest
            BY <3>1
        <3>. QED BY <2>2, <3>2
    <2>. QED BY <2>1, <2>2
<1>. HIDE DEF a
<1>3. /\ \A g \in fetches : g # f => g \in fetches'
    OBVIOUS
<1>4. TypeOK'
    <2>1. fetches' \subseteq FetchRecord
        BY <1>1, <1>2 DEF IInv, TypeOK
    <2>2. \A g \in fetches' : g.cursor = IF g.kind = "page" THEN g.run ELSE None
        BY <1>1, <1>2 DEF IInv, TypeOK
    <2>. QED BY <2>1, <2>2 DEF IInv, TypeOK
<1>5. RequestsInv'
    <2>1. \A g \in fetches' : g.run <= generation
        BY <1>1, <1>2 DEF IInv, RequestsInv
    <2>2. \A g \in fetches' : (g.latest <=> g.heard) /\ (g.heard => mounted /\ loading /\ g.run = generation)
        BY <1>1, <1>2, Zenon DEF IInv, RequestsInv
    <2>3. \A g, h \in fetches' : g.heard /\ h.heard => g = h
        BY <1>1, <1>2, HeardRequest
    <2>4. Heard # {} => Heard' # {}
        BY <1>1, <1>2, <1>3 DEF Heard
    <2>. QED BY <2>1, <2>2, <2>3, <2>4 DEF IInv, RequestsInv, Heard
<1>6. RunsInv'
    <2>1. \A g, h \in fetches' : g.kind = "start" /\ h.run = g.run => h = g
        BY <1>1, <1>2 DEF IInv, RunsInv
    <2>2. \A g \in fetches' : g.kind = "start" =>
              /\ cursor # g.run /\ (g.heard => cursor = None)
              /\ g.answer = "started" => serverNext'[g.run] \in {None, 0}
        BY <1>1, <1>2 DEF IInv, RunsInv
    <2>. QED BY <2>1, <2>2 DEF IInv, RunsInv
<1>7. SequencesInv'
    BY <1>1, <1>2 DEF IInv, SequencesInv
<1>8. TableInv'
    BY DEF IInv, TableInv
<1>. QED BY <1>4, <1>5, <1>6, <1>7, <1>8 DEF IInv

\* Neither the loss of a request nor a refused statement touches the server.
LEMMA LoseRequestKeeps ==
    ASSUME IInv, NEW f \in fetches, LoseRequest(f)
    PROVE  IInv'
<1>1. /\ ~f.heard /\ fetches' = fetches \ {f}
      /\ UNCHANGED <<mounted, generation, cursor, nextSequence, loading, ui, view, cancels,
                     serverNext, pages, faults>>
    BY DEF LoseRequest, refs, server
<1>2. fetches' = (fetches \ {f}) \cup {[g EXCEPT !.answer = "gone"] : g \in {f} \cap Heard}
    BY <1>1 DEF Heard
<1>3. /\ faults' \in Nat /\ serverNext' \in [Cursors -> Nat \cup {None}] /\ SequencesAgree'
    BY <1>1 DEF IInv, TypeOK, SequencesAgree, Live
<1>4. /\ \A g \in fetches : g # f /\ g.kind = "start" /\ g.answer = "started" =>
               serverNext'[g.run] \in {None, 0}
      /\ \A g \in fetches : g # f /\ g.kind = "page" /\ g.heard /\ g.answer = "page" =>
               serverNext'[cursor] \in {None, nextSequence + 1}
    BY <1>1, HeardRequest DEF IInv, RunsInv, SequencesInv
<1>5. "gone" \in {"started", "page", "gone", "refused"} /\ "gone" # "started" /\ "gone" # "page"
    OBVIOUS
<1>. QED BY <1>1, <1>2, <1>3, <1>4, <1>5, AnswerKeeps

LEMMA RefuseStartKeeps ==
    ASSUME IInv, NEW f \in fetches, RefuseStart(f)
    PROVE  IInv'
<1>1. /\ f.heard /\ fetches' = (fetches \ {f}) \cup {[f EXCEPT !.answer = "refused"]}
      /\ UNCHANGED <<mounted, generation, cursor, nextSequence, loading, ui, view, cancels,
                     serverNext, pages>>
      /\ faults' = faults + 1
    BY DEF RefuseStart, refs, server
<1>2. fetches' = (fetches \ {f}) \cup {[g EXCEPT !.answer = "refused"] : g \in {f} \cap Heard}
    BY <1>1 DEF Heard
<1>3. /\ faults' \in Nat /\ serverNext' \in [Cursors -> Nat \cup {None}] /\ SequencesAgree'
    BY <1>1 DEF IInv, TypeOK, SequencesAgree, Live
<1>4. /\ \A g \in fetches : g # f /\ g.kind = "start" /\ g.answer = "started" =>
               serverNext'[g.run] \in {None, 0}
      /\ \A g \in fetches : g # f /\ g.kind = "page" /\ g.heard /\ g.answer = "page" =>
               serverNext'[cursor] \in {None, nextSequence + 1}
    BY <1>1, HeardRequest DEF IInv, RunsInv, SequencesInv
<1>5. "refused" \in {"started", "page", "gone", "refused"} /\ "refused" # "started" /\ "refused" # "page"
    OBVIOUS
<1>. QED BY <1>1, <1>2, <1>3, <1>4, <1>5, AnswerKeeps

\* A cursor comes to life once, before the component has it.
LEMMA ServeStartKeeps ==
    ASSUME IInv, NEW f \in fetches, f.kind = "start", Serve(f)
    PROVE  IInv'
<1>1. /\ fetches' = (fetches \ {f}) \cup {[g EXCEPT !.answer = "started"] : g \in {f} \cap Heard}
      /\ serverNext' = [serverNext EXCEPT ![f.run] = 0]
      /\ UNCHANGED <<mounted, generation, cursor, nextSequence, loading, ui, view, cancels,
                     pages, faults>>
    BY DEF Serve, refs
<1>2. /\ f.run \in Cursors /\ cursor # f.run
      /\ \A g \in fetches : g.run = f.run => g = f
      /\ \A g \in fetches : g.run \in Cursors
    BY DEF IInv, TypeOK, RunsInv, FetchRecord
<1>3. /\ faults' \in Nat /\ serverNext' \in [Cursors -> Nat \cup {None}]
      /\ serverNext'[f.run] = 0 /\ \A c \in Cursors : c # f.run => serverNext'[c] = serverNext[c]
    BY <1>1, <1>2 DEF IInv, TypeOK
<1>4. SequencesAgree'
    BY <1>1, <1>2, <1>3 DEF IInv, SequencesAgree, Live
<1>5. \A g \in fetches : g # f /\ g.kind = "start" /\ g.answer = "started" =>
               serverNext'[g.run] \in {None, 0}
    BY <1>2, <1>3 DEF IInv, RunsInv
<1>6. \A g \in fetches : g # f /\ g.kind = "page" /\ g.heard /\ g.answer = "page" =>
               serverNext'[cursor] \in {None, nextSequence + 1}
    BY <1>2, <1>3, HeardRequest DEF IInv, SequencesInv
<1>7. "started" \in {"started", "page", "gone", "refused"} /\ f.kind # "page"
    OBVIOUS
<1>. QED BY <1>1, <1>3, <1>4, <1>5, <1>6, <1>7, AnswerKeeps

\* Only the request for the next page advances a cursor, and no older one can.
LEMMA ServePageKeeps ==
    ASSUME IInv, NEW f \in fetches, f.kind = "page", Serve(f)
    PROVE  IInv'
<1>. DEFINE c == f.run
            advances == PageAnswer(f) = "page" /\ ~IsLastPage(f)
<1>1. /\ fetches' = (fetches \ {f}) \cup {[g EXCEPT !.answer = PageAnswer(f)] : g \in {f} \cap Heard}
      /\ serverNext' = IF advances THEN [serverNext EXCEPT ![f.cursor] = @ + 1] ELSE serverNext
      /\ UNCHANGED <<mounted, generation, cursor, nextSequence, loading, ui, view, cancels,
                     pages, faults>>
    BY DEF Serve, refs
<1>2. /\ f.cursor = c /\ c \in Cursors /\ f.sequence \in Nat /\ nextSequence \in Nat
      /\ serverNext \in [Cursors -> Nat \cup {None}]
      /\ \A g \in fetches : g.kind = "start" => g.run # c
      /\ \A g \in fetches : g.run \in Cursors
    BY DEF IInv, TypeOK, RunsInv, FetchRecord
<1>3. /\ PageAnswer(f) \in {"started", "page", "gone", "refused"}
      /\ PageAnswer(f) = "page" =>
            /\ serverNext[c] # None /\ serverNext[c] \in Nat
            /\ serverNext[c] = f.sequence \/ serverNext[c] = f.sequence + 1
      /\ advances => serverNext[c] = f.sequence
    BY <1>2 DEF PageAnswer, IsLastPage, Live
<1>4. /\ serverNext' \in [Cursors -> Nat \cup {None}]
      /\ advances => serverNext'[c] = f.sequence + 1
      /\ ~advances => serverNext'[c] = serverNext[c]
      /\ \A d \in Cursors : d # c => serverNext'[d] = serverNext[d]
    BY <1>1, <1>2, <1>3
<1>5. PageAnswer(f) = "page" => serverNext'[c] = f.sequence + 1
    <2>1. PageAnswer(f) = "page" /\ ~advances => serverNext[c] = f.sequence + 1
        BY <1>2 DEF IsLastPage
    <2>. QED BY <1>4, <2>1
<1>. HIDE DEF advances, c
<1>6. mounted /\ c = cursor => f.sequence <= nextSequence
    BY DEF IInv, SequencesInv, c
<1>7. SequencesAgree'
    <2>. SUFFICES ASSUME mounted, cursor \in Live'
                  PROVE  serverNext'[cursor] \in {nextSequence, nextSequence + 1}
        BY <1>1 DEF SequencesAgree
    <2>1. cursor \in Cursors /\ serverNext'[cursor] # None
        BY DEF Live
    <2>2. CASE c = cursor /\ advances
        <3>1. serverNext[cursor] \in {nextSequence, nextSequence + 1}
            BY <1>3, <2>1, <2>2 DEF IInv, SequencesAgree, Live, advances
        <3>. QED BY <1>2, <1>3, <1>4, <1>6, <2>2, <3>1
    <2>3. CASE ~(c = cursor /\ advances)
        <3>1. serverNext'[cursor] = serverNext[cursor]
            BY <1>4, <2>1, <2>3
        <3>. QED BY <2>1, <3>1 DEF IInv, SequencesAgree, Live
    <2>. QED BY <2>2, <2>3
<1>8. \A g \in fetches : g # f /\ g.kind = "start" /\ g.answer = "started" =>
               serverNext'[g.run] \in {None, 0}
    BY <1>2, <1>4 DEF IInv, RunsInv
<1>9. ASSUME NEW g \in fetches, g # f, g.kind = "page", g.heard, g.answer = "page"
      PROVE  serverNext'[cursor] \in {None, nextSequence + 1}
    <2>1. /\ mounted /\ g.run = cursor /\ cursor \in Cursors
          /\ serverNext[cursor] \in {None, nextSequence + 1}
        BY <1>2, <1>9, HeardRequest DEF IInv, SequencesInv
    <2>2. CASE c = cursor /\ advances
        BY <1>2, <1>3, <1>6, <2>1, <2>2 DEF advances
    <2>3. CASE ~(c = cursor /\ advances)
        BY <1>4, <2>1, <2>3
    <2>. QED BY <2>2, <2>3
<1>10. f.heard /\ PageAnswer(f) = "page" => serverNext'[cursor] \in {None, nextSequence + 1}
    <2>1. f.heard => f.run = cursor /\ f.sequence = nextSequence
        BY HeardRequest DEF IInv, SequencesInv
    <2>. QED BY <1>5, <2>1 DEF c
<1>11. faults' \in Nat
    BY <1>1 DEF IInv, TypeOK
<1>12. f.kind # "start"
    OBVIOUS
<1>. QED BY <1>1, <1>3, <1>4, <1>7, <1>8, <1>9, <1>10, <1>11, <1>12, AnswerKeeps

\* A cursor that is gone stays gone.
LEMMA CursorDies ==
    ASSUME IInv, NEW c \in Cursors, serverNext' = [serverNext EXCEPT ![c] = None],
           cancels' \subseteq Cursors, faults' \in Nat,
           UNCHANGED <<refs, ui, view, fetches, pages>>
    PROVE  IInv'
<1>1. /\ serverNext' \in [Cursors -> Nat \cup {None}]
      /\ \A d \in Cursors : serverNext'[d] = None \/ serverNext'[d] = serverNext[d]
    BY DEF IInv, TypeOK
<1>2. UNCHANGED <<mounted, generation, cursor, nextSequence, loading, ui, view, fetches, pages>>
    BY DEF refs
<1>3. TypeOK'
    BY <1>1, <1>2 DEF IInv, TypeOK
<1>4. \A f \in fetches : f.run \in Cursors
    BY DEF IInv, TypeOK, FetchRecord
<1>5. RequestsInv' /\ TableInv'
    BY <1>2 DEF IInv, RequestsInv, TableInv, Heard
<1>6. RunsInv'
    BY <1>1, <1>2, <1>4 DEF IInv, RunsInv
<1>7. SequencesInv'
    BY <1>1, <1>2, <1>4 DEF IInv, SequencesInv
<1>8. SequencesAgree'
    BY <1>1, <1>2 DEF IInv, SequencesAgree, Live
<1>. QED BY <1>3, <1>5, <1>6, <1>7, <1>8 DEF IInv

-----------------------------------------------------------------------------
LEMMA NextIInv ==
    ASSUME IInv, [Next]_vars
    PROVE  IInv'
<1>1. CASE UNCHANGED vars
    BY <1>1 DEF vars, refs, server, IInv, TypeOK, RequestsInv, RunsInv, SequencesInv,
        SequencesAgree, TableInv, Heard, Live
<1>2. CASE User
    <2>1. generation \in Nat /\ MaxRuns \in Nat
        BY ClientAssumption DEF IInv, TypeOK
    <2>2. CASE Apply
        <3>1. /\ mounted /\ Execute(generation + 1) /\ generation + 1 \in Cursors
              /\ generation < generation + 1
              /\ UNCHANGED <<mounted, nextSequence, view, server, faults>>
            BY <2>1, <2>2 DEF Apply, Cursors
        <3>. QED BY <3>1, ExecuteKeeps
    <2>3. CASE SwitchConnection
        <3>1. /\ mounted /\ Execute(generation + 2) /\ generation + 2 \in Cursors
              /\ generation < generation + 2
              /\ UNCHANGED <<mounted, nextSequence, view, server, faults>>
            BY <2>1, <2>3 DEF SwitchConnection, Cursors
        <3>. QED BY <3>1, ExecuteKeeps
    <2>. QED BY <1>2, <2>2, <2>3, UnmountKeeps DEF User
<1>3. ASSUME NEW f \in fetches, Serve(f) PROVE IInv'
    <2>1. f.kind = "start" \/ f.kind = "page"
        BY DEF IInv, TypeOK, FetchRecord
    <2>. QED BY <1>3, <2>1, ServeStartKeeps, ServePageKeeps
<1>4. ASSUME NEW c \in Cursors, ServeCancel(c) \/ LoseCancel(c) \/ LoseCursor(c) PROVE IInv'
    <2>1. cancels \subseteq Cursors /\ faults \in Nat /\ faults + 1 \in Nat
        BY DEF IInv, TypeOK
    <2>2. CASE ServeCancel(c)
        BY <2>1, <2>2, CursorDies DEF ServeCancel
    <2>3. CASE LoseCursor(c)
        BY <2>1, <2>3, CursorDies DEF LoseCursor
    <2>4. CASE LoseCancel(c)
        <3>1. /\ cancels' \subseteq Cursors /\ faults' \in Nat
              /\ UNCHANGED <<mounted, generation, cursor, nextSequence, loading, ui, view,
                             fetches, serverNext, pages>>
            BY <2>1, <2>4 DEF LoseCancel, refs, server
        <3>2. TypeOK'
            BY <3>1 DEF IInv, TypeOK
        <3>. QED BY <3>1, <3>2 DEF IInv, RequestsInv, RunsInv, SequencesInv, SequencesAgree,
            TableInv, Heard, Live
    <2>. QED BY <1>4, <2>2, <2>3, <2>4
<1>5. CASE Network
    BY <1>3, <1>4, <1>5, LoseRequestKeeps, RefuseStartKeeps DEF Network
<1>. QED BY <1>1, <1>2, <1>5, RenderKeeps, LoadMoreKeeps, ReceiveKeeps, NetworkErrorKeeps DEF Next

\* Every behaviour keeps the invariant, whatever the user, the network and the
\* server do.
THEOREM Invariance == Spec => []IInv
<1>. QED BY InitIInv, NextIInv, PTL DEF Spec

\* The shape of the state; a page request is one of its run's cursor
\* (SqlQueryView.tsx:12-34).
THEOREM TypeCorrect == Spec => []TypeOK
<1>1. IInv => TypeOK
    BY DEF IInv
<1>. QED BY <1>1, Invariance, PTL

\* What is on screen is the result of the statement applied last, its first pages,
\* each once and in order, and its end is not announced early
\* (SqlQueryView.tsx:36-56, 72-116).
THEOREM TableCorrect == Spec => []TableIsPrefix
<1>1. IInv => TableIsPrefix
    BY DEF IInv, TableInv, RunsInv, TableIsPrefix
<1>. QED BY <1>1, Invariance, PTL

\* The component listens to one request, the latest, exactly while loading.current
\* and the spinner say so (SqlQueryView.tsx:37, 64-68, 87-88, 110-115).
THEOREM OneAtATime == Spec => []OneRequest
<1>1. IInv => OneRequest
    <2>. SUFFICES ASSUME IInv, mounted
                  PROVE  /\ Cardinality(Heard) = IF loading THEN 1 ELSE 0
                         /\ loading = ui.streaming
                         /\ \A f \in Heard : f.latest /\ f.run = generation
        BY DEF OneRequest
    <2>1. \A f \in Heard : f.latest /\ f.run = generation /\ loading
        BY DEF IInv, RequestsInv, Heard
    <2>2. loading = ui.streaming
        <3>1. loading \in BOOLEAN /\ ui.streaming \in BOOLEAN /\ (loading <=> ui.streaming)
            BY DEF IInv, TypeOK, UiState, RequestsInv
        <3>. QED BY <3>1
    <2>3. CASE loading
        <3>1. PICK f \in Heard : Heard = {f}
            BY <2>3 DEF IInv, RequestsInv
        <3>. QED BY <2>1, <2>2, <2>3, <3>1, FS_Singleton
    <2>4. CASE ~loading
        <3>1. Heard = {}
            BY <2>1, <2>4
        <3>. QED BY <2>2, <2>4, <3>1, FS_EmptySet
    <2>. QED BY <2>3, <2>4
<1>. QED BY <1>1, Invariance, PTL

\* A live cursor is at the page asked for next, or one past it, which it keeps:
\* no retry is refused (query.rs:248-260).
THEOREM RetriesAnswered == Spec => []SequencesAgree
<1>1. IInv => SequencesAgree
    BY DEF IInv
<1>. QED BY <1>1, Invariance, PTL
=============================================================================
