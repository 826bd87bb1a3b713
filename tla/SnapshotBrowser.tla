-------------------------- MODULE SnapshotBrowser ---------------------------
(***************************************************************************)
(* The browser's application component (frontend/src/App.tsx) with the two  *)
(* dialogs that lead to a snapshot (components/DatasetConnector.tsx): a     *)
(* dataset is discovered, one of its references is picked, the backend      *)
(* connects to it, and the first page of its file listing, once there,      *)
(* makes it the snapshot on screen.  More pages are appended while the file *)
(* tree is scrolled.                                                        *)
(*                                                                         *)
(* As in SqlClient, `ui` is the React state set and `view` the state last   *)
(* rendered, which the handlers of the page captured.  A handler given to a *)
(* request runs when its answer comes, with what it captured when the       *)
(* request was sent.                                                        *)
(*                                                                         *)
(* Every discovery finds another dataset, so a dataset is the number of its *)
(* discovery; a connection is the number of the pick it was made for; a     *)
(* file page is the pair of its connection and its number.                  *)
(***************************************************************************)
EXTENDS Naturals, Sequences, FiniteSets

CONSTANTS
    MaxCatalogs,    \* bound: datasets discovered
    MaxPicks,       \* bound: references picked
    MaxFaults,      \* bound: requests that fail
    Pages,          \* pages of a file listing
    StaleEvents,    \* whether an event can reach the page before React renders
    None            \* undefined, null

ASSUME BrowserAssumption ==
    /\ MaxCatalogs \in Nat \ {0} /\ MaxPicks \in Nat \ {0} /\ MaxFaults \in Nat
    /\ Pages \in Nat \ {0} /\ StaleEvents \in BOOLEAN
    /\ None \notin Nat \cup [pick : Nat, dataset : Nat]

VARIABLES
    fileGeneration, loadingFilesRef,    \* refs; fileRequest.current is `latest`
    ui,             \* React state
    view,           \* React state of the last render
    discoveries,    \* requests for /api/dataset/references
    connects,       \* requests for /api/dataset/connect
    loads,          \* requests for /api/files
    catalogs, picks, faults     \* how many so far

refs == <<fileGeneration, loadingFilesRef>>
requests == <<discoveries, connects, loads>>
counts == <<catalogs, picks, faults>>
vars == <<refs, ui, view, requests, counts>>

Blank == [connection |-> None, catalog |-> None, pendingCatalog |-> None,
          files |-> << >>, nextFileOffset |-> None, loadingFiles |-> FALSE,
          selection |-> None, error |-> FALSE,
          showConnector |-> TRUE, showReference |-> FALSE]

Init ==
    /\ fileGeneration = 0 /\ loadingFilesRef = FALSE
    /\ ui = Blank /\ view = Blank
    /\ discoveries = {} /\ connects = {} /\ loads = {}
    /\ catalogs = 0 /\ picks = 0 /\ faults = 0

-----------------------------------------------------------------------------
(* What is on the page *)

Screen(v) ==
    IF v.error THEN "fatal"
    ELSE IF v.connection # None THEN "app"
    ELSE IF ~v.showConnector /\ v.pendingCatalog # None THEN "browser"
    ELSE "connector"

\* Which DatasetConnector and which ReferenceBrowser are mounted.
Connector(v) ==
    IF Screen(v) = "connector" THEN "full"
    ELSE IF Screen(v) = "app" /\ v.showConnector THEN "overlay" ELSE None

OfferedCatalog(v) ==
    IF v.pendingCatalog # None THEN v.pendingCatalog ELSE v.catalog

Browser(v) ==
    IF Screen(v) = "browser" THEN "full"
    ELSE IF Screen(v) = "app" /\ v.showReference /\ OfferedCatalog(v) # None
    THEN "overlay" ELSE None

\* A dialog forgets its request (`discovering`, `connecting`) when it goes.
Mounted(sent, stays) == {[r EXCEPT !.mounted = @ /\ stays] : r \in sent}

Render ==
    /\ view # ui
    /\ view' = ui
    /\ discoveries' = Mounted(discoveries, Connector(ui) = Connector(view))
    /\ connects' = Mounted(connects, Browser(ui) = Browser(view))
    /\ loads' = Mounted(loads, Browser(ui) = Browser(view))
    /\ UNCHANGED <<refs, ui, counts>>

\* The user, or the page, acts on what is rendered.
Event == StaleEvents \/ view = ui

Set(state) ==
    /\ Event
    /\ ui' = state
    /\ UNCHANGED <<refs, view, requests, counts>>

OpenConnector == Screen(view) = "app" /\ Set([ui EXCEPT !.showConnector = TRUE])
OpenReference == Screen(view) = "app" /\ Set([ui EXCEPT !.showReference = TRUE])

CancelConnector ==
    Connector(view) = "overlay" /\ Set([ui EXCEPT !.showConnector = FALSE])

\* onBack of either ReferenceBrowser.
Back ==
    \/ /\ Browser(view) = "full"
       /\ Set([ui EXCEPT !.pendingCatalog = None, !.showConnector = TRUE])
    \/ /\ Browser(view) = "overlay"
       /\ Set([ui EXCEPT !.pendingCatalog = None, !.showReference = FALSE])

\* "Choose another dataset" on the fatal screen.
ChooseAnother ==
    Screen(view) = "fatal" /\ Set([ui EXCEPT !.error = FALSE, !.showConnector = TRUE])

SelectFile(i) ==
    /\ Screen(view) = "app" /\ i \in DOMAIN view.files
    /\ Set([ui EXCEPT !.selection = view.files[i][1]])

SelectOverview == Screen(view) = "app" /\ Set([ui EXCEPT !.selection = None])

Reconnect(state) == [state EXCEPT !.showReference = FALSE, !.showConnector = TRUE]

\* Another component's request was answered 410.
ConnectionExpired ==
    /\ Screen(view) = "app"
    /\ ui' = Reconnect(ui)
    /\ UNCHANGED <<refs, view, requests, counts>>

-----------------------------------------------------------------------------
(* DatasetConnector *)

Submit ==
    /\ Event /\ Connector(view) # None
    /\ ~\E d \in discoveries : d.mounted
    /\ catalogs < MaxCatalogs
    /\ catalogs' = catalogs + 1
    /\ discoveries' = discoveries \cup
          {[catalog |-> catalogs + 1, info |-> view.connection # None, mounted |-> TRUE]}
    /\ UNCHANGED <<refs, ui, view, connects, loads, picks, faults>>

\* onDiscovered
Discovered(d) ==
    /\ discoveries' = discoveries \ {d}
    /\ ui' = [ui EXCEPT !.pendingCatalog = d.catalog, !.showConnector = FALSE,
                        !.showReference = @ \/ d.info]
    /\ UNCHANGED <<refs, view, connects, loads, counts>>

\* The error stays in the dialog.
DiscoveryFails(d) ==
    /\ faults < MaxFaults /\ faults' = faults + 1
    /\ discoveries' = discoveries \ {d}
    /\ UNCHANGED <<refs, ui, view, connects, loads, catalogs, picks>>

-----------------------------------------------------------------------------
(* ReferenceBrowser and loadFiles *)

\* ReferenceBrowser's select, disabled until the load that follows its request is
\* over too; the handler given to the request is that of the render, with its
\* pendingCatalog.
Pick ==
    /\ Event /\ Browser(view) # None
    /\ ~\E r \in connects \cup loads : r.mounted
    /\ picks < MaxPicks
    /\ picks' = picks + 1
    /\ connects' = connects \cup
          {[pick |-> picks + 1, dataset |-> OfferedCatalog(view),
            pendingCatalog |-> view.pendingCatalog, mounted |-> TRUE]}
    /\ UNCHANGED <<refs, ui, view, discoveries, loads, catalogs, faults>>

\* Abort that reaches nothing.
AbortNothing == loads

\* fileRequest.current?.abort().  An error response whose body is not read yet
\* is reported all the same: requireOk catches what json() throws.
Abort == {f \in loads : ~f.latest \/ f.refused}

Superseded(others) == {[f EXCEPT !.latest = FALSE] : f \in others}

Load(connection, pendingCatalog, offset, append, mounted, generation) ==
    [connection |-> connection, pendingCatalog |-> pendingCatalog,
     offset |-> offset, append |-> append, mounted |-> mounted,
     generation |-> generation, latest |-> TRUE, refused |-> FALSE]

\* onConnected: loadFiles(nextConnection, 0, false)
Connected(c) ==
    /\ connects' = connects \ {c}
    /\ fileGeneration' = fileGeneration + 1
    /\ loads' = Superseded(Abort) \cup
          {Load([pick |-> c.pick, dataset |-> c.dataset], c.pendingCatalog, 0,
                FALSE, c.mounted, fileGeneration + 1)}
    /\ loadingFilesRef' = TRUE
    /\ ui' = [ui EXCEPT !.loadingFiles = FALSE]
    /\ UNCHANGED <<view, discoveries, counts>>

\* The error stays in the dialog; a discovery that expired opens the connector.
ConnectFails(c) ==
    /\ faults < MaxFaults /\ faults' = faults + 1
    /\ connects' = connects \ {c}
    /\ ui' \in {ui, Reconnect(ui)}
    /\ UNCHANGED <<refs, view, discoveries, loads, catalogs, picks>>

\* loadMoreFiles without its test of loadingFilesRef.current.
LoadsAnyway == TRUE

MayLoad == ~loadingFilesRef

\* loadMoreFiles, from the scrolled file tree or its effect.  An event that meets
\* a stale page may ask twice, Pages bounds how often.
LoadMore ==
    /\ Event /\ Screen(view) = "app"
    /\ view.nextFileOffset # None /\ ~view.loadingFiles
    /\ MayLoad /\ Len(ui.files) <= Pages
    /\ loads' = Superseded(loads) \cup
          {Load(view.connection, view.pendingCatalog, view.nextFileOffset, TRUE,
                FALSE, fileGeneration)}
    /\ loadingFilesRef' = TRUE
    /\ ui' = [ui EXCEPT !.loadingFiles = TRUE]
    /\ UNCHANGED <<fileGeneration, view, discoveries, connects, counts>>

-----------------------------------------------------------------------------
(* The answers of /api/files *)

Current(f) == f.generation = fileGeneration

\* A finally block that an error does not reach.
SettlesLoaded(f) == f.generation = fileGeneration /\ ~f.refused

\* The condition of the finally block.
Settles(f) == f.generation = fileGeneration

Settled(f, state) ==
    /\ loads' = loads \ {f}
    /\ loadingFilesRef' = (loadingFilesRef /\ ~Settles(f))
    /\ ui' = [state EXCEPT !.loadingFiles = @ /\ ~Settles(f)]

NextOffset(f) == IF f.offset + 1 < Pages THEN f.offset + 1 ELSE None

Appended(f) ==
    [ui EXCEPT !.files = Append(@, <<f.connection.pick, f.offset>>),
               !.nextFileOffset = NextOffset(f)]

OpenedOn(f, pendingCatalog, selection) ==
    [ui EXCEPT !.connection = f.connection,
               !.catalog = IF pendingCatalog # None THEN pendingCatalog ELSE @,
               !.pendingCatalog = None,
               !.files = <<<<f.connection.pick, f.offset>>>>,
               !.nextFileOffset = NextOffset(f), !.selection = selection,
               !.showConnector = FALSE, !.showReference = FALSE, !.error = FALSE]

\* The catalog pending now, not in the render that picked.
OpenedWithPending(f) == OpenedOn(f, ui.pendingCatalog, None)

Opened(f) == OpenedOn(f, f.pendingCatalog, None)

\* The body of a load given up is rejected before anything else arrives.
Arrives(f) == ~f.refused /\ \A g \in loads : g.refused => g.latest

Loaded(f) ==
    /\ Arrives(f)
    /\ Settled(f, IF ~Current(f) THEN ui
                  ELSE IF f.append THEN Appended(f) ELSE Opened(f))
    /\ UNCHANGED <<fileGeneration, view, discoveries, connects, counts>>

\* An error status; its body is still to be read.
Refused(f) ==
    /\ Arrives(f) /\ faults < MaxFaults
    /\ faults' = faults + 1
    /\ loads' = (loads \ {f}) \cup {[f EXCEPT !.refused = TRUE]}
    /\ UNCHANGED <<refs, ui, view, discoveries, connects, catalogs, picks>>

\* The catch block, which does not look at the generation; 410 opens the
\* connector first.
LoadFails(f) ==
    /\ \/ f.refused /\ UNCHANGED faults
       \/ Arrives(f) /\ faults < MaxFaults /\ faults' = faults + 1
    /\ \E expired \in IF f.refused THEN BOOLEAN ELSE {FALSE} :
          LET state == IF expired THEN Reconnect(ui) ELSE ui
          IN  Settled(f, [state EXCEPT !.error = TRUE])
    /\ UNCHANGED <<fileGeneration, view, discoveries, connects, catalogs, picks>>

-----------------------------------------------------------------------------

User ==
    \/ OpenConnector \/ OpenReference \/ CancelConnector \/ Back \/ ChooseAnother
    \/ \E i \in 1..(Pages + 1) : SelectFile(i)
    \/ SelectOverview \/ Submit \/ Pick \/ LoadMore

Answers ==
    \/ \E d \in discoveries : Discovered(d) \/ DiscoveryFails(d)
    \/ \E c \in connects : Connected(c) \/ ConnectFails(c)
    \/ \E f \in loads : Loaded(f) \/ Refused(f) \/ LoadFails(f)

Next == Render \/ User \/ ConnectionExpired \/ Answers

Spec == Init /\ [][Next]_vars

\* Every request for files is answered or fails.
Fairness == WF_vars(\E f \in loads : Loaded(f) \/ LoadFails(f))

FairSpec == Spec /\ Fairness

-----------------------------------------------------------------------------
(* Properties *)

Catalogs == 1..MaxCatalogs
Connections == [pick : 1..MaxPicks, dataset : Catalogs]
Optional(S) == S \cup {None}

UiState == [connection : Optional(Connections), catalog : Optional(Catalogs),
            pendingCatalog : Optional(Catalogs), files : Seq((1..MaxPicks) \X Nat),
            nextFileOffset : Optional(0..Pages), loadingFiles : BOOLEAN,
            selection : Optional(1..MaxPicks), error : BOOLEAN,
            showConnector : BOOLEAN, showReference : BOOLEAN]

\* The shape of the state: a snapshot on screen has a catalog to go back to,
\* whatever dialogs were closed before its files came (App.tsx:68).
TypeOK ==
    /\ fileGeneration \in Nat /\ loadingFilesRef \in BOOLEAN
    /\ {ui, view} \subseteq UiState
    /\ \A f \in loads : f.connection \in Connections /\ f.offset \in 0..Pages
    /\ ui.connection # None => ui.catalog # None

\* The file tree is the listing of the snapshot on screen, its first pages, each
\* once and in order, and scrolling goes on where they end, whatever loads were
\* superseded, refused or late; and the file shown is one of that snapshot, whose
\* connection its path is asked of (App.tsx:61-75, 173).
FilesAreListing ==
    IF ui.connection = None THEN ui.files = << >> /\ ui.selection = None
    ELSE /\ ui.selection \in {None, ui.connection.pick}
         /\ ui.files = [i \in 1..Len(ui.files) |-> <<ui.connection.pick, i - 1>>]
         /\ ui.files # << >>
         /\ ui.nextFileOffset =
               IF Len(ui.files) < Pages THEN Len(ui.files) ELSE None

\* At most one load is waited for, and exactly while loadingFilesRef says so:
\* the others were superseded (App.tsx:50-54, 79-83).
OneLoad ==
    LET waited == {f \in loads : f.latest /\ Current(f)}
    IN  /\ Cardinality(waited) = IF loadingFilesRef THEN 1 ELSE 0
        /\ ui.loadingFiles = \E f \in waited : f.append

\* The flag that holds back further pages is always let go again, by errors too:
\* else the tree could never be continued (App.tsx:78-83, 90).
LoadEnds == loadingFilesRef ~> ~loadingFilesRef

\* "The file hierarchy [...] reflect that selected snapshot" (README.md:156-158).
FilesOfSnapshot ==
    \A i \in DOMAIN ui.files : ui.files[i][1] = ui.connection.pick

\* "Select any version or tag to open that immutable dataset snapshot"
\* (README.md:156): a snapshot is not replaced by one picked before it.
LatestPickStays ==
    [][ui.connection # None /\ ui'.connection # ui.connection
         => ui'.connection.pick > ui.connection.pick]_vars

\* "Select it to reopen the same lineage graph" (README.md:163-164): the catalog
\* offered by the header is the one of the dataset on screen.
SameLineage == ui.connection # None => ui.catalog = ui.connection.dataset
=============================================================================
