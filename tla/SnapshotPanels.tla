--------------------------- MODULE SnapshotPanels ----------------------------
(***************************************************************************)
(* What the browser shows of a connected snapshot: a file of the tree by    *)
(* its kind (components/DataViews.tsx, DeletionGrid.tsx), pages of rows     *)
(* (RowsPanel), the result of a statement (RowsTable.tsx) and the Blob of a *)
(* media cell, over what the backend answers (Snapshot, SqlStatement,       *)
(* FilePreview).  SqlClient and SqlCursor have how the rows of a statement  *)
(* arrive; here they are there at once.                                     *)
(*                                                                         *)
(* A panel fetches its resource with useJsonResource (api.ts): when the URL *)
(* changes, the request before is aborted.  The effect that does so runs    *)
(* before the next event, so it is part of the step that changes the URL.   *)
(***************************************************************************)
EXTENDS SqlStatement, FilePreview

CONSTANTS
    Fragmentations, \* the fragments a snapshot may have, as functions of the id
    Contents,       \* the values the Blob columns of each may have, by row and name
    OtherFiles,     \* files of no fragment: [path, bytes, decodes]
    Statements,     \* the statements asked
    PageRows,       \* rows a panel asks for, 20
    GridCells,      \* cells of a deletion grid, 500
    MaxFaults       \* bound: requests that are refused

ASSUME PanelsAssumption ==
    /\ PageRows \in Nat \ {0} /\ MaxFaults \in Nat
    /\ GridCells \in Nat /\ GridCells <= MaxOffsets

ASSUME FragmentsAssumption ==
    \A fragments \in Fragmentations :
        /\ IsFiniteSet(DOMAIN fragments) /\ DOMAIN fragments \subseteq Nat
        /\ \A f \in DOMAIN fragments :
            LET fragment == fragments[f]
            IN  /\ fragment.physical \in 0..FragmentSpan
                /\ fragment.deletion # None =>
                     /\ fragment.deletion.readVersion \in Nat \ {0}
                     /\ fragment.deletion.offsets \subseteq 0..(fragment.physical - 1)

ASSUME FilesAssumption == \A o \in OtherFiles : o.bytes \in Seq(Byte)

ASSUME StatementsAssumption ==
    \A statement \in Statements : statement.items \in Seq(Range(statement.items))

VARIABLES
    snapshot,       \* fragments with what is listed of their deletions, values
    panel,          \* the file selected, its view, and the offset of RowsPanel
    data, error,    \* state of useJsonResource; error is the URL that failed
    requests,       \* its requests: [url, refused]
    table,          \* the statement on screen with its answer
    opened,         \* the media cell opened last and the Blob it got
    faults

resource == <<data, error, requests>>
vars == <<snapshot, panel, resource, table, opened, faults>>

-----------------------------------------------------------------------------
(* The files of the snapshot *)

DataPath(f) == [dir |-> "data", name |-> <<f, 0, 0>>, ext |-> "lance"]

\* Each deletion file, the ones of earlier versions included.
DeletionFiles(fragments) ==
    UNION {{[path |-> DeletionPath(f, [fragments[f].deletion EXCEPT !.readVersion = v]),
             offsets |-> IF v = fragments[f].deletion.readVersion
                         THEN fragments[f].deletion.offsets ELSE {}] :
              v \in 1..fragments[f].deletion.readVersion} :
           f \in {g \in DOMAIN fragments : fragments[g].deletion # None}}

FilePaths(fragments) ==
    {DataPath(f) : f \in DOMAIN fragments} \cup {d.path : d \in DeletionFiles(fragments)}
      \cup {o.path : o \in OtherFiles}

Other(path) == CHOOSE o \in OtherFiles : o.path = path

BlobNames == {f.name : f \in {g \in Fields : IsBlobField(g) \/ IsBlobArrayField(g)}}

\* A live row has a value in each Blob column, of the depth of its type.
ASSUME ContentsAssumption ==
    \A fragments \in Fragmentations : \A values \in Contents[fragments] :
        /\ DOMAIN values = LiveAddresses(fragments) \X BlobNames
        /\ \A k \in DOMAIN values :
            /\ DOMAIN values[k] \subseteq Seq(Nat) /\ None \notin DOMAIN values[k]
            /\ IsValue(values[k], FieldNamed(k[2]).depth)

\* What the connection found to list of each fragment's deletions.
Listings(fragments) ==
    {v \in [DOMAIN fragments -> UNION {Listed(fragments[f].deletion) : f \in DOMAIN fragments}] :
        \A f \in DOMAIN fragments : v[f] \in Listed(fragments[f].deletion)}

NoPanel == [view |-> "none", path |-> None, offset |-> 0]

Init ==
    /\ \E fragments \in Fragmentations :
       \E listed \in Listings(fragments), values \in Contents[fragments] :
          snapshot = [fragments |-> fragments, listed |-> listed,
                      rows |-> DatasetRows(fragments), values |-> values]
    /\ panel = NoPanel /\ data = None /\ error = None /\ requests = {}
    /\ table = None /\ opened = None /\ faults = 0

-----------------------------------------------------------------------------
(* useJsonResource *)

\* FileDataView, and the URL its view fetches.
View(path) ==
    CASE Kind(path) \in {"manifest", "data", "deletion", "transaction"} -> Kind(path)
      [] OTHER -> "raw"

Url(p) == IF p.view \in {"data", "transaction", "raw"} THEN p ELSE None

\* A request given up that reaches the panel all the same.
GivenUpStays == requests

\* The abort of a request.  One whose error body is being read reports its error
\* anyway (requireOk), if the view that fetched it is still there.
GivenUp == {q \in requests : q.refused}

\* The same component with another URL, or another component.
SameComponent(p, q) ==
    p.view = q.view /\ (p.view = "data" => p.path = q.path)

Show(p) ==
    /\ panel' = p /\ opened' = None
    /\ IF p = panel THEN UNCHANGED resource
       ELSE /\ data' = None /\ error' = None
            /\ requests' = (IF SameComponent(p, panel) THEN GivenUp ELSE {}) \cup
                  (IF Url(p) = None THEN {} ELSE {[url |-> p, refused |-> FALSE]})
    /\ UNCHANGED <<snapshot, faults>>

-----------------------------------------------------------------------------
(* The answers *)

\* read_rows, limit and offset applied to the live rows.
RowsPage(offset) ==
    LET live == LiveAddresses(snapshot.fragments)
        page == {a \in live : Cardinality({b \in live : b < a})
                                \in offset..(offset + PageRows - 1)}
    IN  [offset |-> offset, total |-> snapshot.rows,
         rows |-> {SerializedRow(snapshot.values, PreviewResult, PreviewMedia, a) : a \in page}]

Answer(url) ==
    CASE url.view = "data" -> RowsPage(url.offset)
      [] url.view = "transaction" -> Transaction(url.path, Other(url.path).decodes)
      [] OTHER -> Preview(url.path, Other(url.path).bytes)

Answered(q) ==
    /\ ~q.refused /\ Answer(q.url) # Refused
    /\ data' = Answer(q.url)
    /\ requests' = requests \ {q}
    /\ UNCHANGED <<snapshot, panel, error, table, opened, faults>>

\* An error status; the body is still to be read.
Fails(q) ==
    /\ ~q.refused
    /\ IF Answer(q.url) = Refused THEN UNCHANGED faults
       ELSE faults < MaxFaults /\ faults' = faults + 1
    /\ requests' = (requests \ {q}) \cup {[q EXCEPT !.refused = TRUE]}
    /\ UNCHANGED <<snapshot, panel, data, error, table, opened>>

Reports(q) ==
    /\ q.refused
    /\ error' = q.url
    /\ requests' = requests \ {q}
    /\ UNCHANGED <<snapshot, panel, data, table, opened, faults>>

-----------------------------------------------------------------------------
(* DeletionGrid, of the fragment a data file or a deletion file belongs to *)

ViewOf(f) ==
    DeletionView(f, snapshot.fragments[f].deletion, snapshot.listed[f])

GridFragments ==
    {f \in DOMAIN snapshot.fragments :
        /\ ViewOf(f) # None
        /\ \/ panel.view = "data" /\ panel.path = DataPath(f)
           \/ panel.view = "deletion" /\ panel.path = ViewOf(f).path}

GridOffsets(f) ==
    0..((IF snapshot.fragments[f].physical < GridCells
         THEN snapshot.fragments[f].physical ELSE GridCells) - 1)

RedCells(f) == ViewOf(f).offsets \cap GridOffsets(f)

-----------------------------------------------------------------------------
(* The user *)

SelectFile ==
    \E path \in FilePaths(snapshot.fragments) :
        /\ Show([view |-> View(path), path |-> path, offset |-> 0])
        /\ table' = None

HasNext == panel.offset + PageRows < data.total

TurnPage ==
    /\ panel.view = "data" /\ data # None
    /\ \/ HasNext /\ Show([panel EXCEPT !.offset = @ + PageRows])
       \/ /\ panel.offset # 0
          /\ Show([panel EXCEPT !.offset = IF @ > PageRows THEN @ - PageRows ELSE 0])
    /\ UNCHANGED table

SelectSql == Show([NoPanel EXCEPT !.view = "sql"]) /\ table' = None

\* The statement of a fresh SQL view.
RunStatement ==
    /\ panel.view = "sql" /\ table = None
    /\ \E statement \in Statements :
        LET answer == StartSql(statement)
        IN  table' = [statement |-> statement, answer |-> answer,
                      rows |-> IF answer = None THEN {}
                               ELSE {SerializedRow(snapshot.values, answer.result, answer.media, a) :
                                       a \in LiveAddresses(snapshot.fragments)}]
    /\ UNCHANGED <<snapshot, panel, resource, opened, faults>>

RowsOnScreen ==
    IF panel.view = "data" /\ data # None THEN data.rows
    ELSE IF table # None THEN table.rows ELSE {}

OpenCell ==
    /\ \E cell \in UNION {Cells(r) : r \in RowsOnScreen} :
          opened' = [cell |-> cell,
                     blob |-> OpenedBlob(snapshot.values, cell.column.field,
                                         cell.address, cell.path)]
    /\ UNCHANGED <<snapshot, panel, resource, table, faults>>

Next ==
    \/ SelectFile \/ TurnPage \/ SelectSql \/ RunStatement \/ OpenCell
    \/ \E q \in requests : Answered(q) \/ Fails(q) \/ Reports(q)

Spec == Init /\ [][Next]_vars

-----------------------------------------------------------------------------
(* Properties *)

Paths == FilePaths(snapshot.fragments)
Urls == [view : {"data", "transaction", "raw"}, path : Paths, offset : Nat]

\* The shape of the state: whatever panels were left and pages turned, one
\* request at most can still answer, and it is the one of the panel on screen
\* (api.ts:39-49).
TypeOK ==
    /\ panel = NoPanel \/ panel.view = "sql" \/ panel.path \in Paths
    /\ error \in Urls \cup {None} /\ faults \in 0..MaxFaults
    /\ \A q \in requests : q.url \in Urls /\ q.refused \in BOOLEAN
    /\ \A q \in requests : ~q.refused => q.url = panel /\ data = None
    /\ table # None => panel.view = "sql"

Live == LiveAddresses(snapshot.fragments)

ResultOnScreen == IF table # None THEN table.answer.result ELSE PreviewResult

\* What a prepared statement leaves open, see EveryCellOpensItsBlob and
\* EveryBlobHasItsCell: sorted by a column that is not selected, a renamed column
\* of it is taken for the field of its new name, or for none...
TakenForItsName(i) ==
    /\ table # None
    /\ SortsByHidden(table.statement.order, ResultOnScreen)
    /\ ResultOnScreen[i].name # ResultOnScreen[i].of

\* ...and the member _rowaddr of a struct is taken for the row address.
MemberForAddress ==
    table # None /\ \E i \in DOMAIN table.statement.items :
        table.statement.items[i].kind = "member"

\* A media cell opens the Blob that its column has in its row, of all the Blobs
\* of all rows: through aliases, wildcards, the address appended to the statement
\* and the index path of a nested item (query.rs:370-486, schema.rs:55-90,
\* blob.rs:36-71, media.rs:84-145).  Not so, and left out here: a column of
\* TakenForItsName, a statement of MemberForAddress, an address beyond MaxExact.
CellOpensItsBlob ==
    opened # None /\ ~TakenForItsName(opened.cell.column.index) /\ ~MemberForAddress
        /\ opened.cell.at <= MaxExact =>
      opened.blob = <<opened.cell.at, ResultOnScreen[opened.cell.column.index].of,
                      opened.cell.path>>

\* The columns of the result on screen that have Blobs, and the Blobs a row has in
\* one of them, by the column's name and the index path.
BlobColumns == {i \in DOMAIN ResultOnScreen : ResultOnScreen[i].of \in BlobNames}

BlobsIn(r, i) ==
    {<<ResultOnScreen[i].name, p>> :
        p \in MediaItems(snapshot.values[<<r.at, ResultOnScreen[i].of>>])}

CellsShown(r) == {<<c.column.name, c.path>> : c \in Cells(r)}

\* A preview, or a statement that was prepared.
IsPrepared == table # None => Prepares(table.statement)

\* Whatever the statement, only a Blob has a media cell, a null never.  In a row
\* preview every Blob has one; in the result of a prepared statement every Blob of
\* every column, with two exceptions: a column of TakenForItsName and a statement of
\* MemberForAddress (query.rs:370-486, blob.rs:36-71).  EveryBlobHasItsCell is
\* without the exceptions.
BlobsHaveCells ==
    \A r \in RowsOnScreen :
        /\ CellsShown(r) \subseteq UNION {BlobsIn(r, i) : i \in BlobColumns}
        /\ IsPrepared /\ ~MemberForAddress =>
             \A i \in BlobColumns : ~TakenForItsName(i) => BlobsIn(r, i) \subseteq CellsShown(r)

\* The pages of a row preview are the live rows, none twice and none left out,
\* and there is a next page exactly when there are more rows: `total` is counted
\* from the deletion files when the dataset is opened, the rows are those of a
\* scan (dataset.rs:281-333, query.rs:57-104, DataViews.tsx:54-80).
RowsPaged ==
    panel.view = "data" /\ data # None =>
        /\ {r.at : r \in data.rows} =
              {LiveRow(snapshot.fragments, n) :
                 n \in panel.offset..(panel.offset + PageRows - 1) \cap 0..(Cardinality(Live) - 1)}
        /\ HasNext <=> panel.offset + PageRows < Cardinality(Live)
        /\ data.rows = {} => Live = {}

\* A deletion file shows its own deletions, or that the snapshot does not use it,
\* and a red cell is a deleted row.  A live cell is a live row unless the list of
\* a hash set was cut (dataset.rs:285-319, DeletionGrid.tsx, DataViews.tsx:97).
DeletionsShown ==
    \A f \in GridFragments :
        LET deletion == snapshot.fragments[f].deletion
        IN  /\ \A d \in DeletionFiles(snapshot.fragments) :
                 d.path = panel.path => d.offsets = deletion.offsets
            /\ RedCells(f) \subseteq deletion.offsets
            /\ deletion.encoding = "Bitmap" \/ ~ViewOf(f).truncated =>
                 RedCells(f) = deletion.offsets \cap GridOffsets(f)

\* A preview is of the file selected, its first bytes up to the limit, and says
\* when there are more; a text short enough is shown as text (files.rs:185-225).
FileShown ==
    panel.view = "raw" /\ data # None =>
        LET bytes == Other(panel.path).bytes
        IN  /\ data.path = panel.path /\ IsPrefix(data.content, bytes)
            /\ data.truncated <=> data.content # bytes
            /\ data.truncated <=> Len(bytes) > PreviewBytes
            /\ ~data.truncated => (data.format = "text" <=> IsText(bytes))

-----------------------------------------------------------------------------
(* Not so: what the panels leave open *)

\* Sorting by a column that is not selected, a struct member called _rowaddr, an
\* address beyond 2^53 lead a cell to another Blob, or to none.
EveryCellOpensItsBlob ==
    opened # None =>
      opened.blob = <<opened.cell.at, ResultOnScreen[opened.cell.column.index].of,
                      opened.cell.path>>

\* README.md:235-237: the Blobs of a result are had from its media cells.  The same
\* columns and statements leave Blobs without one: the statement of the repository's
\* own test, SELECT blob AS preview ... ORDER BY id (query.rs:546-548), is prepared
\* and yet has no media column.
EveryBlobHasItsCell ==
    IsPrepared =>
      \A r \in RowsOnScreen : \A i \in BlobColumns : BlobsIn(r, i) \subseteq CellsShown(r)

\* README.md:37-38: the grid shows deleted rows "instead of silently hiding" them.
GridShowsDeletions ==
    \A f \in GridFragments :
        RedCells(f) = snapshot.fragments[f].deletion.offsets \cap GridOffsets(f)

\* A text whose limit falls into a character is shown as hex.
TextIsText ==
    panel.view = "raw" /\ data # None /\ IsText(Other(panel.path).bytes)
      => data.format = "text"

\* A page given up while the body of its error was read reports it on the next.
ErrorIsOfThisPage == error # None => error = panel
=============================================================================
