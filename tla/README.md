# Lance Inspector in TLA+

Lance Inspector is a read-only browser for Lance datasets: an Axum/tokio backend
(`src/backend`) and a React frontend (`src/frontend`).  This directory holds TLA+
models of the parts of it that keep state, share it between concurrent requests,
or decide something that is easy to get wrong; configurations that check them
with TLC; and proofs that the TLA+ proof system checks.  Everything is written
from the source; `PROJECT.json` maps each definition to the lines it stands for.

## The system

```
 React components ──HTTP──▶ handlers (one tokio task each) ──▶ BoundedCache: discoveries,
   App, dialogs, SQL view     discover, connect, files, sql,       connections, cursors, Blob arrays
   file tree                  rows, media, preview            ──▶ Lance, DataFusion, object store
```

Every request carries the UUID of something the backend keeps in a bounded LRU
cache.  A handler clones an `Arc` out of the cache and works on it under a mutex
of its own; so an entry can expire, be evicted or be removed while it is in use.
Nothing is written to disk: a restart forgets all sessions, and the browser is
sent back to its connection dialog (410).

| Component | State | Operations | What makes it correct |
|---|---|---|---|
| `BoundedCache` (`cache.rs`) | `lru::LruCache` under a mutex | get, get_or_insert_with, insert, remove | list and map agree; the entry evicted is the one used least recently, and only for a new key |
| Sessions (`state.rs`, `dataset.rs`) | 256 discoveries, 256 connections with a time of last access | discover, connect, every access | an entry in use does not expire, an idle one is not served |
| SQL cursor (`query.rs`) | stream, pending batch, next sequence, latest page, `done`; under an async mutex | page, cancel; expiry, eviction | each row in one page, in order; retries get the same page; the end and the cap are told truly |
| SQL statement, schema (`query.rs`, `schema.rs`) | none | check that it reads only, add the row address, find the field of each column | every Blob of a prepared statement has a cell and every cell opens its own Blob, but for the exceptions below |
| Row pages, dataset information (`query.rs`, `dataset.rs`) | what was read when the dataset was opened | pages of live rows, counts, deleted offsets | pages and total agree; a red cell is a deleted row |
| Blob paths (`blob.rs`, `media.rs`) | none | offer an index path for each nested Blob, follow one | following an offered path leads to the same Blob |
| File previews (`files.rs`) | none | first bytes of a file, transactions | the preview is a beginning of the file and says whether it is all |
| File listing (`files.rs`) | producer task, bounded channel, held back entry, latest page; under an async mutex | page; start, drop and restart | each entry in one page, in order; retries; no deadlock of channel and mutex |
| References (`dataset.rs`, `LineageGraph.tsx`) | the discovered dataset and its catalog | discover, pick a version, a tag or a text | a button opens what it is drawn on |
| Media (`media.rs`, `blob.rs`) | cache of loaded Blob arrays, one `OnceCell` per row | ranges of Blobs, elements of Blob arrays | the bytes asked for, of the row asked for; one load for many requests |
| Errors, profiler, server | (the profiler, built in by default: one permit) | statuses, routes | see "Not modelled" |
| SQL view (`SqlQueryView.tsx`) | refs and React state | apply, load more, retry, rerun, switch, unmount | the table is a prefix of the latest result; one request at a time; the spinner ends |
| Row panels (`DataViews.tsx`, `RowsTable.tsx`, `DeletionGrid.tsx`, `api.ts`) | one resource with its request, offset of the page | select, turn the page, open a cell | data on screen is the answer to the URL on screen |
| Application (`App.tsx`, `DatasetConnector.tsx`, `FileTree.tsx`) | refs and React state | discover, pick, load files, dialogs, errors | the file tree, the selection and the lineage are those of the snapshot on screen |

What is hard here: handlers of one client interleave at a mutex that is held
across awaits; a handler is *dropped* at an await when its client goes away, with
whatever its locals held; clocks are read before locks are taken; error paths act
in two steps; caches evict what is in use; browser callbacks act on the state of
an old render while refs have moved on; answers arrive after the question was
given up.  The places where this bites are the `hazards` of `PROJECT.json`.

## Modules

`RecencyCache` and `PagedResult` are abstract specifications.  Each other
component has a module with its state, its actions and its properties; a `Proofs`
module extends it with theorems.  The configurations of a module `M` are `MCM.cfg` and
`MCM_*.cfg`; where they need values that a configuration cannot write down
(`Sessions`, `References`, `SnapshotPanels`) a module `MCM` extends `M` with them.  Definitions such as `RestDropped` or `AliveAlways`,
which no action uses, are variants of the definition after them that a mistake in
the code would give; replacing one by the other must break a property
(`mutants`).

**RecencyCache ◁ LruCache, LruCacheProofs** (`cache.rs`).  `LruCache` has the
recency list `order` and the hash map `val` of the `lru` crate, one action for
each operation, hits and misses apart; every operation is one step because it
happens under the lock.  `RecencyCache` has no list, only the relation "used
after", and gives up the entry that every other one was used after.  `LruCache`
carries the relation as a history variable and implements it.

**PagedResult ◁ SqlCursor, SqlCursorProofs** (`query.rs`, `state.rs`).  One cursor
and any number of handlers.  A handler looks the cursor up (`RequestPage`,
`RequestCancel`), waits for its lock, and at the lock is rejected, repeated,
refused or starts to read; reading alternates `TakeRows` and the awaits
`StreamBatch`, `StreamEnd`, `StreamError` until `FinishPage`.  Removal from the
cache is a step after the lock is gone, as in the code.  `Disconnect` drops a
handler at an await.  Rows are numbers, a page is the interval of its rows.
`PagedResult` is the contract the repository's README states for a reader, with the
rows that go down with a request as a step of its own (`Lossy`), so that it can be kept
under every fault.

**FileListing, FileListingProofs** (`files.rs`).  The producer task, the channel (`produced -
received` entries), the session's mutex over the listing, the look-ahead for
`next_offset` with the held back entry, retries by `last_offset`, and the loss of
the whole listing on any error.  A page is an interval of entries.

**Sessions, SessionsProofs** (`state.rs`, `dataset.rs`).  Two caches of entries with a time of last
access.  The clone (`Lookup`), the reading of the clock (`ReadClock`), the access
under the lock (`Access`, `Expired`) and the removal (`RemoveExpired`) are four
steps, as in `IdleEntry::access` and its callers.  `MaxSkew` bounds the time
between the clock and the lock; the code has no such bound, so the properties
name it.

**BlobSlots** and **MediaRange**, composed by **MediaRequests**;
**MediaRequestsProofs** (`media.rs`, `state.rs`, `error.rs`).  `BlobSlots`: requests take
the slot of a row from the shared cache and read it, load it or wait for who loads
it.  `MediaRange`: `parse_range` and the response, over words of any width with
the saturation and the wrapping of the Rust operations.  A request for an element
of a Blob array (`ReadElement`) goes through both.

**References** (`dataset.rs`, `LineageGraph.tsx`).  A dataset with
branches, versions and tags that other programs commit to, fork and move; a
discovery that opens main, lists branches, then tags, then reads the versions of
each branch; and `resolve_reference` on the text a button sends.  A text is the
sequence of its pieces between colons.

**BlobPaths**, **Snapshot**, **SqlStatement**, **FilePreview**, composed by
**SnapshotPanels**; **SnapshotPanelsProofs**.  The first four are operators without state.
`BlobPaths` (`blob.rs`, `media.rs`): a Blob value is a function from index paths to lists,
nulls and Blobs; the paths offered with a row and the walk along the path of a request.
`Snapshot` (`dataset.rs`, `query.rs`, `schema.rs`): fragments with their deletions, the list
of deleted offsets as far as it is sent, live rows by address, media columns, and a row as it
is serialized.  `SqlStatement` (`query.rs`, `schema.rs`): `prepare_sql_with_row_addr`, the
fallback to the statement as written, `direct_projection_sources` and `sql_columns` over
statements of any items, with DataFusion's plan as far as these look at it.  `FilePreview`
(`files.rs`): the kind of a file, its bounded preview, transactions.  `SnapshotPanels`
(`DataViews.tsx`, `RowsTable.tsx`, `DeletionGrid.tsx`, `api.ts`) is the browser on top: a
panel is selected, left, turned and its cells opened, while requests are answered, refused or
given up in between.  `Show` includes the effect of `useJsonResource` that aborts the request
of the panel before; `Fails` and `Reports` are two steps because `requireOk` awaits the body of
an error.

**SqlClient, SqlClientProofs** (`SqlQueryView.tsx`, `api.ts`).  The component's refs (seen at once by
every callback), the React state set (`ui`) and the one last rendered (`view`,
which `loadMore` captured), its requests, and a server that answers like
`PagedResult`.

**SnapshotBrowser** (`App.tsx`, `DatasetConnector.tsx`, `FileTree.tsx`).  The same
division into refs, `ui` and `view`; discoveries, picks, dialogs that are left
while their request is under way, loads of file pages with `fileGeneration`,
`loadingFilesRef` and `fileRequest`.  **OpeningProofs** holds the proofs about `References` and
`SnapshotBrowser`, the two halves of the way from a location to a snapshot on screen.

## Runs

| Run | What it checks | Bounds |
|---|---|---|
| `lru` | `TypeOK`, `RetentionWindow`: an entry is missing only after `Capacity` other keys were used; `RefinesRecencyCache` | 4 keys, capacity 2 |
| `cursor` | rows are accounted for; the cursor implements `PagedResult` under all faults (`KeepsContract`: pages in order, retries idempotent, honest about the cap, and about the end until the query fails); failures remove the cursor; every request is answered (`Answered`) | 2 handlers, pages of 2 rows, cap 4, up to 5 rows in batches of up to 3, sequences 0..3, all faults |
| `cursor_skip` | counterexample to `NoRowSkipped` | as `cursor`, disconnects only |
| `client` | the table is the beginning of the latest result; one request at a time; sequences agree with the server; `SpinnerEnds`, `RunEnds` | 3 runs of statements, results of up to 2 pages, 1 fault |
| `browser` | the file tree and the selection in it are those of the snapshot on screen (`FilesAreListing`); one load at a time is waited for and it ends | 2 datasets, 3 picks, 2 faults, 2 pages |
| `browser_order` | counterexample to `LatestPickStays` | 1 dataset, 3 picks |
| `references` | a version's button opens that version; listed tags have nodes | 3 versions, branches `dev` and `2`, tag `2`, all texts of up to 3 pieces |
| `references_prefix` | counterexample to `NodeOpensItself` | a branch called `version` |
| `files` | entries are accounted for; retries are idempotent, and offsets and `next_offset` mean what the client takes them for (`OffsetsInOrder`); `Answered` | 2 handlers, limits 1 and 2, channel of 2, up to 3 entries, 2 listings, all faults |
| `media` | each request gets its own row and exactly the bytes RFC 9110 selects; one load per slot; `Answered` | 2 requests, 2 datasets, 1 slot cached, 3 slots; words of 2 bits, every header of numbers 0..4 |
| `sessions` | an entry is refused only when idle and served only while alive, up to `MaxSkew` | 2 requests, caches of 1, 2 ids of each kind, time to live 2, skew 1, time 0..4 |
| `panels` | only Blobs have cells, a cell opens its own Blob, every Blob of a preview or a prepared statement has a cell (both but for renamed columns under an ORDER BY of a column not selected, `TakenForItsName`, and statements that select a struct member `_rowaddr`, `MemberForAddress`); pages are the live rows, red cells are deleted rows, previews are what the file holds | two fragments of up to 4 rows with each kind of deletion file, two Blob columns and one of arrays of arrays (lists of 2), every statement of up to 2 items around them, 2 deleted offsets sent, 2 grid cells, pages of 2 rows, previews of 2 bytes, addresses exact up to 9, 1 refused request |

The bounds are small, and chosen so that the interesting cases are inside.  The
cursor's batch of three is larger than its page and straddles two; the result ends
before, at and after the cap, in the middle and at the end of a page and of a
batch; the two handlers race for every sequence.  The listing's channel is smaller
than the store, so the producer waits, and a limit of one takes the look-ahead
through every entry; two listings show what an error or a wrong offset leaves
behind.  Four keys and two places give the cache hits, replacements and evictions
in all orders.  With one place in the cache of sessions or of Blob arrays
everything in use can be evicted.  Three runs of a statement let a superseded
request be superseded again.  The range theorem holds for all words; the run
only has to reach both ends of word and Blob.  For the panels, the fragments have more
deletions than are sent and more rows than the grid has cells or a page rows, one of them is
deleted completely and one fragment id is skipped; the statements reach aliases that take
another Blob's name or the address's, doubled columns, the wildcard, and an order by a column
that is not selected; the files end in, before and after a character that the limit cuts.
`FragmentSpan` is the 2^32 of an address and `MaxExact` the 2^53 up to which the browser has
numbers exactly.  The one null row is enough to see whether a null is offered a cell.

`CHECK_DEADLOCK FALSE` stands where a behaviour may come to its end: the view is
unmounted and its requests are over (`client`), the runs, picks or versions of the
bound are used up (`browser`, `references`), so are the clock and the ids
(`sessions`) or the slots (`media`).  The cursor, the listing, the cache and the panels can always go on
and are checked for deadlock.

### Fairness

Safety needs none.  For liveness:

- `SqlCursor`: weak fairness of a reader's steps and of the removal (tokio runs
  tasks that are ready, DataFusion yields a batch or the end), strong fairness of
  the step at the lock (tokio's mutex serves its waiters in order, so a waiter
  that could go again and again does go).  Nothing makes clients ask, faults happen
  or the clock tick.
- `FileListing`: the same, and weak fairness of the producer's steps.
- `BlobSlots`: weak fairness of a load's end and of the reading of a full slot,
  strong fairness of the beginning of a load (the permits of a `OnceCell` are
  handed out in order).
- `SqlClient`: weak fairness of rendering, of the server's answers and their
  receipt, and of asking for the next page: the table stays in sight, where its
  observer asks by itself, and the user presses Retry when asked to.
- `SnapshotBrowser`: weak fairness of the answers of `/api/files`; every request is
  answered or fails in the end.

## What is proved

Eight modules hold proofs, over the named assumptions of the modules they extend,
which say what kind of value each constant is (`LruAssumption`, `CursorAssumption`,
`RangeAssumption`, `SlotsAssumption`, `ListingAssumption`, `SessionsAssumption`, `ClientAssumption`,
`BrowserAssumption`; `ReferencesAssumption` also that different versions are spelled
differently and that no number is spelled like a prefix or like main).  For the panels
`SnapshotAssumption`, `FragmentsAssumption`, `ContentsAssumption` and `StatementsAssumption` say
what Lance sees to: fields of a schema have different names and ids, and none is called
`_rowaddr`; a fragment has no more rows than the span of its addresses and deletes only rows it
has; every live row has a value of the depth of its column for each Blob field.  `None` is
assumed to be no number, no page and no answer, where it stands next to them.  TLC checked each
property and each invariant on the same instances first, and evaluates every assumption in the
runs.

The theorems state every invariant and action property that the passing runs check, and both
refinements; `TreeIsListing` has a hypothesis, `~StaleEvents`.  Six theorems are the other side of
a counterexample below: they name the fault, or the data, without which the sentence of the
documentation does hold (`OnlyDroppedRowsSkipped`, `FailedServeNothing`, `EndsAreTrue`, `OnlyDroppedEntriesSkipped`,
`GridHidesNothing`, `NodesOpenThemselves`).

**LruCacheProofs.**  `TypeCorrect`, `RetentionCorrect`, and `Refinement`: `LruCache`
implements `RecencyCache` for every set of keys and every capacity.  The
invariant `IInv` adds to the properties that `order` is sorted by `newer`
(`SortedBy`) and that `newer` is irreflexive: the type invariant alone does not say
that the head of the list is the entry all others were used after, which both
other theorems need.

**SqlCursorProofs.**  Each safety property of the `cursor` run, and that the row cap
holds (`CapHolds`), for any number of handlers, rows, page sizes, caps and
all faults; and `ContractKept`: every step of the cursor is a step of `PagedResult` or a
stutter, whatever the faults.  The properties are not inductive one by one: that a finished
page is new and in order follows from what the handler found at the lock.  `IInv` therefore
joins them with `ReaderInv` (the reading handler still has the next sequence, its page is not
over-full, and no other handler holds rows), `PagesInv` (a page lies behind the rows accounted
for, and after a done page nothing is left to take), `DoneInv` (why the cursor is done:
failure, cap or the end of the rows) and `LastPageInv`.  For the contract, `CInv` adds that pages
are as many as sequences and, without a fault that loses rows, that a failure leaves nothing
behind.  The key to the refinement is that a page starts at the position of the stream less the
rows held and pending, which is `returned + lost`: rows of a dropped handler are a `Lose` step.
With stream errors as the only fault the contract has no such step, and `OnlyDroppedRowsSkipped` is
read off the contract's steps: each page starts where the one before it ended, while `cursor_skip`
shows that a disconnect does lose rows.  `FailedServeNothing`: with one handler at a time a failed cursor serves
nothing more, since that handler is removing it or has (`Invalidated`); the counterexample needs a second one.
`EndAnnounced` says that a page marked done is the end only of a query that has not failed: a handler
that finds a failed cursor `done` answers an early final page.  `EndsAreTrue` is without that
condition, for queries that cannot fail and for one handler at a time.

**FileListingProofs.**  The safety of the `files` run for any number of handlers and
entries, any limits and channel.  `IInv` adds `HandlerInv` (only a reading handler holds
entries, and it still has the offset it was let in with), `ListingInv` (a producer that
ended has sent everything; without a listing nothing is left of one) and `PagesInv` (a page of
the present listing lies behind `next_offset` plus what was lost, and only the latest can
start at it).  That an empty channel with an ended producer means the last page needs the
second, that pages are disjoint needs the third.  `OnlyDroppedEntriesSkipped`: with every fault
but a disconnect each page starts with the entry of its offset (`NoGap` adds that nothing was lost
from the listing there is).

**SessionsProofs.**  `RefusalsAreDue` and `ServedAlive` for any number of requests, ids and any
capacity.  The key is `LagIsBounded`: the time of access noted in an entry lags behind the time it
was really used by `MaxSkew` at most, however often an earlier clock is noted after a later
one; `RequestInv` carries what a request read from the lookup to the lock, and `UsedBefore` says
that nothing was used in the future.

**SqlClientProofs.**  `TableCorrect`, `OneAtATime` and `RetriesAnswered` for any number of runs and
pages and any faults.  `RequestsInv`: the flag, the spinner and the one request listened to go
together.  `RunsInv`: a cursor belongs to the run that asked for it, so a late answer can be told
by its run.  `SequencesInv`: a page request on its way is at most the next of its cursor, and one
that is listened to is the next; its answer has moved the server one further.  `TableInv`: the
table is exactly the pages before the next sequence.  `SequencesAgree` is part of the invariant:
without it a retry could be refused and the table would not go on.

**SnapshotPanelsProofs.**  `AnswersFit`: what is on screen answers the URL on screen, so that
leaving a panel can never show the rows or the text of another file.  The other theorems rest on
it.  For every schema, set of fragments, limit and file the invariant relates the panel, the
request that can still answer and the data (`PanelShape`, `RequestShape`, `DataIsAnswer`), and says
that a page begins among the rows (`OffsetFits`), that a table has the live rows of the snapshot
with what its statement selects (`TableShape`), and that the cell opened last is still on screen
(`OpenedShape`); a request that failed stays behind in `requests`, which is why the invariant speaks
of the others only.

- `FilesShown`, `DeletionsAreShown`; `GridHidesNothing` if no list of deleted offsets is cut but a
  bitmap's.
- `RowsArePaged`: pages are the live rows in order.  The total comes from counting physical rows
  and deletions, the page from skipping and taking live rows; `RowsAreCounted` says that both
  are one number, and the ranks of live addresses say which row stands where.
- `CellsOpenTheirBlobs` and `BlobsHaveTheirCells`: what the source fields of a statement's columns
  make of a result, and `OfferedPathsLead`: the index paths offered with a row are those a request
  can follow.  That the media columns are columns with Blobs, and so that only Blobs have cells,
  holds for every statement.  That each asks for its own field (`Faithful`) and that every column
  with Blobs is one (`Complete`) holds for the preview and for every prepared statement except in
  the columns of `TakenForItsName`; that the row has its address (`HasAddress`) for every prepared
  statement except those of `MemberForAddress`.  `MCSnapshotPanels_cell.cfg` and
  `MCSnapshotPanels_missing.cfg` show what happens in the two exceptions.

These walk over lists and sum over sets.  The library's induction theorems cannot be
instantiated here, so such an induction is done by the least counterexample: `Least` takes it from
the library's theorem that the strict subset ordering of finite sets is well founded.
So the columns of a statement (`FlattenSeq`), the sums over fragments (`MapThenSumSet`) and
values of any depth are covered for every input.

**MediaRequestsProofs.**  `RangeExact` and `SliceSound` for every word size, Blob size and
header, for plain Blobs and for elements of arrays, from the invariant `RInv` that the reply is
the answer to the request.  Neither `end - 1` nor `last + 1` can wrap in an answer.
`OwnRowServed` and `LoadsShared` for any number of requests and any capacity: `SlotInv` (a slot holds
the array of the key it was made for, or nothing), `RequestInv` (a request holds a slot of its
own key, in the cache or not), `LoadInv` (one request loads a slot, and only an empty one) and
`LoadsInv`, that the loads of a row are as many as its filled slots: the bound alone
does not say that the slot a load fills was not counted before.

**OpeningProofs**, `References`.  `NodesOpenThemselves` for datasets in which no branch is called
`version`, `branch` or `tag` (`PlainNames`; `references_prefix` is the counterexample without
it), `TagsKeepTheirNodes`, and `DefaultStays`: a connection without a reference opens main
as it was discovered.  The invariant `DInv` says that every tag of the dataset and every listed
tag is on a version that exists, and that a listed tag has its version in the
catalog once its branch is read; versions never go away, and `discover` lists tags
before it reads versions, which is what makes it inductive.  `ReferencesTyped` says that what is
opened is a snapshot the dataset has; it needs that every branch has a latest version
(`HasLatest`) and that listed branches stay (`ListedStay`).

**OpeningProofs**, `SnapshotBrowser`, for any number of datasets, picks, pages and failures.
`BrowserTyped` and `OneLoadWaited` from `BInv`: a load that is waited for is the only
one of the present generation, the latest request, and what both flags are about (`CurrentInv`);
and a snapshot on screen has a catalog to go back to (`CatalogKept`), also while a pick is under way from a
dialog that has been left.  `TreeIsListing` adds `AppendsFit`: a further page that is waited for
is the next one of the snapshot on screen.  It needs that no event reaches the page between a change
of its state and the render of it (`~StaleEvents`), because `loadMoreFiles` asks for what was
rendered; `MCSnapshotBrowser_stale.cfg` is the counterexample without it.

Only model-checked: the liveness properties (`Answered`, `SpinnerEnds`, `RunEnds`, `LoadEnds`), since
the provers cannot treat `ENABLED`.

## Disagreements

Three runs end in a counterexample on purpose, each to a sentence of the
repository's documentation:

- `cursor_skip` (README.md:218, "recoverable"): `read_sql_page` holds the rows of a page in
  a local vector while it awaits the stream (query.rs:292).  If the client's
  connection closes there, the handler is dropped and its rows are gone; the retry of
  the sequence is answered with the rows after them.
- `browser_order` (README.md:156): a pick given up with Back or Cancel is not aborted.  Its late
  answer replaces the snapshot picked after it, because `fileGeneration` counts
  answers and not picks.
- `references_prefix` (README.md:46-47): the graph sends `version:2` for version 2 of a branch
  called `version`, and `resolve_reference` takes it for version 2 of main.

Further configurations end in a counterexample of the same kind; they belong to
no listed run and can be tried with `tlc -config <file> <module>`, where the module is the `MC` module of
that name if there is one, and else the module without `MC`:

| Configuration | Property | What it shows |
|---|---|---|
| `MCSqlCursor_failed.cfg` | `FailedServesNothing` (README.md:221) | between the error and the removal (query.rs:296-299) another request finds the cursor `done` and answers 200 with a final page |
| `MCSqlCursor_end.cfg` | `EndIsTrue` (README.md:221) | that page says `done` before the last row of the query; a client takes the rows it has for the whole result |
| `MCSqlCursor_expiry.cfg` | `ExpiresOnlyWhenIdle` (README.md:231) | the idle time starts when a page request starts (query.rs:247), so a page that takes the whole period leaves an expired cursor |
| `MCSqlCursor_isolation.cfg` | `IsolatedByConnection` (README.md:231) | a page request under another live connection removes the cursor (query.rs:240) |
| `MCFileListing_skip.cfg` | `NoEntrySkipped` (files.rs:371) | the same loss as `cursor_skip`, at `receiver.recv()` (files.rs:146) |
| `MCSqlClient_orphan.cfg` | `PreviousCancelled` (README.md:194) | an aborted `/sql/start` leaves a cursor whose id nobody learns (SqlQueryView.tsx:76) |
| `MCSnapshotBrowser_stale.cfg` | `FilesOfSnapshot` (README.md:156-158) | a scroll event between a load and its render appends a page of the previous snapshot (App.tsx:90); needs `StaleEvents`, events that reach the page before React renders |
| `MCSnapshotBrowser_lineage.cfg` | `SameLineage` (README.md:163-164) | a late pick brings back a dataset under another one's lineage (App.tsx:68) |
| `MCSnapshotPanels_cell.cfg` | `EveryCellOpensItsBlob` | a struct member `_rowaddr` counts as the address of its row (query.rs:446); a hidden ORDER BY column puts a projection on top that knows columns by their new names only (query.rs:463); an address above 2^53 is rounded by the browser |
| `MCSnapshotPanels_missing.cfg` | `EveryBlobHasItsCell` (README.md:235-237) | Blobs without a cell in the result of a prepared statement: a renamed column under a hidden ORDER BY is taken for a field of its new name, of which there is none (query.rs:463); TLC finds the statement of the repository's own test, `SELECT blob AS preview ... ORDER BY id` (query.rs:546-548).  With a struct member `_rowaddr` no address is added and the rows have none (query.rs:446) |
| `MCSnapshotPanels_grid.cfg` | `GridShowsDeletions` (README.md:37-38) | a deletion vector kept as a hash set lists its offsets in no order; when the list is cut (dataset.rs:293) the grid paints deleted rows as live, and says only that the list is truncated |
| `MCSnapshotPanels_text.cfg` | `TextIsText` | a text whose limit falls into a character is shown as hex (files.rs:199) |
| `MCSnapshotPanels_error.cfg` | `ErrorIsOfThisPage` | `requireOk` awaits the body of an error (api.ts:18-25); a page left meanwhile reports its error on the next page |
| `MCReferences_tag.cfg` | `TagOpensItsNode` (README.md:149-150, 156) | a tag moved since the discovery opens another version than the one it is drawn on (dataset.rs:215) |

Met on the way, without a run: README.md:235-238 asks to select `_rowaddr` and MIME columns next to
Blob columns, while `prepare_sql_with_row_addr` adds the address and there are no MIME columns;
`ManifestView` shows the active manifest under any manifest file; `.lance` files of an index are
classified as data, and a data panel shows the rows of the whole dataset under any of them.

## Abstractions

- Contents are left out: rows, entries and bytes are positions, a file page is its
  connection and its number, an array is the row it belongs to.
- External and modelled from its use: tokio's mutex, `OnceCell`, channel and the
  dropping of handlers; DataFusion as a stream of batches that may fail at any
  await; the object store as a walk that may fail at any entry; Lance's branches
  and tags; `Instant` as a counter; React's rendering as a step of its own.
- A cursor, a listing or a Blob slot meets the cache it lives in as "evicted at any
  time" (`Evict`) or as a sequence in order of use, which is what `LruCache` was shown
  to be.
- A UUID is never handed out twice.
- In the panels a statement's result arrives at once (`SqlCursor` and `SqlClient` have how it
  arrives), and each statement runs in a fresh view.  A statement is its form and its items, not
  its text: parsing is abstracted to the form.  Rows are alike but for one that is null throughout;
  a row is told by its address.

## Not modelled

- **Profiler**: a build feature, on by default, whose CPU profile is one handler under one static mutex.  Its hazard is in
  `hazards`; no other component meets it.
- **Server, deployment**: routes, arguments, build files.
- **Presentation**: components that only lay out what was answered, the scroll position at which a
  cell starts to load, the layout of the graph and of the tree.
- **Texts**: parsing of statements, paths and headers beyond what they decide;
  `operation_json`, messages, formatting.
- **Copied fields** of manifests, indices and schemas (`models.rs`): what is read is answered.
- **Path validation** (`validated_dataset_path`): the browser asks only for paths of the listing.

## Plan

Done, in this order: `RecencyCache`, `LruCache`; `PagedResult`, `SqlCursor`; `FileListing`;
`SqlClient`; `MediaRange`, `BlobSlots`, `MediaRequests`; `Sessions`; `SnapshotBrowser`; `References`;
`BlobPaths`, `Snapshot`, `SqlStatement`, `FilePreview`, `SnapshotPanels`; and the proofs above.

Next:

1. `FileListing` inside `Sessions`: the producer of a listing whose session is evicted.
2. `SqlClient` over `PagedResult` by refinement instead of a server of its own.
3. `SqlCursor` with a listener that asks one page after the other, as `SqlClient` does: which of the
   faults that lose rows a single client can notice.
