------------------------------ MODULE Snapshot -------------------------------
(***************************************************************************)
(* A dataset snapshot and what the backend tells of it: build_dataset_info  *)
(* (backend/src/api/dataset.rs), the Blob columns of a schema (schema.rs),  *)
(* the rows with the Blobs they offer (query.rs), and the Blob a media      *)
(* request opens (media.rs).                                                *)
(*                                                                         *)
(* Fragments are [physical, deletion] by id.  A deletion is the      *)
(* deletion file with the physical offsets it marks; the row at offset o of *)
(* fragment f has the address f * FragmentSpan + o.                         *)
(***************************************************************************)
EXTENDS BlobPaths, FiniteSetsExt

CONSTANTS
    FragmentSpan,   \* row addresses of a fragment, 2^32
    MaxOffsets,     \* MAX_DELETION_OFFSETS
    MaxExact,       \* integers up to here survive the browser's JSON.parse
    Schema,         \* the fields, in order: [name, id, kind, depth]
    RowAddr,        \* the name _rowaddr
    None

ASSUME SnapshotAssumption ==
    /\ FragmentSpan \in Nat \ {0} /\ MaxOffsets \in Nat /\ MaxExact \in Nat
    /\ Schema \in Seq(Range(Schema)) /\ RowAddr # None /\ None \notin Nat
    /\ \A i \in DOMAIN Schema :
        /\ Schema[i].kind \in {"scalar", "struct", "blob", "blobs"}
        /\ Schema[i].name \notin {RowAddr, None}
        /\ Schema[i].depth \in IF Schema[i].kind = "blobs" THEN Nat \ {0} ELSE {0}
        /\ \A j \in DOMAIN Schema : i # j =>
            Schema[i].name # Schema[j].name /\ Schema[i].id # Schema[j].id

Fields == {Schema[i] : i \in DOMAIN Schema}
FieldNames == {f.name : f \in Fields}
FieldNamed(name) == CHOOSE f \in Fields : f.name = name

-----------------------------------------------------------------------------
(* build_dataset_info *)

Offsets(fragment) == IF fragment.deletion = None THEN {} ELSE fragment.deletion.offsets

\* The offsets a deletion view lists: all of them, or the first MaxOffsets its
\* iterator yields.  A bitmap yields them in order, a hash set in any order.
Listed(deletion) ==
    IF deletion = None THEN {{}}
    ELSE LET all == deletion.offsets
             cut == IF Cardinality(all) <= MaxOffsets THEN Cardinality(all) ELSE MaxOffsets
         IN  IF deletion.encoding = "Bitmap"
             THEN {{o \in all : Cardinality({p \in all : p < o}) < cut}}
             ELSE {o \in SUBSET all : Cardinality(o) = cut}

\* A path for each fragment, whatever version wrote its deletion file.
DeletionPathOfFragment(id, deletion) ==
    [dir |-> "_deletions", name |-> <<id, 1, deletion.id>>,
     ext |-> IF deletion.encoding = "Array" THEN "arrow" ELSE "bin"]

\* _deletions/<fragment>-<read version>-<id>.<extension>
DeletionPath(id, deletion) ==
    [dir |-> "_deletions", name |-> <<id, deletion.readVersion, deletion.id>>,
     ext |-> IF deletion.encoding = "Array" THEN "arrow" ELSE "bin"]

DeletionView(id, deletion, listed) ==
    IF deletion = None THEN None
    ELSE [path |-> DeletionPath(id, deletion),
          count |-> Cardinality(deletion.offsets), offsets |-> listed,
          truncated |-> Cardinality(deletion.offsets) > MaxOffsets]

\* Deleted rows counted as rows.
PhysicalRows(fragment) == fragment.physical

VisibleRows(fragment) == fragment.physical - Cardinality(Offsets(fragment))

DatasetRows(fragments) == MapThenSumSet(LAMBDA f : VisibleRows(fragments[f]), DOMAIN fragments)

-----------------------------------------------------------------------------
(* Rows *)

Address(f, o) == f * FragmentSpan + o

\* A scan yields the rows that are not deleted, by fragment and offset.
LiveAddresses(fragments) ==
    UNION {{Address(f, o) : o \in 0..(fragments[f].physical - 1) \ Offsets(fragments[f])} :
           f \in DOMAIN fragments}

\* The row a scan yields after n others.
LiveRow(fragments, n) ==
    LET live == LiveAddresses(fragments)
    IN  CHOOSE a \in live : Cardinality({b \in live : b < a}) = n

IsBlobField(field) == field.kind = "blob"
IsBlobArrayField(field) == field.kind = "blobs"

\* What a media column takes of the result, and the field its requests name.
MediaProjection(index, name, field) == [index |-> index, name |-> name, field |-> field.id]

\* A result is a sequence of columns [name, of]: `of` is the field whose values
\* the column has, RowAddr, or something computed.
PreviewResult ==
    Append([i \in DOMAIN Schema |-> [name |-> Schema[i].name, of |-> Schema[i].name]],
           [name |-> RowAddr, of |-> RowAddr])

\* dataset_columns: a row preview shows every Blob column of the schema as media.
PreviewMedia ==
    {MediaProjection(i, Schema[i].name, Schema[i]) :
        i \in {j \in DOMAIN Schema : IsBlobField(Schema[j]) \/ IsBlobArrayField(Schema[j])}}

\* serialize_rows for the row at address `a`.  The browser finds its address in
\* the scalar column of that name, if there is one.
SerializedRow(values, result, media, a) ==
    LET scalars == DOMAIN result \ {m.index : m \in media}
        named == {i \in scalars : result[i].name = RowAddr}
    IN  [at |-> a,
         address |-> IF named = {} THEN None
                     ELSE CHOOSE n \in {IF result[i].of = RowAddr THEN a ELSE 0 : i \in named} : TRUE,
         media |-> [m \in media |-> MediaItems(values[<<a, result[m.index].of>>])]]

-----------------------------------------------------------------------------
(* A media cell of the browser, and the request it makes *)

\* A number of the response, as the browser reads it: the nearest double.
JsNumber(n) == IF n <= MaxExact \/ n % 2 = 0 THEN n ELSE 4 * ((n + 1) \div 4)

\* MediaValue: a row without an address has no cells.
Cells(row) ==
    IF row.address = None THEN {}
    ELSE UNION {{[at |-> row.at, column |-> m, address |-> JsNumber(row.address), path |-> p] :
                   p \in row.media[m]} : m \in DOMAIN row.media}

\* media: the field by its id, the row by its address, the Blob by its index.
OpenedBlob(values, fieldId, address, path) ==
    LET field == CHOOSE f \in Fields : f.id = fieldId
        index == IF path = << >> THEN None ELSE path
        key == <<address, field.name>>
    IN  IF key \notin DOMAIN values THEN None
        ELSE LET p == Selected(values[key], field.depth, index, None)
             IN  IF p = None THEN None ELSE <<address, field.name, p>>
=============================================================================
