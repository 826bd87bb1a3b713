------------------------------ MODULE BlobPaths ------------------------------
(***************************************************************************)
(* Values of a Blob column and the index paths that name the Blobs in them  *)
(* (backend/src/api/blob.rs, media.rs): media_items offers the paths with a *)
(* row, read_media and read_blob_array_media follow the one in a request.   *)
(*                                                                         *)
(* A value is a function from the index paths of its items to what is       *)
(* there: a list, null, or a Blob.  A plain Blob column has depth 0, and    *)
(* the one path << >>; in an array of depth d the Blobs lie at paths of     *)
(* that length.                                                             *)
(***************************************************************************)
EXTENDS Naturals, SequencesExt

CONSTANT ListLength     \* bound: items of one list

ASSUME PathAssumption == ListLength \in Nat

IndexPaths(depth) == UNION {[1..n -> 0..(ListLength - 1)] : n \in 0..depth}

\* The items of a list are numbered from 0 without gaps, and the type of the
\* column says how deep its Blobs lie.
IsValue(v, depth) ==
    /\ << >> \in DOMAIN v
    /\ \A p \in DOMAIN v :
        /\ v[p] \in {"null", IF Len(p) = depth THEN "blob" ELSE "list"}
        /\ p # << >> =>
            /\ Front(p) \in DOMAIN v /\ v[Front(p)] = "list"
            /\ \A i \in 0..p[Len(p)] : Append(Front(p), i) \in DOMAIN v

Values(depth) ==
    {v \in UNION {[D -> {"null", "list", "blob"}] : D \in SUBSET IndexPaths(depth)} :
        IsValue(v, depth)}

NullValue == [p \in {<< >>} |-> "null"]

\* collect_media_items, in depth-first order: every item that is no null.
MediaItems(v) == {p \in DOMAIN v : v[p] = "blob"}

-----------------------------------------------------------------------------
(* The request: `index` is None or the path parsed from the URL *)

\* list_value: past null and out of bounds there is an error instead.
ListAt(v, p) == p \in DOMAIN v /\ v[p] = "list"

\* read_blob_array_media: a list for every index, and in the last a Blob.
FollowsTo(v, depth, index) ==
    /\ Len(index) = depth
    /\ \A n \in 0..(depth - 1) : ListAt(v, SubSeq(index, 1, n))
    /\ index \in DOMAIN v /\ v[index] = "blob"

\* read_media: which Blob of the value a request gets, or None for an error.
\* parse_index_path needs an index in an array, a plain Blob refuses one.
Selected(v, depth, index, None) ==
    IF /\ (depth = 0) <=> (index = None)
       /\ FollowsTo(v, depth, IF index = None THEN << >> ELSE index)
    THEN IF index = None THEN << >> ELSE index
    ELSE None
=============================================================================
