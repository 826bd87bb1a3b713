-------------------------- MODULE MCSnapshotPanels ---------------------------
(* SnapshotPanels on two fragments of up to four rows, two Blob columns and   *)
(* one of nested arrays, every statement of up to two items around them.      *)
EXTENDS SnapshotPanels

Field(name, id, kind, depth) == [name |-> name, id |-> id, kind |-> kind, depth |-> depth]

MCSchema == <<Field("id", 0, "scalar", 0), Field("image", 2, "blob", 0),
              Field("clip", 3, "blob", 0), Field("nested", 5, "blobs", 2),
              Field("s", 6, "struct", 0)>>

Deletion(encoding, readVersion, offsets) ==
    [encoding |-> encoding, readVersion |-> readVersion, id |-> 7, offsets |-> offsets]

Fragment(physical, deletion) == [physical |-> physical, deletion |-> deletion]

Firsts == {Fragment(3, None), Fragment(3, Deletion("Array", 2, {1})),
           Fragment(3, Deletion("Bitmap", 2, {0, 1, 2}))}
Seconds == {Fragment(2, None), Fragment(4, Deletion("Array", 1, {0, 1, 3})),
            Fragment(4, Deletion("Bitmap", 1, {1, 2, 3}))}

MCFragmentations ==
    {[f \in {0, 2} |-> IF f = 0 THEN a ELSE b] : a \in Firsts, b \in Seconds}

\* Null, empty, and every kind of gap before a Blob.
MCArrays ==
    {v \in Values(2) :
        \/ v = NullValue
        \/ MediaItems(v) \in {{<<1, 0>>, <<1, 1>>}, {<<0, 0>>, <<1, 1>>}}}

\* The Blobs of all rows alike, but for one row without any.
ValuesOf(fragments, array) ==
    LET live == LiveAddresses(fragments)
    IN  [k \in live \X BlobNames |->
            IF k[1] = LiveRow(fragments, 0) /\ Cardinality(live) > 1 THEN NullValue
            ELSE IF IsBlobField(FieldNamed(k[2])) THEN [p \in {<< >>} |-> "blob"]
            ELSE array]

MCContents ==
    [fragments \in MCFragmentations |-> {ValuesOf(fragments, array) : array \in MCArrays}]

MCOtherFiles ==
    {[path |-> [dir |-> d, name |-> <<n, 0, 0>>, ext |-> e], bytes |-> b, decodes |-> n = 1] :
        <<d, n, e, b>> \in
          {<<"_versions", 1, "manifest", << >>>>, <<"_indices", 1, "lance", << >>>>,
           <<"_indices", 2, "idx", <<"lead", "trail", "trail">>>>,
           <<"_transactions", 1, "txn", << >>>>, <<"_transactions", 2, "txn", << >>>>,
           <<"_refs", 1, "json", <<"ascii", "lead", "trail">>>>,
           <<"_refs", 2, "json", <<"lead", "trail", "ascii">>>>,
           <<"_refs", 3, "json", <<"lead", "trail">>>>}}

Aliases == {None, "preview", "clip", RowAddr}

Items ==
    {Wildcard, [kind |-> "expr", column |-> None, alias |-> None]}
      \cup {ColumnItem(c, a) : c \in {"id", "image", "nested", RowAddr}, a \in Aliases}
      \cup {[kind |-> "member", column |-> None, alias |-> a] : a \in {None, RowAddr}}

MCStatements ==
    [form : {"simple"}, items : SeqOf(Items, 2) \ {<< >>}, order : {None, "id", "expression"}]
      \cup [form : {"complex", "command"}, items : {<<i>> : i \in Items}, order : {None}]
=============================================================================
