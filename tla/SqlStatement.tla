---------------------------- MODULE SqlStatement -----------------------------
(***************************************************************************)
(* How a SQL statement gets its Blob columns shown (create_sql_cursor in    *)
(* backend/src/api/query.rs, sql_columns in schema.rs): a simple statement  *)
(* is prepared, its rows keep their address, and the plan tells which field *)
(* each column of the result comes from.  Of any other statement the Blobs  *)
(* are plain descriptors.                                                   *)
(*                                                                         *)
(* A statement is [form, items, order].  The form is "simple" for a SELECT  *)
(* from the table alone, "complex" for joins, unions, WITH, DISTINCT,       *)
(* grouping and derived tables, "command" for what is no query.  An item is *)
(* [kind, column, alias]; the kind "member" is the member _rowaddr of a     *)
(* struct column.  The order is a column name, None, or "expression".       *)
(***************************************************************************)
EXTENDS Snapshot, SequencesExt

\* What the output columns of members and expressions are called.
MemberName == "s[_rowaddr]"
ExprName == "expr"

Wildcard == [kind |-> "wildcard", column |-> None, alias |-> None]
ColumnItem(column, alias) == [kind |-> "column", column |-> column, alias |-> alias]

-----------------------------------------------------------------------------
(* prepare_sql_with_row_addr *)

IsDirectColumn(item) == item.kind \in {"column", "member"}

\* Only the last part of an identifier is looked at.
IsRowAddr(item) ==
    item.kind = "member" \/ (item.kind = "column" /\ item.column = RowAddr)

Accepted(item) ==
    \/ item.kind = "wildcard"
    \/ IsDirectColumn(item) /\ (item.alias = RowAddr => IsRowAddr(item))

Prepares(statement) ==
    /\ statement.form = "simple" /\ statement.order # "expression"
    /\ \A i \in DOMAIN statement.items : Accepted(statement.items[i])

\* Under whatever name.
NamesRowAddr(item) == item.kind = "wildcard" \/ IsRowAddr(item)

KeepsRowAddr(item) ==
    item.kind = "wildcard" \/ (IsRowAddr(item) /\ item.alias \in {None, RowAddr})

PreparedItems(items) ==
    IF \E i \in DOMAIN items : KeepsRowAddr(items[i]) THEN items
    ELSE Append(items, ColumnItem(RowAddr, None))

-----------------------------------------------------------------------------
(* The plan of a statement, as DataFusion builds it *)

ItemColumn(item) ==
    [name |-> IF item.alias # None THEN item.alias
              ELSE CASE item.kind = "column" -> item.column
                     [] item.kind = "member" -> MemberName
                     [] OTHER -> ExprName,
     of |-> IF item.kind = "column" THEN item.column ELSE item.kind]

\* The table's columns with its row address stand for a wildcard.
Expanded(item) ==
    IF item.kind = "wildcard" THEN PreviewResult ELSE <<ItemColumn(item)>>

Result(items) == FlattenSeq([i \in DOMAIN items |-> Expanded(items[i])])

\* Two columns of one name are refused.
Builds(items) ==
    LET result == Result(items)
    IN  \A i, j \in DOMAIN result : result[i].name = result[j].name => i = j

\* Sorting by a column that is not selected puts a second projection on top,
\* onto the columns by their output names.
SortsByHidden(order, result) ==
    order \notin {None, "expression"} /\ \A i \in DOMAIN result : order \notin {result[i].name, result[i].of}

\* An alias taken for the field.
SourcesByName(order, result) == [i \in DOMAIN result |-> result[i].name]

\* direct_projection_sources: the field each column is taken from, or None.
Sources(order, result) ==
    [i \in DOMAIN result |->
        IF SortsByHidden(order, result) THEN result[i].name
        ELSE IF result[i].of \in FieldNames \cup {RowAddr} THEN result[i].of ELSE None]

-----------------------------------------------------------------------------
(* sql_columns, and the answer of /sql/start *)

\* The Blob columns of the result, by the field the column is known to be.
SourceFields(column, source) ==
    {f \in Fields : f.name = source /\ \E g \in Fields :
        /\ g.name = column.of
        /\ \/ IsBlobArrayField(g) /\ IsBlobArrayField(f)
           \/ IsBlobField(g) /\ IsBlobField(f)}

SqlMedia(result, sources) ==
    UNION {{MediaProjection(i, result[i].name, f) : f \in SourceFields(result[i], sources[i])} :
           i \in DOMAIN result}

Nowhere(result) == [i \in DOMAIN result |-> None]

\* read_only_sql
ReadOnly(statement) == statement.form # "command"

\* A prepared statement that does not build is tried as it was written.
StartSql(statement) ==
    LET items == statement.items
        prepared == PreparedItems(items)
        safe == Prepares(statement) /\ Builds(prepared)
        result == Result(IF safe THEN prepared ELSE items)
    IN  IF ~ReadOnly(statement) \/ (~safe /\ ~Builds(items)) THEN None
        ELSE [result |-> result,
              media |-> SqlMedia(result, IF safe THEN Sources(statement.order, result)
                                         ELSE Nowhere(result))]
=============================================================================
