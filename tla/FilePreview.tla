----------------------------- MODULE FilePreview -----------------------------
(***************************************************************************)
(* The files of a dataset as the panels show them: their kind, the bounded  *)
(* preview of any of them, and the decoded transactions (classify_file,     *)
(* read_file_preview and read_transaction in backend/src/api/files.rs).     *)
(*                                                                         *)
(* A path is [dir, name, ext]: what of its directories decides the kind,    *)
(* and its suffix.  The content of a file is a sequence of bytes, told      *)
(* apart as UTF-8 does: one of ASCII, the lead or the trail of a character  *)
(* of two bytes.                                                            *)
(***************************************************************************)
EXTENDS Naturals, Sequences

CONSTANTS
    PreviewBytes,   \* FILE_PREVIEW_BYTES
    Refused         \* the answer of a request that failed

ASSUME PreviewAssumption == PreviewBytes \in Nat \ {0}

Byte == {"ascii", "lead", "trail"}

Kind(path) ==
    CASE path.ext = "manifest" -> "manifest"
      [] path.ext = "lance" -> "data"
      [] OTHER ->
            CASE path.dir = "_deletions" -> "deletion"
              [] path.dir = "_indices" -> "index"
              [] path.dir = "_transactions" -> "transaction"
              [] OTHER -> "file"

\* std::str::from_utf8
IsText(bytes) ==
    \A i \in DOMAIN bytes :
        /\ bytes[i] = "lead" => i < Len(bytes) /\ bytes[i + 1] = "trail"
        /\ bytes[i] = "trail" => i > 1 /\ bytes[i - 1] = "lead"

\* A cut one byte short.
ReadSizeShort(bytes) == IF Len(bytes) < PreviewBytes THEN Len(bytes) ELSE PreviewBytes - 1

ReadSize(bytes) == IF Len(bytes) < PreviewBytes THEN Len(bytes) ELSE PreviewBytes

Preview(path, bytes) ==
    LET read == SubSeq(bytes, 1, ReadSize(bytes))
    IN  [path |-> path, size |-> Len(bytes), content |-> read,
         format |-> IF IsText(read) THEN "text" ELSE "hex",
         truncated |-> Len(bytes) > ReadSize(bytes)]

\* Any file of that suffix in the directory is one: what it holds may not decode.
Transaction(path, decodes) ==
    IF path.ext = "txn" /\ decodes THEN [path |-> path] ELSE Refused
=============================================================================
