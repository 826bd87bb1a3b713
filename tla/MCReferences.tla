---------------------------- MODULE MCReferences ----------------------------
(* References on three versions, with the texts of up to three pieces.       *)
EXTENDS References, TLC

MCSpelling == <<"1", "2", "3">>
Pieces == {"main", "version", "branch", "tag", "2", "dev"}
MCTexts == UNION {[1..n -> Pieces] : n \in 1..3}
NoTexts == {}
=============================================================================
