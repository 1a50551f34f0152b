---------------------------- MODULE MCCommitLog ----------------------------
(***************************************************************************)
(* Small instances of CommitLog for TLC: two records, of one and of two    *)
(* payload cells, whose compressed forms have other lengths than their raw *)
(* forms, so that a segment rolls after one, two or three records.         *)
(***************************************************************************)
EXTENDS CommitLog

CONSTANTS short, long   \* the records

MCRecords == {short, long}
MCRawLen  == [r \in MCRecords |-> IF r = short THEN 1 ELSE 2]
MCZipLen  == [r \in MCRecords |-> IF r = short THEN 2 ELSE 1]

=============================================================================
