------------------------------ MODULE CdaRows ------------------------------
(***************************************************************************)
(* The change rows of one CDA batch and what collapsing them means         *)
(* (ingestion/cda/merge.py, ingestion/ingest.py).  A row is reduced to what *)
(* ingestion decides on: its business key, its place in the change order,  *)
(* its operation, its ACL column and the number of chunks its text is cut  *)
(* into.                                                                   *)
(***************************************************************************)
EXTENDS Naturals, Sequences

CONSTANTS
    Keys,        \* values of a table's id_field
    Roles,       \* the caller roles an ACL names
    NoAcl,       \* the ACL column is null or empty
    MaxChunks    \* bound on the chunks one record's text is cut into

ASSUME NoAclAssumption == \A A \in SUBSET Roles : NoAcl # A

ASSUME MaxChunksAssumption == MaxChunks \in Nat \ {0}

(***************************************************************************)
(* gwcbi___operation after str(...).upper()[:1]; "none" is a row without   *)
(* the column, which row.get(OP_COL, "I") reads as an insert.              *)
(***************************************************************************)
RawOps == {"I", "U", "D", "none"}

Op(row) == IF row.op = "none" THEN "I" ELSE row.op

(***************************************************************************)
(* seq is the rank of gwcbi___seqval_hex in the string order the merge     *)
(* compares by; 0 is the empty string read from a row without the column.  *)
(* That this order is the one the changes were made in is the producer's   *)
(* doing (SeqValues).                                                      *)
(***************************************************************************)
Row == [key  : Keys,
        seq  : Nat,
        op   : RawOps,
        acl  : (SUBSET Roles) \cup {NoAcl},
        size : 1 .. MaxChunks]

(* A later row, or an equal one further down the file, replaces row i.     *)
Beats(rows, j, i) ==
    /\ rows[j].key = rows[i].key
    /\ \/ rows[j].seq > rows[i].seq
       \/ rows[j].seq = rows[i].seq /\ j > i

(* Row i is its key's latest state among the first n rows.                 *)
IsLatestOf(rows, n, i) ==
    /\ i \in 1 .. n
    /\ \A j \in 1 .. n : ~ Beats(rows, j, i)

IsLatest(rows, i) == IsLatestOf(rows, Len(rows), i)

Winners(rows) == {i \in DOMAIN rows : IsLatest(rows, i)}

(* What merge_rows reports of a batch: ids to evict, records to index.     *)
DeletedKeys(rows) == {rows[i].key : i \in {w \in Winners(rows) : Op(rows[w]) = "D"}}

UpsertRows(rows) == {rows[i] : i \in {w \in Winners(rows) : Op(rows[w]) # "D"}}

UpsertKeys(rows) == {r.key : r \in UpsertRows(rows)}

MentionedKeys(rows) == {rows[i].key : i \in DOMAIN rows}

=============================================================================
