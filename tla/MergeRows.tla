----------------------------- MODULE MergeRows -----------------------------
(***************************************************************************)
(* merge_rows (ingestion/cda/merge.py) statement by statement: a first     *)
(* loop collapses the rows into the dicts `latest` and `order`, a second   *)
(* one walks `latest` in insertion order and sorts each key into deletes   *)
(* or upserts.                                                             *)
(***************************************************************************)
EXTENDS CdaRows

CONSTANT Inputs      \* the batches merge_rows is called with

ASSUME InputsAssumption == Inputs \subseteq Seq(Row)

VARIABLES
    rows,      \* the argument
    i,         \* rows consumed by the first loop
    latest,    \* key -> index of the row held for it; 0: key not in the dict
    order,     \* key -> sequence value held for it (read only if latest # 0)
    keys,      \* keys of `latest` in insertion order
    j,         \* keys consumed by the second loop
    upserts,   \* indices of the rows turned into Documents
    deletes    \* keys of the deleted records

vars == <<rows, i, latest, order, keys, j, upserts, deletes>>

Init ==
    /\ rows \in Inputs
    /\ i = 0
    /\ latest = [k \in Keys |-> 0]
    /\ order = [k \in Keys |-> 0]
    /\ keys = <<>>
    /\ j = 0
    /\ upserts = <<>>
    /\ deletes = <<>>

(* Slip: an equal sequence value further down the file does not replace.   *)
ReplacesOnlyLater(row) == latest[row.key] = 0 \/ row.seq > order[row.key]

(* `key not in order or seq >= order[key]`                                 *)
Replaces(row) == latest[row.key] = 0 \/ row.seq >= order[row.key]

(* Reassigning a key of a Python dict keeps its place.                     *)
Collapse ==
    /\ i < Len(rows)
    /\ i' = i + 1
    /\ LET row == rows[i + 1] IN
        IF Replaces(row)
          THEN /\ latest' = [latest EXCEPT ![row.key] = i + 1]
               /\ order' = [order EXCEPT ![row.key] = row.seq]
               /\ keys' = IF latest[row.key] = 0 THEN Append(keys, row.key) ELSE keys
          ELSE UNCHANGED <<latest, order, keys>>
    /\ UNCHANGED <<rows, j, upserts, deletes>>

(* Slip: a tombstone without `continue`.                                   *)
EmitWithoutContinue ==
    /\ i = Len(rows)
    /\ j < Len(keys)
    /\ j' = j + 1
    /\ deletes' = IF Op(rows[latest[keys[j + 1]]]) = "D" THEN Append(deletes, keys[j + 1])
                                                        ELSE deletes
    /\ upserts' = Append(upserts, latest[keys[j + 1]])
    /\ UNCHANGED <<rows, i, latest, order, keys>>

Emit ==
    /\ i = Len(rows)
    /\ j < Len(keys)
    /\ j' = j + 1
    /\ LET key == keys[j + 1] IN
        IF Op(rows[latest[key]]) = "D"
          THEN deletes' = Append(deletes, key) /\ UNCHANGED upserts
          ELSE upserts' = Append(upserts, latest[key]) /\ UNCHANGED deletes
    /\ UNCHANGED <<rows, i, latest, order, keys>>

Returned == i = Len(rows) /\ j = Len(keys)

Next == Collapse \/ Emit

Spec == Init /\ [][Next]_vars

-----------------------------------------------------------------------------
Elements(s) == {s[n] : n \in DOMAIN s}

NoDuplicates(s) == \A m, n \in DOMAIN s : s[m] = s[n] => m = n

(* The loop variables stay in their types.                                 *)
TypeOK ==
    /\ rows \in Inputs
    /\ i \in 0 .. Len(rows)
    /\ latest \in [Keys -> 0 .. Len(rows)]
    /\ order \in [Keys -> Nat]
    /\ keys \in Seq(Keys)
    /\ j \in 0 .. Len(keys)
    /\ upserts \in Seq(1 .. Len(rows))
    /\ deletes \in Seq(Keys)

(* After n rows the dicts hold exactly each key's latest row among those n *)
(* (merge.py 61-68), whatever order the rows of a key come in.             *)
HoldsLatest ==
    \A k \in Keys :
        IF latest[k] = 0
          THEN \A n \in 1 .. i : rows[n].key # k
          ELSE /\ rows[latest[k]].key = k
               /\ IsLatestOf(rows, i, latest[k])
               /\ order[k] = rows[latest[k]].seq

(* merge_rows returns the batch's latest state: a record is deleted exactly *)
(* when its latest row is a tombstone, and otherwise exactly its latest row *)
(* is indexed.                                                             *)
ReturnsLatestState ==
    Returned =>
        /\ Elements(deletes) = DeletedKeys(rows)
        /\ {rows[n] : n \in Elements(upserts)} = UpsertRows(rows)

(* Each record the batch mentions gets one outcome: it is never both       *)
(* deleted and indexed, never indexed or deleted twice, never forgotten    *)
(* (ingest_batch runs all deletes before the upserts, so a record in both  *)
(* lists would come back).                                                 *)
OneOutcomePerRecord ==
    Returned =>
        LET indexed == [n \in DOMAIN upserts |-> rows[upserts[n]].key] IN
        /\ NoDuplicates(deletes) /\ NoDuplicates(indexed)
        /\ Elements(deletes) \cap Elements(indexed) = {}
        /\ Elements(deletes) \cup Elements(indexed) = MentionedKeys(rows)

=============================================================================
