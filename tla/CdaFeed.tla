------------------------------ MODULE CdaFeed ------------------------------
(***************************************************************************)
(* What a committed CDA batch calls for: which batches are ingested, and   *)
(* which chunks and evictions each one stands for (contracts.py,           *)
(* ingestion/cda/events.py, ingestion/ingest.py).                          *)
(***************************************************************************)
EXTENDS CdaRows

CONSTANTS
    Tables,            \* CDA tables that send events
    ConfiguredTables,  \* the keys of TABLE_CONFIG
    DefaultAcl,        \* _DEFAULT_ACL
    Scopes,            \* tenant and environment pairs
    Namespace,         \* TenantScope.namespace()
    Batches            \* the batches CDA may commit

EventTypes == {"batchModeTableWrittenOut", "batchModeCompleted",
               "streamingBatchCompleted", "tableSchemaChanged"}

INGESTABLE == {"streamingBatchCompleted", "batchModeTableWrittenOut"}

Batch == [scope : Scopes, table : Tables, type : EventTypes, rows : Seq(Row)]

ASSUME FeedAssumption ==
    /\ ConfiguredTables \subseteq Tables
    /\ DefaultAcl \in [ConfiguredTables -> SUBSET Roles]
    /\ Batches \subseteq Batch

(* Where the store keeps a scope's chunks, f"{tenant}__{env}": nothing     *)
(* keeps ids that contain "__" from giving two scopes the same namespace.  *)
Namespaces == {Namespace[s] : s \in Scopes}

NamespaceOf(b) == Namespace[b.scope]

(* The batches ingest_batch does not skip.                                 *)
Ingested(b) == b.type \in INGESTABLE /\ b.table \in ConfiguredTables

(* _acl_for: the row's ACL column when it has one, else the table default. *)
AclFor(table, row) == IF row.acl = NoAcl THEN DefaultAcl[table] ELSE row.acl

(* f"{doc_type}/{key}"; a table is a doc_type.                             *)
DocId(table, key) == [doc_type |-> table, key |-> key]

DocIds == [doc_type : Tables, key : Keys]

(***************************************************************************)
(* A chunk in the store: where it is kept (ns), what the retrieval filter  *)
(* reads (scope, doc, acl), its place in its document (idx) and the batch  *)
(* its text comes from (src).                                              *)
(***************************************************************************)
Chunk == [ns : Namespaces, scope : Scopes, doc : DocIds, idx : Nat,
          src : Nat \ {0}, acl : SUBSET Roles]

(* The store's key for a chunk: (namespace, chunk_id).                     *)
Slot(c) == [ns |-> c.ns, doc |-> c.doc, idx |-> c.idx]

(* The chunks of row's Document when it is ingested from batch number n.   *)
ChunkOf(b, n, row, x) ==
    [ns    |-> NamespaceOf(b),
     scope |-> b.scope,
     doc   |-> DocId(b.table, row.key),
     idx   |-> x,
     src   |-> n,
     acl   |-> AclFor(b.table, row)]

ChunksOf(b, n, row) == {ChunkOf(b, n, row, x) : x \in 0 .. row.size - 1}

BatchChunks(b, n) == UNION {ChunksOf(b, n, row) : row \in UpsertRows(b.rows)}

BatchDeletes(b) == {DocId(b.table, k) : k \in DeletedKeys(b.rows)}

=============================================================================
