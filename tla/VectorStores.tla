---------------------------- MODULE VectorStores ----------------------------
(***************************************************************************)
(* The two VectorStore adapters side by side, given the same calls: the    *)
(* dictionary of LocalVectorStore (vectorstore/local_store.py) and the     *)
(* per-scope indexes of OpenSearchStore (vectorstore/opensearch_store.py), *)
(* whose filter is compiled to a boolean query.  Namespace is              *)
(* TenantScope.namespace(); it need not tell all scopes apart, since       *)
(* tenant and environment ids may contain its separator.                   *)
(***************************************************************************)
EXTENDS Access, FiniteSets

CONSTANTS
    DocIds,
    ChunkIds,
    Namespace,
    Upserts       \* the lists of chunks upsert is called with, as sets

Chunk == [chunk_id : ChunkIds, doc_id : DocIds, scope : Scope,
          doc_type : DocTypes, acl : SUBSET Roles]

ASSUME StoresAssumption ==
    /\ DOMAIN Namespace = Scope
    /\ Upserts \subseteq SUBSET Chunk
    /\ \A batch \in Upserts : \A c, d \in batch :
            c.scope = d.scope /\ (c.chunk_id = d.chunk_id => c = d)

VARIABLES
    local,     \* LocalVectorStore._chunks: entries [ns, id, chunk]
    indices,   \* OpenSearch indexes that exist, by namespace
    docs       \* OpenSearch documents [index, id, source]

vars == <<local, indices, docs>>

Init == local = {} /\ indices = {} /\ docs = {}

-----------------------------------------------------------------------------
(* LocalVectorStore.                                                       *)

LocalEntry(c) == [ns |-> Namespace[c.scope], id |-> c.chunk_id, chunk |-> c]

LocalUpsert(batch) ==
    LET new == {LocalEntry(c) : c \in batch}
    IN  {e \in local : \A n \in new : <<n.ns, n.id>> # <<e.ns, e.id>>} \cup new

LocalDelete(scope, doc_id) ==
    {e \in local : ~ (e.ns = Namespace[scope] /\ e.chunk.doc_id = doc_id)}

(* Every entry is looked at, whatever its namespace.                       *)
LocalMatches(flt) == {e.chunk : e \in {f \in local : PassesFilter(f.chunk, flt)}}

-----------------------------------------------------------------------------
(* OpenSearchStore.  A keyword field holds a set of values; a term or a    *)
(* terms clause is met when one of them is among the clause's.             *)

ToSource(c) ==
    [tenant_id |-> {c.scope.tenant},
     env       |-> {c.scope.env},
     doc_type  |-> {c.doc_type},
     acl_roles |-> c.acl,
     doc_id    |-> {c.doc_id},
     chunk_id  |-> {c.chunk_id}]

Term(field, values) == [field |-> field, values |-> values]

(* Slips: the narrowing is compiled when there is none, or never.          *)
AclFilterAlwaysNarrowed(flt) ==
    {Term("tenant_id", {flt.scope.tenant}),
     Term("env", {flt.scope.env}),
     Term("acl_roles", flt.roles),
     Term("doc_type", IF flt.doc_types = NoNarrowing THEN {} ELSE flt.doc_types)}

AclFilterUnnarrowed(flt) ==
    {Term("tenant_id", {flt.scope.tenant}),
     Term("env", {flt.scope.env}),
     Term("acl_roles", flt.roles)}

AclFilter(flt) ==
    {Term("tenant_id", {flt.scope.tenant}),
     Term("env", {flt.scope.env}),
     Term("acl_roles", flt.roles)}
    \cup (IF flt.doc_types = NoNarrowing THEN {} ELSE {Term("doc_type", flt.doc_types)})

Meets(source, clause) == source[clause.field] \cap clause.values # {}

Only(S) == CHOOSE x \in S : TRUE

FromSource(src) ==
    [chunk_id |-> Only(src.chunk_id),
     doc_id   |-> Only(src.doc_id),
     scope    |-> [tenant |-> Only(src.tenant_id), env |-> Only(src.env)],
     doc_type |-> Only(src.doc_type),
     acl      |-> src.acl_roles]

IndexFor(scope) == Namespace[scope]

BulkAction(c) == [index |-> IndexFor(c.scope), id |-> c.chunk_id, source |-> ToSource(c)]

OpenSearchUpsert(batch) ==
    LET new == {BulkAction(c) : c \in batch}
    IN  {d \in docs : \A n \in new : <<n.index, n.id>> # <<d.index, d.id>>} \cup new

(* Nothing to delete from, or to search, in an index nothing was put in.   *)
OpenSearchDelete(scope, doc_id) ==
    IF IndexFor(scope) \notin indices
      THEN docs
      ELSE {d \in docs : ~ (/\ d.index = IndexFor(scope)
                            /\ Meets(d.source, Term("doc_id", {doc_id})))}

OpenSearchMatches(flt) ==
    IF IndexFor(flt.scope) \notin indices
      THEN {}
      ELSE {FromSource(d.source) : d \in
              {e \in docs : /\ e.index = IndexFor(flt.scope)
                            /\ \A clause \in AclFilter(flt) : Meets(e.source, clause)}}

-----------------------------------------------------------------------------
Upsert(batch) ==
    /\ local' = LocalUpsert(batch)
    /\ indices' = indices \cup {IndexFor(c.scope) : c \in batch}
    /\ docs' = OpenSearchUpsert(batch)

DeleteDocument(scope, doc_id) ==
    /\ local' = LocalDelete(scope, doc_id)
    /\ docs' = OpenSearchDelete(scope, doc_id)
    /\ UNCHANGED indices

Next ==
    \/ \E batch \in Upserts : Upsert(batch)
    \/ \E scope \in Scope, doc_id \in DocIds : DeleteDocument(scope, doc_id)

Spec == Init /\ [][Next]_vars

-----------------------------------------------------------------------------
(* Every entry is filed under its own chunk's namespace and id, and every  *)
(* OpenSearch document in an index that exists.                            *)
TypeOK ==
    /\ \A e \in local : e.chunk \in Chunk /\ e = LocalEntry(e.chunk)
    /\ \A d \in docs : /\ d.index \in indices
                       /\ \E c \in Chunk : d = BulkAction(c)

(* Both stores return the same chunks for every filter, after any calls:   *)
(* the boolean query and the reference predicate are one definition of     *)
(* "visible" (access.py 31-33, opensearch_store.py 8-12).                  *)
StoresAgree ==
    \A identity \in Identity, narrowing \in Narrowing :
        LET flt == BuildFilter(identity, narrowing)
        IN  LocalMatches(flt) = OpenSearchMatches(flt)

(* No caller's search can match a chunk of another tenant or environment,  *)
(* or one whose ACL names none of the caller's roles; with no roles it     *)
(* matches nothing.  This does not rest on namespaces being distinct.      *)
RetrievalIsolated ==
    \A identity \in Identity, narrowing \in Narrowing :
        LET flt == BuildFilter(identity, narrowing)
        IN  \A c \in LocalMatches(flt) \cup OpenSearchMatches(flt) : MayRead(identity, c)

(* A passage a caller may read is found by an unnarrowed search, as long   *)
(* as it is stored: the filter hides nothing else.                         *)
ReadableIsFound ==
    \A identity \in Identity, e \in local :
        MayRead(identity, e.chunk) =>
            /\ e.chunk \in LocalMatches(BuildFilter(identity, NoNarrowing))
            /\ e.chunk \in OpenSearchMatches(BuildFilter(identity, NoNarrowing))

(* The chunk_id alone tells the passages one search can return apart: the  *)
(* query merges its hits by it (pipeline/nodes/retrieve.py 40-43).         *)
HitsHaveDistinctIds ==
    \A identity \in Identity :
        LET flt == BuildFilter(identity, NoNarrowing)
        IN  \A c, d \in OpenSearchMatches(flt) : c.chunk_id = d.chunk_id => c = d

=============================================================================
