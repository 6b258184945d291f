------------------------ MODULE VectorStores_proofs ------------------------
(***************************************************************************)
(* Both stores hold the same entries after any calls, and the boolean      *)
(* query compiled from a filter selects what the reference predicate does. *)
(***************************************************************************)
EXTENDS VectorStores, TLAPS

(* The documents are the entries, translated.                              *)
SameEntries == docs = {BulkAction(e.chunk) : e \in local}

(* An entry is found again by its key.                                     *)
KeysUnique ==
    \A e, f \in local : e.ns = f.ns /\ e.id = f.id => e = f

Inv == TypeOK /\ SameEntries /\ KeysUnique

-----------------------------------------------------------------------------
LEMMA OnlyOne == \A x : Only({x}) = x
BY DEF Only

(* Writing a chunk to OpenSearch and reading it back changes nothing.      *)
LEMMA SourceRoundTrip == ASSUME NEW c \in Chunk PROVE FromSource(ToSource(c)) = c
<1>1. /\ c = [chunk_id |-> c.chunk_id, doc_id |-> c.doc_id, scope |-> c.scope,
              doc_type |-> c.doc_type, acl |-> c.acl]
      /\ c.scope = [tenant |-> c.scope.tenant, env |-> c.scope.env]
  BY DEF Chunk, Scope
<1>2. QED
  BY <1>1, OnlyOne DEF FromSource, ToSource

(* The compiled query and the predicate agree on every chunk.              *)
LEMMA FilterCompiled ==
    ASSUME NEW c \in Chunk, NEW flt \in RetrievalFilter
    PROVE  (\A clause \in AclFilter(flt) : Meets(ToSource(c), clause)) <=> PassesFilter(c, flt)
<1> DEFINE src == ToSource(c)
<1>1. /\ c.scope \in Scope /\ flt.scope \in Scope
      /\ c.scope = flt.scope <=> c.scope.tenant = flt.scope.tenant /\ c.scope.env = flt.scope.env
  BY DEF Chunk, RetrievalFilter, Scope
<1>2. Meets(src, Term("tenant_id", {flt.scope.tenant})) <=> c.scope.tenant = flt.scope.tenant
  BY DEF Meets, Term, ToSource
<1>3. Meets(src, Term("env", {flt.scope.env})) <=> c.scope.env = flt.scope.env
  BY DEF Meets, Term, ToSource
<1>4. Meets(src, Term("acl_roles", flt.roles)) <=> c.acl \cap flt.roles # {}
  BY DEF Meets, Term, ToSource
<1>5. Meets(src, Term("doc_type", flt.doc_types)) <=> c.doc_type \in flt.doc_types
  BY DEF Meets, Term, ToSource
<1>6. CASE flt.doc_types = NoNarrowing
  BY <1>1, <1>2, <1>3, <1>4, <1>6 DEF AclFilter, PassesFilter, IsVisible
<1>7. CASE flt.doc_types # NoNarrowing
  BY <1>1, <1>2, <1>3, <1>4, <1>5, <1>7 DEF AclFilter, PassesFilter, IsVisible
<1>8. QED
  BY <1>6, <1>7

LEMMA FilterType ==
    ASSUME NEW identity \in Identity, NEW narrowing \in Narrowing
    PROVE  BuildFilter(identity, narrowing) \in RetrievalFilter
BY DEF BuildFilter, Identity, Narrowing, RetrievalFilter

(* The filter lets through what the caller may read, and nothing else.     *)
LEMMA FilterEnforces ==
    ASSUME NEW identity \in Identity, NEW narrowing \in Narrowing, NEW c \in Chunk
    PROVE  /\ PassesFilter(c, BuildFilter(identity, narrowing)) => MayRead(identity, c)
           /\ MayRead(identity, c) => PassesFilter(c, BuildFilter(identity, NoNarrowing))
<1>1. NoNarrowing # {}
  BY NoNarrowingAssumption
<1>2. QED
  BY <1>1 DEF BuildFilter, PassesFilter, IsVisible, MayRead, Identity

-----------------------------------------------------------------------------
LEMMA InitInv == Init => Inv
BY DEF Init, Inv, TypeOK, SameEntries, KeysUnique

LEMMA EntryOf ==
    ASSUME NEW c \in Chunk
    PROVE  /\ LocalEntry(c).chunk = c /\ LocalEntry(c).ns = Namespace[c.scope]
           /\ LocalEntry(c).id = c.chunk_id
           /\ BulkAction(c).index = LocalEntry(c).ns /\ BulkAction(c).id = LocalEntry(c).id
BY DEF LocalEntry, BulkAction, IndexFor

LEMMA UpsertInv ==
    ASSUME Inv, NEW batch \in Upserts, Upsert(batch)
    PROVE  Inv'
<1> DEFINE kept == {e \in local : \A c \in batch : <<Namespace[c.scope], c.chunk_id>> # <<e.ns, e.id>>}
           new == {LocalEntry(c) : c \in batch}
<1>1. batch \subseteq Chunk
  BY StoresAssumption
<1>2. local' = kept \cup new
  BY <1>1, EntryOf DEF Upsert, LocalUpsert
<1>3. docs' = {BulkAction(e.chunk) : e \in kept} \cup {BulkAction(c) : c \in batch}
  <2>1. \A e \in local : e.chunk \in Chunk /\ e = LocalEntry(e.chunk)
    BY DEF Inv, TypeOK
  <2>2. docs = {BulkAction(e.chunk) : e \in local}
    BY DEF Inv, SameEntries
  <2>3. docs' = {d \in docs : \A c \in batch :
                    <<BulkAction(c).index, BulkAction(c).id>> # <<d.index, d.id>>}
                \cup {BulkAction(c) : c \in batch}
    BY DEF Upsert, OpenSearchUpsert
  <2>4. \A e \in local : BulkAction(e.chunk).index = e.ns /\ BulkAction(e.chunk).id = e.id
    BY <2>1, EntryOf
  <2>5. \A c \in batch : BulkAction(c).index = Namespace[c.scope] /\ BulkAction(c).id = c.chunk_id
    BY <1>1, EntryOf
  <2>6. {d \in docs : \A c \in batch :
                    <<BulkAction(c).index, BulkAction(c).id>> # <<d.index, d.id>>}
        = {BulkAction(e.chunk) : e \in kept}
    BY <2>2, <2>4, <2>5
  <2>7. QED
    BY <2>3, <2>6
<1>4. TypeOK'
  <2>1. \A e \in local' : e.chunk \in Chunk /\ e = LocalEntry(e.chunk)
    BY <1>1, <1>2, EntryOf DEF Inv, TypeOK
  <2>2. ASSUME NEW d \in docs'
        PROVE  d.index \in indices' /\ \E c \in Chunk : d = BulkAction(c)
    <3>1. CASE d \in docs
      BY <3>1 DEF Inv, TypeOK, Upsert
    <3>2. CASE \E c \in batch : d = BulkAction(c)
      BY <1>1, <3>2 DEF Upsert, BulkAction
    <3>3. QED
      BY <3>1, <3>2 DEF Upsert, OpenSearchUpsert
  <2>3. QED
    BY <2>1, <2>2 DEF TypeOK
<1>5. SameEntries'
  <2>1. \A c \in batch : LocalEntry(c).chunk = c
    BY <1>1, EntryOf
  <2>2. {BulkAction(e.chunk) : e \in new} = {BulkAction(c) : c \in batch}
    BY <2>1
  <2>3. QED
    BY <1>2, <1>3, <2>2 DEF SameEntries
<1>6. KeysUnique'
  <2>1. \A c \in batch : LocalEntry(c).ns = Namespace[c.scope] /\ LocalEntry(c).id = c.chunk_id
    BY <1>1, EntryOf
  <2>2. \A c, d \in batch : c.chunk_id = d.chunk_id => c = d
    BY StoresAssumption
  <2>3. \A e, f \in new : e.ns = f.ns /\ e.id = f.id => e = f
    BY <2>1, <2>2
  <2>4. \A e \in kept, f \in new : ~ (e.ns = f.ns /\ e.id = f.id)
    BY <2>1
  <2>5. \A e, f \in kept : e.ns = f.ns /\ e.id = f.id => e = f
    BY DEF Inv, KeysUnique
  <2>6. QED
    BY <1>2, <2>3, <2>4, <2>5 DEF KeysUnique
<1>7. QED
  BY <1>4, <1>5, <1>6 DEF Inv

LEMMA DeleteInv ==
    ASSUME Inv, NEW scope \in Scope, NEW doc_id \in DocIds, DeleteDocument(scope, doc_id)
    PROVE  Inv'
<1>1. /\ local' = {e \in local : ~ (e.ns = Namespace[scope] /\ e.chunk.doc_id = doc_id)}
      /\ indices' = indices
  BY DEF DeleteDocument, LocalDelete
<1>2. \A e \in local : /\ e.chunk \in Chunk /\ e = LocalEntry(e.chunk)
                       /\ BulkAction(e.chunk).index = e.ns
  BY EntryOf DEF Inv, TypeOK
<1>3. \A e \in local : Meets(BulkAction(e.chunk).source, Term("doc_id", {doc_id}))
                          <=> e.chunk.doc_id = doc_id
  BY DEF Meets, Term, BulkAction, ToSource
<1>4. docs' = {d \in docs : ~ (/\ d.index = Namespace[scope]
                               /\ Meets(d.source, Term("doc_id", {doc_id})))}
  BY DEF DeleteDocument, OpenSearchDelete, IndexFor, Inv, TypeOK
<1>5. SameEntries'
  BY <1>1, <1>2, <1>3, <1>4 DEF Inv, SameEntries
<1>6. TypeOK' /\ KeysUnique'
  BY <1>1, <1>4 DEF Inv, TypeOK, KeysUnique
<1>7. QED
  BY <1>5, <1>6 DEF Inv

LEMMA StoresInvariant == Spec => []Inv
<1>1. Inv /\ [Next]_vars => Inv'
  <2> SUFFICES ASSUME Inv, [Next]_vars PROVE Inv'
    OBVIOUS
  <2>1. CASE UNCHANGED vars
    BY <2>1 DEF Inv, TypeOK, SameEntries, KeysUnique, vars
  <2>2. QED
    BY <2>1, UpsertInv, DeleteInv DEF Next
<1>2. QED
  BY <1>1, InitInv, PTL DEF Spec

-----------------------------------------------------------------------------
(* What OpenSearch finds are the entries the predicate lets through.       *)
LEMMA SearchesAgree ==
    ASSUME Inv, NEW flt \in RetrievalFilter
    PROVE  LocalMatches(flt) = OpenSearchMatches(flt)
<1>1. \A e \in local : /\ e.chunk \in Chunk /\ e.ns = Namespace[e.chunk.scope]
                       /\ BulkAction(e.chunk).index = e.ns
                       /\ BulkAction(e.chunk) \in docs
  BY EntryOf DEF Inv, TypeOK, SameEntries
<1>2. \A e \in local : /\ FromSource(BulkAction(e.chunk).source) = e.chunk
                       /\ (\A clause \in AclFilter(flt) : Meets(BulkAction(e.chunk).source, clause))
                            <=> PassesFilter(e.chunk, flt)
  BY <1>1, SourceRoundTrip, FilterCompiled DEF BulkAction
<1>3. \A e \in local : PassesFilter(e.chunk, flt) => e.ns = Namespace[flt.scope]
  BY <1>1 DEF PassesFilter, IsVisible
<1>4. CASE Namespace[flt.scope] \in indices
  <2>1. OpenSearchMatches(flt) =
          {FromSource(d.source) : d \in
              {f \in docs : /\ f.index = Namespace[flt.scope]
                            /\ \A clause \in AclFilter(flt) : Meets(f.source, clause)}}
    BY <1>4 DEF OpenSearchMatches, IndexFor
  <2>2. ASSUME NEW c \in LocalMatches(flt) PROVE c \in OpenSearchMatches(flt)
    <3>1. PICK e \in local : c = e.chunk /\ PassesFilter(e.chunk, flt)
      BY DEF LocalMatches
    <3>2. /\ BulkAction(e.chunk) \in docs /\ BulkAction(e.chunk).index = Namespace[flt.scope]
          /\ \A clause \in AclFilter(flt) : Meets(BulkAction(e.chunk).source, clause)
          /\ FromSource(BulkAction(e.chunk).source) = c
      BY <1>1, <1>2, <1>3, <3>1
    <3>3. QED
      BY <2>1, <3>2
  <2>3. ASSUME NEW c \in OpenSearchMatches(flt) PROVE c \in LocalMatches(flt)
    <3>1. PICK d \in docs : /\ c = FromSource(d.source)
                            /\ \A clause \in AclFilter(flt) : Meets(d.source, clause)
      BY <2>1
    <3>2. PICK e \in local : d = BulkAction(e.chunk)
      BY DEF Inv, SameEntries
    <3>3. c = e.chunk /\ PassesFilter(e.chunk, flt)
      BY <1>2, <3>1, <3>2
    <3>4. QED
      BY <3>3 DEF LocalMatches
  <2>4. QED
    BY <2>2, <2>3
<1>5. CASE Namespace[flt.scope] \notin indices
  <2>1. \A d \in docs : d.index \in indices
    BY DEF Inv, TypeOK
  <2>2. \A e \in local : ~ PassesFilter(e.chunk, flt)
    BY <1>1, <1>3, <1>5, <2>1
  <2>3. QED
    BY <1>5, <2>2 DEF LocalMatches, OpenSearchMatches, IndexFor
<1>6. QED
  BY <1>4, <1>5

(* Entries are filed under their own namespace and id, and documents in an *)
(* index that exists, after any calls.                                     *)
THEOREM StoresTyped == Spec => []TypeOK
<1>1. Inv => TypeOK
  BY DEF Inv
<1>2. QED
  BY <1>1, StoresInvariant, PTL

(* The two stores answer every filter alike, after any calls.              *)
THEOREM StoresEquivalent == Spec => []StoresAgree
<1>1. Inv => StoresAgree
  BY FilterType, SearchesAgree DEF StoresAgree
<1>2. QED
  BY <1>1, StoresInvariant, PTL

LEMMA InvIsolated == Inv => RetrievalIsolated
<1> SUFFICES ASSUME Inv, NEW identity \in Identity, NEW narrowing \in Narrowing,
                    NEW c \in LocalMatches(BuildFilter(identity, narrowing))
                              \cup OpenSearchMatches(BuildFilter(identity, narrowing))
             PROVE  MayRead(identity, c)
  BY DEF RetrievalIsolated
<1>1. c \in LocalMatches(BuildFilter(identity, narrowing))
  BY FilterType, SearchesAgree
<1>2. c \in Chunk /\ PassesFilter(c, BuildFilter(identity, narrowing))
  BY <1>1 DEF LocalMatches, Inv, TypeOK
<1>3. QED
  BY <1>2, FilterEnforces

(* No search crosses a scope or an ACL, even when namespaces coincide, and *)
(* a caller without roles finds nothing.                                   *)
THEOREM Isolated == Spec => []RetrievalIsolated
BY InvIsolated, StoresInvariant, PTL

(* What a caller may read and is stored, an unnarrowed search can find.    *)
THEOREM Complete == Spec => []ReadableIsFound
<1>1. Inv => ReadableIsFound
  <2> SUFFICES ASSUME Inv, NEW identity \in Identity, NEW e \in local,
                      MayRead(identity, e.chunk)
               PROVE  /\ e.chunk \in LocalMatches(BuildFilter(identity, NoNarrowing))
                      /\ e.chunk \in OpenSearchMatches(BuildFilter(identity, NoNarrowing))
    BY DEF ReadableIsFound
  <2>1. e.chunk \in Chunk /\ NoNarrowing \in Narrowing
    BY DEF Inv, TypeOK, Narrowing
  <2>2. e.chunk \in LocalMatches(BuildFilter(identity, NoNarrowing))
    BY <2>1, FilterEnforces DEF LocalMatches
  <2>3. QED
    BY <2>1, <2>2, FilterType, SearchesAgree
<1>2. QED
  BY <1>1, StoresInvariant, PTL

(* One search never returns two passages with the same chunk_id.           *)
THEOREM HitsDistinct == Spec => []HitsHaveDistinctIds
<1>1. Inv => HitsHaveDistinctIds
  <2> SUFFICES ASSUME Inv, NEW identity \in Identity,
                      NEW c \in OpenSearchMatches(BuildFilter(identity, NoNarrowing)),
                      NEW d \in OpenSearchMatches(BuildFilter(identity, NoNarrowing)),
                      c.chunk_id = d.chunk_id
               PROVE  c = d
    BY DEF HitsHaveDistinctIds
  <2>1. NoNarrowing \in Narrowing
    BY DEF Narrowing
  <2>2. /\ c \in LocalMatches(BuildFilter(identity, NoNarrowing))
        /\ d \in LocalMatches(BuildFilter(identity, NoNarrowing))
    BY <2>1, FilterType, SearchesAgree
  <2>3. PICK e \in local, f \in local : c = e.chunk /\ d = f.chunk
    BY <2>2 DEF LocalMatches
  <2>4. c \in Chunk /\ d \in Chunk /\ e = LocalEntry(c) /\ f = LocalEntry(d)
    BY <2>3 DEF Inv, TypeOK
  <2>5. MayRead(identity, c) /\ MayRead(identity, d)
    BY <2>1, InvIsolated DEF RetrievalIsolated
  <2>6. e.ns = f.ns /\ e.id = f.id
    BY <2>4, <2>5, EntryOf DEF MayRead
  <2>7. QED
    BY <2>3, <2>6 DEF Inv, KeysUnique
<1>2. QED
  BY <1>1, StoresInvariant, PTL

=============================================================================
