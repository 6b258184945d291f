------------------------------- MODULE System -------------------------------
(***************************************************************************)
(* A question asked of the index that ingestion is writing: the query      *)
(* graph (QueryPipeline) over the store that Ingestion keeps.  What the    *)
(* store holds for retrieval, in place of QueryPipeline's arbitrary        *)
(* changes, is what ingest_batch put there.                                *)
(***************************************************************************)
EXTENDS Ingestion

CONSTANTS
    Tenants, Envs, NoNarrowing, Callers, Questions, Similarity, NullQueries,
    Tainted, Wordless, Lines, StrayMarks, Replies, Llm, RetrieveK, RerankK, ThresholdNum, ThresholdDen,
    Exact, Reranker, OtherRecords, MaxOthers, Abstention, NoAnswer, NoScore

VARIABLES
    me, question, queries, hits, best, candidates, reranked, answer, log,
    node,         \* QueryPipeline's pc
    doneBefore    \* history: the batches completed when the query began

asking == <<me, question, queries, hits, best, candidates, reranked, answer, log, node, doneBefore>>

ASSUME ScopesAssumption == Scopes \subseteq [tenant : Tenants, env : Envs]

(* chunk_id is f"{doc_id}#{i}"; a passage is one version of one.           *)
ChunkIds == [doc : DocIds, idx : Nat]

Passages == [doc : DocIds, idx : Nat, src : Nat]

StoredChunks == [id : ChunkIds, scope : Scopes, doc_type : Tables,
                 acl : SUBSET Roles, passage : Passages]

(* A chunk as retrieval sees it.                                           *)
Retrievable(c) ==
    [id |-> [doc |-> c.doc, idx |-> c.idx],
     scope |-> c.scope,
     doc_type |-> c.doc.doc_type,
     acl |-> c.acl,
     passage |-> [doc |-> c.doc, idx |-> c.idx, src |-> c.src]]

Stored == {Retrievable(c) : c \in index}

Query ==
    INSTANCE QueryPipeline
    WITH store <- Stored, pc <- node, Chunks <- StoredChunks, DocTypes <- Tables

ASSUME AskAssumption ==
    /\ Questions \subseteq Query!QuestionKinds
    /\ RetrieveK \in Nat /\ RerankK \in Nat

SystemInit == Init /\ Query!Init /\ doneBefore = {}

Ask ==
    /\ node = "fan_out"
    /\ UNCHANGED vars
    /\ Query!FanOut
    /\ doneBefore' = done

GoOn ==
    /\ node # "fan_out"
    /\ UNCHANGED <<vars, doneBefore>>
    /\ Query!Node

GiveUp ==
    /\ UNCHANGED <<vars, doneBefore>>
    /\ Query!Fail

SystemNext ==
    \/ Next /\ UNCHANGED asking
    \/ Ask \/ GoOn \/ GiveUp

SystemSpec == SystemInit /\ [][SystemNext]_<<vars, asking>>

-----------------------------------------------------------------------------
(* The query behaves as QueryPipeline says, so that what holds there for   *)
(* every store history holds for the one ingestion produces: each of its   *)
(* steps leaves a store that names each chunk of a scope once.             *)
ImplementsQuery == Query!Safety

(* Every passage retrieved, shown to the model or cited is one that the    *)
(* latest state of a committed record calls for, and that record's ACL,    *)
(* as CDA sent it, admits the caller.                                      *)
ShownAsCommitted ==
    \A p \in Query!Shown : \E n \in DOMAIN feed :
        /\ Ingested(feed[n])
        /\ \E c \in BatchChunks(feed[n], n) : Retrievable(c) = p /\ Query!MayRead(me, c)

(* Batch n speaks of the passage's record and is newer than the passage:   *)
(* it deletes the record or rewrites it.                                   *)
Supersedes(n, p) ==
    /\ Ingested(feed[n]) /\ n > p.passage.src
    /\ feed[n].scope = p.scope
    /\ feed[n].table = p.id.doc.doc_type
    /\ p.id.doc.key \in MentionedKeys(feed[n].rows)

(* Batch n's version of the record ends before this passage: ingest_batch  *)
(* evicts nothing when it rewrites a record (ingest.py 200-209).           *)
BeyondRewrite(n, p) ==
    /\ p.id.doc \notin BatchDeletes(feed[n])
    /\ \A c \in BatchChunks(feed[n], n) : Retrievable(c).id # p.id

(* With the CLI's loop, a passage that a batch completed before the        *)
(* question was asked has superseded reaches a query, with its old text    *)
(* and under its old ACL, in two cases only: the record's new version has  *)
(* fewer passages, and this one is beyond its end; or a request of the     *)
(* passage's own batch went on without its caller (contracts.py 166-168    *)
(* and merge.py 8 allow neither).                                          *)
OnlyLeftoversShown ==
    Sequential =>
        \A p \in Query!Shown, n \in doneBefore :
            Supersedes(n, p) => BeyondRewrite(n, p) \/ p.passage.src \in abandoned

(* With the echo model, what ships cites every passage it was shown (llm/  *)
(* local.py 6-8), whatever lines of the passages pass for the prompt's own *)
(* numbers: an answer that can be traced.                                  *)
EchoesCite ==
    Llm = "local" /\ node = "answered" /\ ~ answer.abstained =>
        {c.chunk : c \in answer.citations} = Query!Elements(reranked)

=============================================================================
