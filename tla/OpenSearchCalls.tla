-------------------------- MODULE OpenSearchCalls --------------------------
(***************************************************************************)
(* Overlapping calls of OpenSearchStore on one scope's index, request by   *)
(* request (vectorstore/opensearch_store.py): upsert asks whether the      *)
(* index exists, creates it if not, and sends a bulk request with          *)
(* refresh=True; delete_document asks, and sends a delete_by_query.        *)
(*                                                                         *)
(* OpenSearch performs the actions of a bulk request one by one.  Searches *)
(* see the index as of its last refresh.  delete_by_query searches, then   *)
(* deletes each hit that has not been written since; conflicts="proceed"   *)
(* skips the others.  A caller that times out is gone, its request is not. *)
(***************************************************************************)
EXTENDS Naturals, Sequences, FiniteSets

CONSTANTS
    ChunkIds,
    DocOf,       \* the document of each chunk id
    Dims,        \* embedding widths of the callers' embedders
    Upserts,     \* what upsert is called with: chunk ids, and their vectors' width
    Clients,     \* bound on callers at a time
    MaxCalls     \* bound on calls

VARIABLES
    dim,         \* the mapping's dimension; 0: no knn_vector mapping yet
    live,        \* the upsert call that wrote each chunk last; 0: no chunk
    view,        \* `live` as of the last refresh
    calls,       \* the calls, in the order they began
    gone         \* calls whose caller has timed out or died

vars == <<dim, live, view, calls, gone>>

Docs == {DocOf[i] : i \in ChunkIds}

Written == [ChunkIds -> 0 .. MaxCalls]

NoHits == [i \in ChunkIds |-> 0]

Call == [kind : {"upsert", "delete"}, ids : SUBSET ChunkIds, dim : Dims \cup {0},
         pc : {"exists", "create", "request", "deleting", "done", "failed", "lost"},
         todo : SUBSET ChunkIds,   \* items of the request not performed yet
         hits : Written,           \* what the delete_by_query found
         ok : BOOLEAN,             \* no item was rejected
         before : SUBSET (1 .. MaxCalls)]   \* calls that ended before this began

ASSUME CallsAssumption ==
    /\ DOMAIN DocOf = ChunkIds
    /\ Dims \subseteq Nat \ {0}
    /\ Upserts \subseteq [ids : (SUBSET ChunkIds) \ {{}}, dim : Dims]
    /\ Clients \in Nat /\ MaxCalls \in Nat

Ended(n) == calls[n].pc \in {"done", "failed", "lost"}

Init ==
    /\ dim = 0
    /\ live = NoHits /\ view = NoHits
    /\ calls = <<>>
    /\ gone = {}

-----------------------------------------------------------------------------
(* The caller.                                                             *)

Begin(kind, ids, d) ==
    /\ Len(calls) < MaxCalls
    /\ Cardinality({n \in DOMAIN calls : ~ Ended(n)} \ gone) < Clients
    /\ calls' = Append(calls, [kind |-> kind, ids |-> ids, dim |-> d, pc |-> "exists",
                               todo |-> {}, hits |-> NoHits, ok |-> TRUE,
                               before |-> {n \in DOMAIN calls : Ended(n)}])
    /\ UNCHANGED <<dim, live, view, gone>>

Upsert == \E u \in Upserts : Begin("upsert", u.ids, u.dim)

DeleteDocument == \E doc \in Docs : Begin("delete", {i \in ChunkIds : DocOf[i] = doc}, 0)

(* The caller raises: nothing more is asked for, but the request it sent   *)
(* last stays with OpenSearch.                                             *)
TimeOut(n) ==
    /\ ~ Ended(n) /\ n \notin gone
    /\ gone' = gone \cup {n}
    /\ calls' = [calls EXCEPT ![n].pc = IF @ = "exists" THEN "failed" ELSE @]
    /\ UNCHANGED <<dim, live, view>>

(* Slips: the index is left to the bulk request, or always created.        *)
NeverCreate(n) ==
    /\ calls[n].pc = "exists"
    /\ calls' = [calls EXCEPT ![n].pc = "request", ![n].todo = calls[n].ids]
    /\ UNCHANGED <<dim, live, view, gone>>

AlwaysCreate(n) ==
    /\ calls[n].pc = "exists"
    /\ calls' = [calls EXCEPT ![n].pc = IF calls[n].kind = "upsert" THEN "create" ELSE "request",
                              ![n].todo = calls[n].ids]
    /\ UNCHANGED <<dim, live, view, gone>>

(* indices.exists: upsert goes on to create the index, delete_document     *)
(* returns, if there is none.                                              *)
Exists(n) ==
    /\ calls[n].pc = "exists"
    /\ calls' = [calls EXCEPT ![n].pc = IF dim # 0 THEN "request"
                                        ELSE IF calls[n].kind = "upsert" THEN "create"
                                        ELSE "done",
                              ![n].todo = IF dim = 0 /\ calls[n].kind = "delete"
                                            THEN {} ELSE calls[n].ids]
    /\ UNCHANGED <<dim, live, view, gone>>

-----------------------------------------------------------------------------
(* OpenSearch.                                                             *)

(* indices.create raises when another caller's came first.                 *)
Create(n) ==
    /\ calls[n].pc = "create"
    /\ dim' = IF dim = 0 THEN calls[n].dim ELSE dim
    /\ IF dim = 0 /\ n \notin gone
         THEN calls' = [calls EXCEPT ![n].pc = "request"]
         ELSE calls' = [calls EXCEPT ![n].pc = IF dim = 0 THEN "failed" ELSE "lost",
                                     ![n].todo = {}]
    /\ UNCHANGED <<live, view, gone>>

InBulk(n, i) ==
    /\ calls[n].pc = "request" /\ calls[n].kind = "upsert"
    /\ i \in calls[n].todo

(* An index that does not exist is created on the fly, without a mapping.  *)
IndexItem(n, i) ==
    /\ InBulk(n, i)
    /\ dim \in {0, calls[n].dim}
    /\ live' = [live EXCEPT ![i] = n]
    /\ calls' = [calls EXCEPT ![n].todo = @ \ {i}]
    /\ UNCHANGED <<dim, view, gone>>

(* Slip: raise_on_error=False.                                             *)
RejectQuietly(n, i) ==
    /\ InBulk(n, i)
    /\ calls' = [calls EXCEPT ![n].todo = @ \ {i}]
    /\ UNCHANGED <<dim, live, view, gone>>

(* A vector of another width, or a node that refuses the item: the others  *)
(* are performed, and helpers.bulk raises.                                 *)
RejectItem(n, i) ==
    /\ InBulk(n, i)
    /\ calls' = [calls EXCEPT ![n].todo = @ \ {i}, ![n].ok = FALSE]
    /\ UNCHANGED <<dim, live, view, gone>>

(* Slips: no refresh after the bulk request; its items are not waited for. *)
BulkUnrefreshed(n) ==
    /\ calls[n].pc = "request" /\ calls[n].kind = "upsert"
    /\ calls[n].todo = {}
    /\ calls' = [calls EXCEPT ![n].pc = IF calls[n].ok THEN "done" ELSE "failed"]
    /\ UNCHANGED <<dim, live, view, gone>>

BulkUnawaited(n) ==
    /\ calls[n].pc = "request" /\ calls[n].kind = "upsert"
    /\ calls' = [calls EXCEPT ![n].pc = IF calls[n].ok THEN "done" ELSE "failed"]
    /\ view' = live
    /\ UNCHANGED <<dim, live, gone>>

BulkDone(n) ==
    /\ calls[n].pc = "request" /\ calls[n].kind = "upsert"
    /\ calls[n].todo = {}
    /\ calls' = [calls EXCEPT ![n].pc = IF calls[n].ok THEN "done" ELSE "failed"]
    /\ view' = live
    /\ UNCHANGED <<dim, live, gone>>

FindHits(n) ==
    /\ calls[n].pc = "request" /\ calls[n].kind = "delete"
    /\ calls' = [calls EXCEPT ![n].pc = "deleting", ![n].hits = view,
                              ![n].todo = {i \in calls[n].ids : view[i] # 0}]
    /\ UNCHANGED <<dim, live, view, gone>>

(* Slip: the hit goes whatever was written since.                          *)
DeleteHitUnversioned(n, i) ==
    /\ calls[n].pc = "deleting"
    /\ i \in calls[n].todo
    /\ live' = [live EXCEPT ![i] = 0]
    /\ calls' = [calls EXCEPT ![n].todo = @ \ {i}]
    /\ UNCHANGED <<dim, view, gone>>

DeleteHit(n, i) ==
    /\ calls[n].pc = "deleting"
    /\ i \in calls[n].todo
    /\ live' = [live EXCEPT ![i] = IF @ = calls[n].hits[i] THEN 0 ELSE @]
    /\ calls' = [calls EXCEPT ![n].todo = @ \ {i}]
    /\ UNCHANGED <<dim, view, gone>>

(* Slip: no refresh after the deletion.                                    *)
DeleteUnrefreshed(n) ==
    /\ calls[n].pc = "deleting"
    /\ calls[n].todo = {}
    /\ calls' = [calls EXCEPT ![n].pc = "done", ![n].hits = NoHits]
    /\ UNCHANGED <<dim, live, view, gone>>

DeleteDone(n) ==
    /\ calls[n].pc = "deleting"
    /\ calls[n].todo = {}
    /\ calls' = [calls EXCEPT ![n].pc = "done", ![n].hits = NoHits]
    /\ view' = live
    /\ UNCHANGED <<dim, live, gone>>

(* OpenSearch refreshes an index now and then.                             *)
Refresh ==
    /\ view' = live
    /\ UNCHANGED <<dim, live, calls, gone>>

Request(n) ==
    \/ Exists(n) \/ Create(n)
    \/ \E i \in ChunkIds : IndexItem(n, i) \/ RejectItem(n, i)
    \/ BulkDone(n)
    \/ FindHits(n)
    \/ \E i \in ChunkIds : DeleteHit(n, i)
    \/ DeleteDone(n)

Next ==
    \/ Upsert \/ DeleteDocument \/ Refresh
    \/ \E n \in DOMAIN calls : Request(n) \/ TimeOut(n)

Spec == Init /\ [][Next]_vars

-----------------------------------------------------------------------------
(* The variables stay in their types; a call that ended has nothing left.  *)
TypeOK ==
    /\ dim \in Dims \cup {0}
    /\ live \in Written /\ view \in Written
    /\ calls \in Seq(Call) /\ Len(calls) <= MaxCalls
    /\ gone \subseteq DOMAIN calls
    /\ \A n \in DOMAIN calls : Ended(n) => calls[n].todo = {}

(* When delete_document has returned, no chunk of the document is left     *)
(* that an upsert wrote which had ended before the deletion began: the     *)
(* conflicts it skipped were with calls that overlapped it                 *)
(* (opensearch_store.py 147-152, contracts.py 166-168).                    *)
DeleteIsEffective ==
    \A n \in DOMAIN calls :
        calls[n].kind = "delete" /\ calls[n].pc = "done" =>
            \A i \in calls[n].ids : live[i] \notin calls[n].before

(* A chunk of an upsert that returned is in the index as that call wrote   *)
(* it, unless a call that had not ended when it began touches it too: no   *)
(* item is lost silently, and nothing older undoes it.                     *)
NoCallUndone ==
    \A n \in DOMAIN calls :
        calls[n].kind = "upsert" /\ calls[n].pc = "done" =>
            \A i \in calls[n].ids :
                \/ live[i] = n
                \/ \E m \in DOMAIN calls \ (calls[n].before \cup {n}) : i \in calls[m].ids

(* Once no call touches a chunk any more, searches see it as it is: both   *)
(* requests refresh the index before they return.                          *)
SearchesSeeFinishedCalls ==
    \A i \in ChunkIds :
        (\A n \in DOMAIN calls : i \in calls[n].ids => Ended(n)) => view[i] = live[i]

(* No document gets into an index without the k-NN mapping, or with a      *)
(* vector of another width than the mapping's, whoever created it.         *)
DocumentsSearchable ==
    \A i \in ChunkIds : live[i] # 0 => dim # 0 /\ calls[live[i]].dim = dim

(* Losing the race to create the index fails a call, but never one that    *)
(* began after a call which returned or lost the race: a retry gets past   *)
(* it.                                                                     *)
RaceLostOnce ==
    \A n \in DOMAIN calls :
        calls[n].pc = "lost" =>
            \A m \in calls[n].before :
                calls[m].kind = "delete" \/ calls[m].pc = "failed"

(* A chunk some delete_by_query has found and will delete.                 *)
Doomed(i) ==
    \E n \in DOMAIN calls :
        calls[n].pc = "deleting" /\ i \in calls[n].todo /\ live[i] = calls[n].hits[i]

OpenUpserts == {n \in DOMAIN calls : calls[n].kind = "upsert" /\ ~ Ended(n)}

Atomic ==
    INSTANCE StoreCalls
    WITH index <- [i \in ChunkIds |-> IF Doomed(i) THEN 0 ELSE live[i]],
         open <- OpenUpserts

(* A deletion acts as if at once, when its search runs: it spares only     *)
(* chunks of upserts open at that moment, and no chunk written later.      *)
ActsAtOnce == Atomic!Spec

=============================================================================
