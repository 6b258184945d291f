--------------------------- MODULE QueryIsolation ---------------------------
(***************************************************************************)
(* A query over the whole store behaves as one over a store that holds     *)
(* only the chunks its caller may read.                                    *)
(***************************************************************************)
EXTENDS QueryPipeline

OnlyReadable == INSTANCE QueryPipeline WITH store <- {c \in store : MayRead(me, c)}

(* Chunks the caller may not read have no influence at all on a query: not *)
(* on its hits, their order or number, its context, its answer or its      *)
(* audit record.  "Filter at retrieval, not after" (access.py 3-4) would   *)
(* fail here if restricted chunks took places among the top k, even if     *)
(* they were dropped later.                                                *)
RestrictedHaveNoInfluence == OnlyReadable!Safety

=============================================================================
