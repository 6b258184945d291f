--------------------------- MODULE IndexPromise ---------------------------
(***************************************************************************)
(* What ingestion promises about the vector index, whatever runs in        *)
(* between (contracts.py, ingestion/ingest.py): batches are committed once *)
(* and never change; a chunk enters the index only for the latest state of *)
(* a record in a committed batch, with that batch's scope and that row's   *)
(* ACL; a document's chunks leave only for a committed tombstone, and then *)
(* all of them leave at once, but for some that a write in progress put.   *)
(***************************************************************************)
EXTENDS Naturals, Sequences

CONSTANTS
    Batches,            \* the batches CDA may commit
    Ingested(_),        \* a batch that is not skipped
    NamespaceOf(_),     \* where the store keeps a batch's chunks
    BatchChunks(_, _),  \* the chunks of a batch, given its number
    BatchDeletes(_),    \* the documents a batch deletes
    Slot(_)             \* the store's key for a chunk

VARIABLES
    feed,     \* the committed batches, in commit order
    index,    \* the chunks in the vector store
    unsettled \* the chunks of writes in progress, which change at will

(* A chunk some committed batch calls for, and a document one deletes.     *)
Justified(c) ==
    \E n \in DOMAIN feed : Ingested(feed[n]) /\ c \in BatchChunks(feed[n], n)

Tombstoned(ns, doc) ==
    \E n \in DOMAIN feed :
        /\ Ingested(feed[n])
        /\ NamespaceOf(feed[n]) = ns
        /\ doc \in BatchDeletes(feed[n])

(* upsert: the chunk takes its slot, whatever held it before.              *)
WithChunk(idx, c) == {d \in idx : Slot(d) # Slot(c)} \cup {c}

(* delete_document: every chunk of the document in the scope goes.         *)
WithoutDoc(idx, ns, doc) == {d \in idx : ~ (d.ns = ns /\ d.doc = doc)}

Init == feed = <<>> /\ index = {}

Publish ==
    /\ \E b \in Batches : feed' = Append(feed, b)
    /\ UNCHANGED index

Put ==
    /\ \E c \in index' : Justified(c) /\ index' = WithChunk(index, c)
    /\ UNCHANGED feed

Evict ==
    /\ \E n \in DOMAIN feed : Ingested(feed[n]) /\
         \E doc \in BatchDeletes(feed[n]) :
         \E spared \in SUBSET {c \in unsettled \cap index : c.doc = doc} :
            index' = WithoutDoc(index, NamespaceOf(feed[n]), doc) \cup spared
    /\ UNCHANGED feed

Next == Publish \/ Put \/ Evict

Spec == Init /\ [][Next]_<<feed, index>>

=============================================================================
