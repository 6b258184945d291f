-------------------------- MODULE Ingestion_proofs --------------------------
(***************************************************************************)
(* Proofs about the write path, for every set of records, tables, scopes,  *)
(* batches and workers and every bound.                                    *)
(***************************************************************************)
EXTENDS Ingestion, SequenceTheorems, TLAPS

-----------------------------------------------------------------------------
(* What a batch calls for.                                                 *)

(* merge_rows reports rows and keys of the batch it was given.             *)
LEMMA MergeTypes ==
    ASSUME NEW rows \in Seq(Row)
    PROVE  /\ UpsertRows(rows) \subseteq Row
           /\ DeletedKeys(rows) \subseteq Keys
           /\ UpsertKeys(rows) \subseteq MentionedKeys(rows)
           /\ DeletedKeys(rows) \subseteq MentionedKeys(rows)
<1>1. \A i \in DOMAIN rows : rows[i] \in Row /\ rows[i].key \in Keys
  <2>1. \A i \in DOMAIN rows : rows[i] \in Row
    OBVIOUS
  <2>2. QED
    BY <2>1 DEF Row
<1>2. Winners(rows) \subseteq DOMAIN rows
  BY DEF Winners
<1>3. \A r \in UpsertRows(rows) : \E i \in DOMAIN rows : r = rows[i]
  BY <1>2 DEF UpsertRows
<1>4. \A k \in DeletedKeys(rows) : \E i \in DOMAIN rows : k = rows[i].key
  BY <1>2 DEF DeletedKeys
<1>5. QED
  BY <1>1, <1>3, <1>4 DEF UpsertKeys, MentionedKeys

(* The fields of a batch CDA may commit.                                   *)
LEMMA BatchTypes ==
    ASSUME NEW b \in Batches
    PROVE  /\ b.scope \in Scopes /\ b.table \in Tables
           /\ b.type \in EventTypes /\ b.rows \in Seq(Row)
BY FeedAssumption DEF Batch

(* The chunks and evictions of an ingested batch are well formed.          *)
LEMMA BatchOutputTypes ==
    ASSUME NEW b \in Batches, Ingested(b), NEW n \in Nat \ {0}
    PROVE  /\ BatchChunks(b, n) \subseteq Chunk
           /\ BatchDeletes(b) \subseteq DocIds
<1>1. b.table \in ConfiguredTables /\ b.table \in Tables /\ b.scope \in Scopes
      /\ b.rows \in Seq(Row)
  BY BatchTypes DEF Ingested
<1>2. ASSUME NEW row \in Row
      PROVE  /\ row.key \in Keys
             /\ AclFor(b.table, row) \in SUBSET Roles
             /\ row.size \in Nat
  BY <1>1, FeedAssumption, MaxChunksAssumption DEF AclFor, Row
<1>3. ASSUME NEW c \in BatchChunks(b, n)
      PROVE  c \in Chunk
  <2>1. PICK row \in UpsertRows(b.rows) : c \in ChunksOf(b, n, row)
    BY <1>3 DEF BatchChunks
  <2>2. row \in Row
    BY <2>1, <1>1, MergeTypes
  <2>3. PICK x \in 0 .. row.size - 1 :
           c = ChunkOf(b, n, row, x)
    BY <2>1 DEF ChunksOf
  <2>4. x \in Nat
    BY <2>2, <1>2
  <2>5. DocId(b.table, row.key) \in DocIds
    BY <1>1, <1>2, <2>2 DEF DocId, DocIds
  <2>6. NamespaceOf(b) \in Namespaces
    BY <1>1 DEF NamespaceOf, Namespaces
  <2>7. QED
    BY <1>1, <1>2, <2>2, <2>3, <2>4, <2>5, <2>6 DEF Chunk, ChunkOf
<1>4. ASSUME NEW doc \in BatchDeletes(b)
      PROVE  doc \in DocIds
  BY <1>1, <1>4, MergeTypes DEF BatchDeletes, DocId, DocIds
<1>5. QED
  BY <1>3, <1>4

-----------------------------------------------------------------------------
(* Type correctness.                                                       *)

(* Committing a batch extends the feed and changes no earlier batch.       *)
LEMMA FeedGrows ==
    ASSUME feed \in Seq(Batches), NEW b \in Batches, feed' = Append(feed, b)
    PROVE  /\ feed' \in Seq(Batches)
           /\ Len(feed') = Len(feed) + 1 /\ Len(feed) \in Nat
           /\ DOMAIN feed' = DOMAIN feed \cup {Len(feed) + 1}
           /\ \A n \in DOMAIN feed : feed'[n] = feed[n]
           /\ feed'[Len(feed) + 1] = b
BY AppendProperties

(* A committed batch is one CDA may commit.                                *)
LEMMA FeedEntry ==
    ASSUME feed \in Seq(Batches), NEW n \in DOMAIN feed
    PROVE  feed[n] \in Batches /\ n \in Nat \ {0}
OBVIOUS

(* A deletion removes chunks of its document in its namespace, and no      *)
(* others.                                                                 *)
LEMMA Removes ==
    ASSUME NEW b, NEW doc, Evicts(b, doc)
    PROVE  /\ index' \subseteq index
           /\ \A c \in index \ index' : c.ns = NamespaceOf(b) /\ c.doc = doc
BY DEF Evicts, Unsettled, Promise!WithoutDoc

LEMMA DeletionEvicts ==
    ASSUME NEW w, NEW doc, DeleteDocument(w, doc)
    PROVE  /\ index' \subseteq index
           /\ \A c \in index \ index' : c.ns = NamespaceOf(MyBatch(w)) /\ c.doc = doc
BY Removes DEF DeleteDocument

LEMMA StrayEvicts ==
    ASSUME NEW d, StrayDelete(d)
    PROVE  /\ index' \subseteq index
           /\ \A c \in index \ index' : c.ns = NamespaceOf(feed[d.batch]) /\ c.doc = d.doc
BY Removes DEF StrayDelete

(* What a step does to the index and to the feed.                          *)
LEMMA IndexSteps ==
    ASSUME [Next]_vars
    PROVE  \/ UNCHANGED index
           \/ \E w \in Workers : \E doc \in toDelete[w] : DeleteDocument(w, doc)
           \/ \E w \in Workers : \E c \in toWrite[w] : WriteChunk(w, c)
           \/ \E c \in strayWrites : StrayWrite(c)
           \/ \E d \in strayDeletes : StrayDelete(d)
BY DEF Next, Deliver, Work, vars, CommitUnrouted, CommitAnnounced, CommitRejected, Redeliver,
   Receive, Skip, ReadAndMerge, Embed, Finish, Fail, TimeOut

LEMMA FeedSteps ==
    ASSUME [Next]_vars
    PROVE  \/ UNCHANGED feed
           \/ UNCHANGED index /\ \E b \in Batches : feed' = Append(feed, b)
BY DEF Next, Deliver, Work, vars, CommitUnrouted, CommitAnnounced, CommitRejected, Redeliver,
   Receive, Skip, ReadAndMerge, DeleteDocument, Embed, WriteChunk, Finish, Fail, TimeOut,
   StrayWrite, StrayDelete

(* A batch that was begun, or abandoned, stays so.                         *)
LEMMA HistoryGrows ==
    ASSUME [Next]_vars
    PROVE  started \subseteq started' /\ abandoned \subseteq abandoned'
BY DEF Next, Deliver, Work, vars, busVars, strays, CommitUnrouted, CommitAnnounced,
   CommitRejected, Redeliver, Receive, Skip, ReadAndMerge, DeleteDocument, Embed, WriteChunk,
   Finish, Fail, TimeOut, StrayWrite, StrayDelete

LEMMA InitType == Init => TypeOK
<1>1. SUFFICES ASSUME Init PROVE TypeOK
  OBVIOUS
<1>2. feed \in Seq(Batches) /\ Len(feed) <= MaxBatches /\ DOMAIN feed = {}
  BY <1>1, IngestionAssumption, EmptySeq DEF Init
<1>3. QED
  BY <1>1, <1>2, IngestionAssumption DEF Init, TypeOK, WorkerStates

LEMMA NextType == TypeOK /\ [Next]_vars => TypeOK'
<1> SUFFICES ASSUME TypeOK, [Next]_vars PROVE TypeOK'
  OBVIOUS
<1> USE IngestionAssumption
<1>1. ASSUME NEW b \in Batches, CommitUnrouted(b) PROVE TypeOK'
  BY <1>1, FeedGrows DEF TypeOK, CommitUnrouted, busVars, workerVars, strays
<1>2. ASSUME NEW b \in Batches, CommitAnnounced(b) PROVE TypeOK'
  BY <1>2, FeedGrows DEF TypeOK, CommitAnnounced, workerVars, strays, FirstDelivery, Delivery
<1>3. ASSUME NEW b \in Batches, CommitRejected(b) PROVE TypeOK'
  BY <1>3, FeedGrows DEF TypeOK, CommitRejected, workerVars, strays
<1>4. ASSUME NEW n \in DOMAIN feed, Redeliver(n) PROVE TypeOK'
  BY <1>4, FeedEntry DEF TypeOK, Redeliver, workerVars, strays, Delivery
<1>5. ASSUME NEW w \in Workers, NEW d \in queue, Receive(w, d) PROVE TypeOK'
  BY <1>5 DEF TypeOK, Receive, WorkerStates, strays
<1>6. ASSUME NEW w \in Workers, Skip(w) PROVE TypeOK'
  BY <1>6 DEF TypeOK, Skip, Release, WorkerStates, strays
<1>7. ASSUME NEW w \in Workers, ReadAndMerge(w) PROVE TypeOK'
  BY <1>7, BatchOutputTypes, FeedEntry DEF TypeOK, ReadAndMerge, WorkerStates, MyBatch, strays
<1>8. ASSUME NEW w \in Workers, NEW doc \in toDelete[w], DeleteDocument(w, doc) PROVE TypeOK'
  BY <1>8, DeletionEvicts DEF TypeOK, DeleteDocument, busVars, strays
<1>9. ASSUME NEW w \in Workers, Embed(w) PROVE TypeOK'
  BY <1>9 DEF TypeOK, Embed, busVars, WorkerStates, strays
<1>10. ASSUME NEW w \in Workers, NEW c \in toWrite[w], WriteChunk(w, c) PROVE TypeOK'
  BY <1>10 DEF TypeOK, WriteChunk, Promise!WithChunk, busVars, strays
<1>11. ASSUME NEW w \in Workers, Finish(w) PROVE TypeOK'
  BY <1>11 DEF TypeOK, Finish, Release, WorkerStates, strays
<1>12. ASSUME NEW w \in Workers, Fail(w) \/ TimeOut(w) PROVE TypeOK'
  <2>1. /\ GiveBack(w) /\ pc[w] # "idle"
        /\ UNCHANGED <<feed, index, rejected, done, started, copies>>
    BY <1>12 DEF Fail, TimeOut
  <2>2. job[w] \in Delivery /\ job[w].batch \in DOMAIN feed
    <3>1. job[w].batch \in DOMAIN feed /\ job[w] \in Delivery \cup {NoJob}
      BY <2>1 DEF TypeOK
    <3>2. job[w].batch # 0
      BY <3>1, FeedEntry DEF TypeOK
    <3>3. QED
      BY <3>1, <3>2 DEF NoJob
  <2>3. queue' \subseteq Delivery /\ \A d \in queue' : d.batch \in DOMAIN feed
    <3>1. CASE job[w].attempt < MaxAttempts
      <4>1. [job[w] EXCEPT !.attempt = @ + 1] \in Delivery
        BY <2>2, <3>1 DEF Delivery
      <4>2. [job[w] EXCEPT !.attempt = @ + 1].batch = job[w].batch
        BY <2>2 DEF Delivery
      <4>3. QED
        BY <2>1, <2>2, <3>1, <4>1, <4>2 DEF GiveBack, TypeOK
    <3>2. CASE ~ (job[w].attempt < MaxAttempts)
      BY <2>1, <3>2 DEF GiveBack, TypeOK
    <3>3. QED
      BY <3>1, <3>2
  <2>4. dropped' \subseteq DOMAIN feed
    BY <2>1, <2>2 DEF GiveBack, TypeOK
  <2>5. /\ strayWrites' \subseteq Chunk
        /\ strayDeletes' \subseteq [batch : DOMAIN feed, doc : DocIds]
        /\ abandoned' \subseteq DOMAIN feed
    <3>1. toDelete[w] \subseteq DocIds /\ toWrite[w] \subseteq Chunk
      BY DEF TypeOK
    <3>2. QED
      BY <1>12, <2>2, <3>1 DEF TypeOK, Fail, TimeOut, strays
  <2>6. QED
    BY <2>1, <2>3, <2>4, <2>5 DEF TypeOK, GiveBack, Release, WorkerStates
<1>13. ASSUME NEW c \in strayWrites, StrayWrite(c) PROVE TypeOK'
  BY <1>13 DEF TypeOK, StrayWrite, Promise!WithChunk, busVars, workerVars
<1>14. ASSUME NEW d \in strayDeletes, StrayDelete(d) PROVE TypeOK'
  BY <1>14, StrayEvicts DEF TypeOK, StrayDelete, busVars, workerVars
<1>15. CASE UNCHANGED vars
  BY <1>15 DEF TypeOK, vars, busVars, workerVars, strays
<1>16. QED
  BY <1>1, <1>2, <1>3, <1>4, <1>5, <1>6, <1>7, <1>8, <1>9, <1>10, <1>11, <1>12, <1>13,
     <1>14, <1>15
     DEF Next, Deliver, Work

(* Every reachable state of the write path is well typed: in particular    *)
(* every waiting delivery and every busy worker names a committed batch,   *)
(* and no worker holds a chunk outside the store's types.                  *)
THEOREM TypeCorrect == Spec => []TypeOK
BY InitType, NextType, PTL DEF Spec

-----------------------------------------------------------------------------
(* The index.                                                              *)

LEMMA InitSlots == Init => OneChunkPerSlot
BY DEF Init, OneChunkPerSlot

LEMMA NextSlots == OneChunkPerSlot /\ [Next]_vars => OneChunkPerSlot'
<1> SUFFICES ASSUME OneChunkPerSlot, [Next]_vars PROVE OneChunkPerSlot'
  OBVIOUS
<1>1. CASE index' \subseteq index
  BY <1>1 DEF OneChunkPerSlot
<1>2. ASSUME NEW c, index' = Promise!WithChunk(index, c) PROVE OneChunkPerSlot'
  BY <1>2 DEF OneChunkPerSlot, Promise!WithChunk
<1>3. QED
  BY <1>1, <1>2, IndexSteps, DeletionEvicts, StrayEvicts DEF WriteChunk, StrayWrite

(* Storing a chunk keeps at most one chunk per slot.                       *)
THEOREM SlotsUnique == Spec => []OneChunkPerSlot
BY InitSlots, NextSlots, PTL DEF Spec

(* The delivered work is safe: the invariant the remaining proofs rest on. *)
LEMMA InitHold == Init => WorkersHold /\ StraysHold
BY DEF Init, WorkersHold, StraysHold

(* Committed batches do not change.                                        *)
LEMMA FeedKept ==
    ASSUME TypeOK, [Next]_vars
    PROVE  \A n \in DOMAIN feed : n \in DOMAIN feed' /\ feed'[n] = feed[n]
<1>1. CASE \E b \in Batches : feed' = Append(feed, b)
  BY <1>1, FeedGrows DEF TypeOK
<1>2. CASE UNCHANGED feed
  BY <1>2
<1>3. QED
  BY <1>1, <1>2, FeedSteps

LEMMA NextHold == TypeOK /\ WorkersHold /\ [Next]_vars => WorkersHold'
<1> SUFFICES ASSUME TypeOK, WorkersHold, [Next]_vars PROVE WorkersHold'
  OBVIOUS
<1>1. ASSUME UNCHANGED workerVars PROVE WorkersHold'
  <2>1. \A w \in Workers : pc[w] # "idle" => MyBatch(w)' = MyBatch(w)
    BY <1>1, FeedKept DEF TypeOK, MyBatch, workerVars
  <2>2. QED
    BY <1>1, <2>1, HistoryGrows DEF WorkersHold, workerVars
<1>2. ASSUME NEW w \in Workers, NEW d \in queue, Receive(w, d) PROVE WorkersHold'
  BY <1>2 DEF TypeOK, WorkersHold, Receive, MyBatch
<1>3. ASSUME NEW w \in Workers, Skip(w) \/ Finish(w) \/ Fail(w) \/ TimeOut(w)
      PROVE WorkersHold'
  BY <1>3 DEF TypeOK, WorkersHold, Skip, Finish, Fail, TimeOut, GiveBack, Release, MyBatch
<1>4. ASSUME NEW w \in Workers, ReadAndMerge(w) PROVE WorkersHold'
  BY <1>4 DEF TypeOK, WorkersHold, ReadAndMerge, MyBatch
<1>5. ASSUME NEW w \in Workers, NEW doc \in toDelete[w], DeleteDocument(w, doc)
      PROVE WorkersHold'
  BY <1>5 DEF TypeOK, WorkersHold, DeleteDocument, MyBatch, busVars
<1>6. ASSUME NEW w \in Workers, Embed(w) PROVE WorkersHold'
  BY <1>6 DEF TypeOK, WorkersHold, Embed, MyBatch, busVars
<1>7. ASSUME NEW w \in Workers, NEW c \in toWrite[w], WriteChunk(w, c) PROVE WorkersHold'
  BY <1>7 DEF TypeOK, WorkersHold, WriteChunk, MyBatch, busVars
<1>8. QED
  BY <1>1, <1>2, <1>3, <1>4, <1>5, <1>6, <1>7 DEF Next, Deliver, Work, vars, CommitUnrouted,
     CommitAnnounced, CommitRejected, Redeliver, StrayWrite, StrayDelete

(* A chunk of batch n says so.                                             *)
LEMMA ChunkSource ==
    ASSUME NEW b, NEW n, NEW c \in BatchChunks(b, n)
    PROVE  c.src = n /\ c.ns = NamespaceOf(b)
BY DEF BatchChunks, ChunksOf, ChunkOf

LEMMA NextStrays ==
    TypeOK /\ WorkersHold /\ StraysHold /\ [Next]_vars => StraysHold'
<1> SUFFICES ASSUME TypeOK, WorkersHold, StraysHold, [Next]_vars PROVE StraysHold'
  OBVIOUS
<1>1. \A n \in abandoned : feed'[n] = feed[n]
  BY FeedKept DEF TypeOK
<1>2. ASSUME strayWrites' \subseteq strayWrites, strayDeletes' \subseteq strayDeletes,
             UNCHANGED abandoned
      PROVE  StraysHold'
  BY <1>1, <1>2, HistoryGrows DEF StraysHold
<1>3. ASSUME NEW w \in Workers, TimeOut(w) PROVE StraysHold'
  <2> DEFINE n == job[w].batch
  <2>1. /\ pc[w] \in {"deleting", "writing"} /\ UNCHANGED <<feed, started>>
        /\ abandoned' = abandoned \cup {n}
        /\ strayWrites' \subseteq strayWrites \cup toWrite[w]
        /\ \A d \in strayDeletes' : d \in strayDeletes \/ (d.batch = n /\ d.doc \in toDelete[w])
    BY <1>3 DEF TimeOut
  <2>2. /\ n \in started /\ Ingested(feed[n])
        /\ toDelete[w] \subseteq BatchDeletes(feed[n])
        /\ toWrite[w] \subseteq BatchChunks(feed[n], n)
    BY <2>1 DEF WorkersHold, MyBatch
  <2>3. \A c \in toWrite[w] : c.src = n
    BY <2>2, ChunkSource
  <2>4. QED
    BY <2>1, <2>2, <2>3 DEF StraysHold
<1>4. QED
  BY <1>2, <1>3 DEF Next, Deliver, Work, vars, strays, CommitUnrouted, CommitAnnounced,
     CommitRejected, Redeliver, Receive, Skip, ReadAndMerge, DeleteDocument, Embed, WriteChunk,
     Finish, Fail, StrayWrite, StrayDelete

(* A worker, and a request without its caller, evict and store only what   *)
(* their own batch calls for.                                              *)
THEOREM WorkersHoldOwnBatch == Spec => [](TypeOK /\ WorkersHold /\ StraysHold)
BY InitType, NextType, InitHold, NextHold, NextStrays, PTL DEF Spec

-----------------------------------------------------------------------------
(* The write path implements the promise about the index.                  *)

LEMMA InitPromise == Init => Promise!Init
BY DEF Init, Promise!Init

LEMMA StepPromise ==
    TypeOK /\ WorkersHold /\ StraysHold /\ [Next]_vars => [Promise!Next]_<<feed, index>>
<1> SUFFICES ASSUME TypeOK, WorkersHold, StraysHold, [Next]_vars
             PROVE  [Promise!Next]_<<feed, index>>
  OBVIOUS
<1>1. CASE UNCHANGED index /\ \E b \in Batches : feed' = Append(feed, b)
  BY <1>1 DEF Promise!Next, Promise!Publish
<1>2. ASSUME NEW n \in DOMAIN feed, Ingested(feed[n]), NEW doc \in BatchDeletes(feed[n]),
             Evicts(feed[n], doc), UNCHANGED feed
      PROVE  Promise!Evict
  <2>1. \E spared \in SUBSET {c \in Unsettled \cap index : c.doc = doc} :
           index' = Promise!WithoutDoc(index, NamespaceOf(feed[n]), doc) \cup spared
    BY <1>2 DEF Evicts, Unsettled
  <2>2. QED
    BY <1>2, <2>1 DEF Promise!Evict
<1>3. ASSUME NEW n \in DOMAIN feed, Ingested(feed[n]), NEW c \in BatchChunks(feed[n], n),
             index' = Promise!WithChunk(index, c), UNCHANGED feed
      PROVE  Promise!Put
  <2>1. c \in index'
    BY <1>3 DEF Promise!WithChunk
  <2>2. QED
    BY <1>3, <2>1 DEF Promise!Put, Promise!Justified
<1>4. ASSUME NEW w \in Workers, NEW doc \in toDelete[w], DeleteDocument(w, doc)
      PROVE Promise!Evict
  BY <1>2, <1>4 DEF TypeOK, WorkersHold, DeleteDocument, MyBatch
<1>5. ASSUME NEW w \in Workers, NEW c \in toWrite[w], WriteChunk(w, c)
      PROVE Promise!Put
  BY <1>3, <1>5 DEF TypeOK, WorkersHold, WriteChunk, MyBatch
<1>6. ASSUME NEW c \in strayWrites, StrayWrite(c) PROVE Promise!Put
  BY <1>3, <1>6 DEF TypeOK, StraysHold, StrayWrite
<1>7. ASSUME NEW d \in strayDeletes, StrayDelete(d) PROVE Promise!Evict
  BY <1>2, <1>7 DEF TypeOK, StraysHold, StrayDelete
<1>8. QED
  <2>1. CASE UNCHANGED index
    BY <1>1, <2>1, FeedSteps
  <2>2. QED
    BY <1>4, <1>5, <1>6, <1>7, <2>1, IndexSteps DEF Promise!Next

(* Every behaviour of the write path, with any number of concurrent,       *)
(* failing and repeated invocations and of requests that outlive them, is  *)
(* one the abstract index allows.                                          *)
THEOREM Refinement == Spec => RefinesPromise
BY WorkersHoldOwnBatch, InitPromise, StepPromise, PTL
   DEF Spec, RefinesPromise, Promise!Spec

-----------------------------------------------------------------------------
(* Provenance and completeness of the index.                               *)

(* A justified chunk stays justified, a tombstone stays committed.         *)
LEMMA PromiseMonotone ==
    ASSUME TypeOK, [Next]_vars
    PROVE  /\ \A n \in DOMAIN feed : n \in DOMAIN feed' /\ feed'[n] = feed[n]
           /\ \A c : Promise!Justified(c) => Promise!Justified(c)'
           /\ \A ns, doc : Promise!Tombstoned(ns, doc) => Promise!Tombstoned(ns, doc)'
BY FeedKept DEF Promise!Justified, Promise!Tombstoned

LEMMA InitProvenance == Init => IndexJustified
BY DEF Init, IndexJustified

LEMMA NextProvenance ==
    TypeOK /\ WorkersHold /\ StraysHold /\ IndexJustified /\ [Next]_vars => IndexJustified'
<1> SUFFICES ASSUME TypeOK, WorkersHold, StraysHold, IndexJustified, [Next]_vars
             PROVE  \A c \in index' : Promise!Justified(c)'
  BY DEF IndexJustified
<1>1. \A c : Promise!Justified(c) => Promise!Justified(c)'
  BY PromiseMonotone
<1>2. CASE index' \subseteq index
  BY <1>1, <1>2 DEF IndexJustified
<1>3. ASSUME NEW w \in Workers, NEW c \in toWrite[w], WriteChunk(w, c)
      PROVE  Promise!Justified(c) /\ index' \subseteq index \cup {c}
  BY <1>3 DEF TypeOK, WorkersHold, WriteChunk, MyBatch, Promise!Justified, Promise!WithChunk
<1>4. ASSUME NEW c \in strayWrites, StrayWrite(c)
      PROVE  Promise!Justified(c) /\ index' \subseteq index \cup {c}
  BY <1>4 DEF TypeOK, StraysHold, StrayWrite, Promise!Justified, Promise!WithChunk
<1>5. ASSUME NEW c, Promise!Justified(c), index' \subseteq index \cup {c}
      PROVE  \A d \in index' : Promise!Justified(d)'
  BY <1>1, <1>5 DEF IndexJustified
<1>6. QED
  BY <1>2, <1>3, <1>4, <1>5, IndexSteps, DeletionEvicts, StrayEvicts

(* No chunk is in the index but for the latest state of a committed        *)
(* record, under that record's scope and ACL.                              *)
THEOREM IndexProvenance == Spec => []IndexJustified
BY InitProvenance, NextProvenance, WorkersHoldOwnBatch, PTL DEF Spec

(* A passage, once there, stays there in some version unless a batch       *)
(* deletes its record.                                                     *)
LEMMA PresentStays ==
    ASSUME TypeOK, WorkersHold, StraysHold, [Next]_vars, NEW c, Present(c)
    PROVE  Present(c)'
<1>1. ASSUME Promise!Tombstoned(c.ns, c.doc) PROVE Present(c)'
  BY <1>1, PromiseMonotone DEF Present
<1>2. ASSUME NEW d \in index, Slot(d) = Slot(c) PROVE Present(c)'
  <2>1. CASE UNCHANGED index
    BY <1>2, <2>1 DEF Present
  <2>2. ASSUME NEW e, index' = Promise!WithChunk(index, e)
        PROVE Present(c)'
    BY <1>2, <2>2 DEF Present, Promise!WithChunk
  <2>3. ASSUME NEW n \in DOMAIN feed, Ingested(feed[n]), NEW doc \in BatchDeletes(feed[n]),
               Evicts(feed[n], doc)
        PROVE Present(c)'
    <3>1. CASE d \in index'
      BY <1>2, <3>1 DEF Present
    <3>2. CASE d \notin index'
      <4>1. d.ns = NamespaceOf(feed[n]) /\ d.doc = doc
        BY <1>2, <2>3, <3>2, Removes
      <4>2. c.ns = d.ns /\ c.doc = d.doc
        BY <1>2 DEF Slot
      <4>3. Promise!Tombstoned(c.ns, c.doc)
        BY <2>3, <4>1, <4>2 DEF Promise!Tombstoned
      <4>4. QED
        BY <1>1, <4>3
    <3>3. QED
      BY <3>1, <3>2
  <2>4. ASSUME NEW w \in Workers, NEW doc \in toDelete[w], DeleteDocument(w, doc)
        PROVE Present(c)'
    BY <2>3, <2>4 DEF TypeOK, WorkersHold, DeleteDocument, MyBatch
  <2>5. ASSUME NEW e \in strayDeletes, StrayDelete(e) PROVE Present(c)'
    BY <2>3, <2>5 DEF TypeOK, StraysHold, StrayDelete
  <2>6. QED
    BY <2>1, <2>2, <2>4, <2>5, IndexSteps DEF WriteChunk, StrayWrite
<1>3. QED
  BY <1>1, <1>2 DEF Present

(* The chunks a worker no longer holds are in the index.                   *)
LEMMA NextWritten ==
    TypeOK /\ WorkersHold /\ StraysHold /\ WrittenChunksPresent /\ [Next]_vars
        => WrittenChunksPresent'
<1> SUFFICES ASSUME TypeOK, WorkersHold, StraysHold, WrittenChunksPresent, [Next]_vars,
                    NEW v \in Workers, pc'[v] \in {"deleting", "writing"},
                    NEW c \in BatchChunks(MyBatch(v)', job'[v].batch) \ toWrite'[v]
             PROVE  Present(c)'
  BY DEF WrittenChunksPresent
<1>1. ASSUME pc[v] \in {"deleting", "writing"}, job'[v] = job[v],
             c \notin toWrite[v]
      PROVE  Present(c)'
  <2>1. MyBatch(v)' = MyBatch(v)
    BY <1>1, PromiseMonotone DEF TypeOK, MyBatch
  <2>2. Present(c)
    BY <1>1, <2>1 DEF WrittenChunksPresent
  <2>3. QED
    BY <2>2, PresentStays
<1>2. ASSUME NEW w \in Workers, NEW d \in toWrite[w], WriteChunk(w, d)
      PROVE  Present(c)'
  <2>1. CASE v = w /\ c = d
    BY <1>2, <2>1 DEF Present, WriteChunk, Promise!WithChunk
  <2>2. CASE ~ (v = w /\ c = d)
    BY <1>1, <1>2, <2>2 DEF WriteChunk, TypeOK
  <2>3. QED
    BY <2>1, <2>2
<1>3. ASSUME NEW w \in Workers, ReadAndMerge(w) PROVE Present(c)'
  BY <1>1, <1>3 DEF ReadAndMerge, TypeOK, MyBatch
<1>4. ASSUME NEW w \in Workers,
             Skip(w) \/ Finish(w) \/ Fail(w) \/ TimeOut(w) \/ \E d \in queue : Receive(w, d)
      PROVE  Present(c)'
  BY <1>1, <1>4 DEF Skip, Finish, Fail, TimeOut, GiveBack, Receive, Release, TypeOK
<1>5. ASSUME NEW w \in Workers, Embed(w) \/ \E doc \in toDelete[w] : DeleteDocument(w, doc)
      PROVE  Present(c)'
  BY <1>1, <1>5 DEF Embed, DeleteDocument, TypeOK
<1>6. CASE UNCHANGED workerVars
  BY <1>1, <1>6 DEF workerVars
<1>7. QED
  BY <1>2, <1>3, <1>4, <1>5, <1>6 DEF Next, Deliver, Work, vars, CommitUnrouted,
     CommitAnnounced, CommitRejected, Redeliver, StrayWrite, StrayDelete

(* A completed batch's records are whole in the index, or a batch deletes  *)
(* them: interleaved evictions, bulk writes, crashes, retries and requests  *)
(* without a caller lose no passage.                                           *)
THEOREM NothingLost == Spec => []CompletedRecordsPresent
<1> DEFINE Inv == TypeOK /\ WorkersHold /\ StraysHold /\ WrittenChunksPresent
<1>1. Init => WrittenChunksPresent /\ CompletedRecordsPresent
  BY DEF Init, WrittenChunksPresent, CompletedRecordsPresent
<1>2. Inv /\ CompletedRecordsPresent /\ [Next]_vars => CompletedRecordsPresent'
  <2> SUFFICES ASSUME Inv, CompletedRecordsPresent, [Next]_vars,
                      NEW n \in done', Ingested(feed'[n]),
                      NEW c \in BatchChunks(feed'[n], n)
               PROVE  Present(c)'
    BY DEF CompletedRecordsPresent
  <2>1. CASE n \in done
    <3>1. feed'[n] = feed[n]
      BY <2>1, PromiseMonotone DEF TypeOK
    <3>2. Present(c)
      BY <2>1, <3>1 DEF CompletedRecordsPresent
    <3>3. QED
      BY <3>2, PresentStays
  <2>2. ASSUME NEW w \in Workers, Skip(w), n = job[w].batch PROVE Present(c)'
    BY <2>2 DEF Skip, MyBatch
  <2>3. ASSUME NEW w \in Workers, Finish(w), n = job[w].batch PROVE Present(c)'
    <3>1. c \in BatchChunks(MyBatch(w), job[w].batch) /\ c \notin toWrite[w]
          /\ pc[w] \in {"deleting", "writing"}
      BY <2>3 DEF Finish, MyBatch
    <3>2. Present(c)
      BY <3>1 DEF WrittenChunksPresent
    <3>3. QED
      BY <3>2, PresentStays
  <2>4. QED
    BY <2>1, <2>2, <2>3 DEF Next, Deliver, Work, vars, busVars, CommitUnrouted,
       CommitAnnounced, CommitRejected, Redeliver, Receive, ReadAndMerge, DeleteDocument,
       Embed, WriteChunk, Skip, Finish, Fail, TimeOut, StrayWrite, StrayDelete
<1>3. QED
  BY <1>1, <1>2, NextWritten, InitType, NextType, InitHold, NextHold, NextStrays, PTL DEF Spec

-----------------------------------------------------------------------------
(* Isolation of namespaces.                                                *)

(* The namespace a chunk is kept in is its own scope's.                    *)
LEMMA JustifiedNamespace ==
    ASSUME TypeOK, NEW c, Promise!Justified(c)
    PROVE  c.scope \in Scopes /\ c.ns = Namespace[c.scope]
<1>1. PICK n \in DOMAIN feed : Ingested(feed[n]) /\ c \in BatchChunks(feed[n], n)
  BY DEF Promise!Justified
<1>2. PICK row \in UpsertRows(feed[n].rows) : c \in ChunksOf(feed[n], n, row)
  BY <1>1 DEF BatchChunks
<1>3. c.scope = feed[n].scope /\ c.ns = NamespaceOf(feed[n])
  BY <1>2 DEF ChunksOf, ChunkOf
<1>4. QED
  BY <1>1, <1>3, FeedEntry, BatchTypes DEF TypeOK, NamespaceOf

(* A batch writes or evicts a document only if it mentions its record.     *)
LEMMA OutputMentioned ==
    ASSUME NEW b \in Batches, NEW n
    PROVE  /\ \A doc \in BatchDeletes(b) :
                doc.doc_type = b.table /\ doc.key \in MentionedKeys(b.rows)
           /\ \A c \in BatchChunks(b, n) :
                /\ c.doc.doc_type = b.table
                /\ c.doc.key \in MentionedKeys(b.rows)
                /\ c.ns = NamespaceOf(b)
<1>1. b.rows \in Seq(Row)
  BY BatchTypes
<1>2. ASSUME NEW doc \in BatchDeletes(b)
      PROVE  doc.doc_type = b.table /\ doc.key \in MentionedKeys(b.rows)
  BY <1>1, <1>2, MergeTypes DEF BatchDeletes, DocId
<1>3. ASSUME NEW c \in BatchChunks(b, n)
      PROVE  /\ c.doc.doc_type = b.table
             /\ c.doc.key \in MentionedKeys(b.rows)
             /\ c.ns = NamespaceOf(b)
  <2>1. PICK row \in UpsertRows(b.rows) : c \in ChunksOf(b, n, row)
    BY <1>3 DEF BatchChunks
  <2>2. row.key \in MentionedKeys(b.rows)
    BY <1>1, <2>1, MergeTypes DEF UpsertKeys
  <2>3. QED
    BY <2>1, <2>2 DEF ChunksOf, ChunkOf, DocId
<1>4. QED
  BY <1>2, <1>3

(* A chunk or eviction of a batch in a namespace is a mention of the       *)
(* record.                                                                 *)
LEMMA OutputIsMention ==
    ASSUME TypeOK, NEW n \in DOMAIN feed, Ingested(feed[n])
    PROVE  /\ \A doc \in BatchDeletes(feed[n]) : Mentions(n, NamespaceOf(feed[n]), doc)
           /\ \A c \in BatchChunks(feed[n], n) :
                c.ns = NamespaceOf(feed[n]) /\ Mentions(n, c.ns, c.doc)
BY FeedEntry, OutputMentioned DEF TypeOK, Mentions

(* What a deletion or a write for batch n takes away, batch n mentions.    *)
LEMMA TakenIsMentioned ==
    ASSUME TypeOK, NEW n \in DOMAIN feed, Ingested(feed[n]), NEW c \in index \ index',
           \/ \E doc \in BatchDeletes(feed[n]) : Evicts(feed[n], doc)
           \/ \E d \in BatchChunks(feed[n], n) : index' = Promise!WithChunk(index, d)
    PROVE  Mentions(n, c.ns, c.doc)
<1>1. ASSUME NEW doc \in BatchDeletes(feed[n]), Evicts(feed[n], doc)
      PROVE  Mentions(n, c.ns, c.doc)
  BY <1>1, Removes, OutputIsMention
<1>2. ASSUME NEW d \in BatchChunks(feed[n], n), index' = Promise!WithChunk(index, d)
      PROVE  Mentions(n, c.ns, c.doc)
  <2>1. c.ns = d.ns /\ c.doc = d.doc
    BY <1>2 DEF Promise!WithChunk, Slot
  <2>2. QED
    BY <2>1, OutputIsMention
<1>3. QED
  BY <1>1, <1>2

(* No invocation, and no request that outlives one, removes or replaces a  *)
(* chunk outside its batch's namespace or of a record its batch does not   *)
(* mention.                                                                *)
THEOREM NamespacesIsolated == Spec => NamespaceIsolation
<1> DEFINE Taken(c) ==
        \/ \E w \in Workers :
            pc[w] \in {"deleting", "writing"} /\ Mentions(job[w].batch, c.ns, c.doc)
        \/ \E d \in strayWrites \ strayWrites' : Mentions(d.src, c.ns, c.doc)
        \/ \E d \in strayDeletes \ strayDeletes' : Mentions(d.batch, c.ns, c.doc)
<1>1. TypeOK /\ WorkersHold /\ StraysHold /\ [Next]_vars => \A c \in index \ index' : Taken(c)
  <2> SUFFICES ASSUME TypeOK, WorkersHold, StraysHold, [Next]_vars, NEW c \in index \ index'
               PROVE  Taken(c)
    OBVIOUS
  <2>1. ASSUME NEW w \in Workers, NEW doc \in toDelete[w], DeleteDocument(w, doc)
        PROVE  Taken(c)
    <3>1. /\ pc[w] = "deleting" /\ job[w].batch \in DOMAIN feed /\ Ingested(feed[job[w].batch])
          /\ doc \in BatchDeletes(feed[job[w].batch]) /\ Evicts(feed[job[w].batch], doc)
      BY <2>1 DEF TypeOK, WorkersHold, DeleteDocument, MyBatch
    <3>2. QED
      BY <3>1, TakenIsMentioned
  <2>2. ASSUME NEW w \in Workers, NEW d \in toWrite[w], WriteChunk(w, d)
        PROVE  Taken(c)
    <3>1. /\ pc[w] = "writing" /\ job[w].batch \in DOMAIN feed /\ Ingested(feed[job[w].batch])
          /\ d \in BatchChunks(feed[job[w].batch], job[w].batch)
          /\ index' = Promise!WithChunk(index, d)
      BY <2>2 DEF TypeOK, WorkersHold, WriteChunk, MyBatch
    <3>2. QED
      BY <3>1, TakenIsMentioned
  <2>3. ASSUME NEW d \in strayWrites, StrayWrite(d) PROVE Taken(c)
    <3>1. /\ d.src \in DOMAIN feed /\ Ingested(feed[d.src])
          /\ d \in BatchChunks(feed[d.src], d.src)
          /\ index' = Promise!WithChunk(index, d) /\ d \in strayWrites \ strayWrites'
      BY <2>3 DEF TypeOK, StraysHold, StrayWrite
    <3>2. QED
      BY <3>1, TakenIsMentioned
  <2>4. ASSUME NEW d \in strayDeletes, StrayDelete(d) PROVE Taken(c)
    <3>1. /\ d.batch \in DOMAIN feed /\ Ingested(feed[d.batch])
          /\ d.doc \in BatchDeletes(feed[d.batch])
          /\ Evicts(feed[d.batch], d.doc) /\ d \in strayDeletes \ strayDeletes'
      BY <2>4 DEF TypeOK, StraysHold, StrayDelete
    <3>2. QED
      BY <3>1, TakenIsMentioned
  <2>5. QED
    BY <2>1, <2>2, <2>3, <2>4, IndexSteps
<1>2. TypeOK /\ WorkersHold /\ StraysHold /\ [Next]_vars =>
        [\A c \in index \ index' : Taken(c)]_vars
  BY <1>1
<1>3. QED
  BY <1>2, WorkersHoldOwnBatch, PTL DEF Spec, NamespaceIsolation

-----------------------------------------------------------------------------
(* No accepted event is forgotten.                                         *)

(* An accepted event is waiting, being ingested, completed or given up in  *)
(* every state: failing between any two steps of ingest_batch requeues it. *)
THEOREM EventsKept == Spec => []NothingForgotten
<1> DEFINE Kept(n) == \/ n \in done \cup dropped
                      \/ \E d \in queue : d.batch = n
                      \/ \E w \in Workers : job[w].batch = n
<1>1. Init => NothingForgotten
  BY DEF Init, NothingForgotten
<1>2. TypeOK /\ NothingForgotten /\ [Next]_vars => NothingForgotten'
  <2> SUFFICES ASSUME TypeOK, NothingForgotten, [Next]_vars,
                      NEW n \in DOMAIN feed', feed'[n].type \in Routed, n \notin rejected'
               PROVE  Kept(n)'
    BY DEF NothingForgotten
  <2>1. ASSUME NEW b \in Batches, CommitUnrouted(b) \/ CommitAnnounced(b) \/ CommitRejected(b)
        PROVE  Kept(n)'
    <3>1. CASE n \in DOMAIN feed
      <4>1. Kept(n)
        BY <2>1, <3>1, FeedGrows
           DEF TypeOK, NothingForgotten, CommitUnrouted, CommitAnnounced, CommitRejected, busVars
      <4>2. QED
        BY <2>1, <4>1
           DEF CommitUnrouted, CommitAnnounced, CommitRejected, busVars, workerVars
    <3>2. CASE n = Len(feed) + 1
      <4>1. CASE CommitAnnounced(b)
        <5>1. FirstDelivery(n) \in queue'
          BY <3>2, <4>1 DEF CommitAnnounced
        <5>2. FirstDelivery(n).batch = n
          BY DEF FirstDelivery
        <5>3. QED
          BY <5>1, <5>2
      <4>2. CASE CommitUnrouted(b)
        BY <3>2, <4>2, FeedGrows DEF TypeOK, CommitUnrouted
      <4>3. CASE CommitRejected(b)
        BY <3>2, <4>3 DEF CommitRejected
      <4>4. QED
        BY <2>1, <4>1, <4>2, <4>3
    <3>3. QED
      BY <2>1, <3>1, <3>2, FeedGrows DEF TypeOK, CommitUnrouted, CommitAnnounced, CommitRejected
  <2>2. ASSUME UNCHANGED <<feed, rejected>> PROVE Kept(n)
    BY <2>2 DEF NothingForgotten
  <2>3. ASSUME NEW m \in DOMAIN feed, Redeliver(m) PROVE Kept(n)'
    BY <2>2, <2>3 DEF Redeliver, workerVars
  <2>4. ASSUME NEW w \in Workers, NEW d \in queue, Receive(w, d) PROVE Kept(n)'
    BY <2>2, <2>4, FeedEntry DEF Receive, TypeOK, NoJob
  <2>5. ASSUME NEW w \in Workers, Skip(w) \/ Finish(w) PROVE Kept(n)'
    BY <2>2, <2>5 DEF Skip, Finish, Release, TypeOK
  <2>6. ASSUME NEW w \in Workers, Fail(w) \/ TimeOut(w) PROVE Kept(n)'
    <3>1. UNCHANGED <<feed, rejected, done>> /\ GiveBack(w) /\ Kept(n)
      BY <2>2, <2>6 DEF Fail, TimeOut
    <3>2. CASE job[w].batch = n /\ job[w].attempt < MaxAttempts
      <4>1. [job[w] EXCEPT !.attempt = @ + 1].batch = n
        BY <3>2 DEF TypeOK, Delivery, NoJob
      <4>2. QED
        BY <3>1, <3>2, <4>1 DEF GiveBack
    <3>3. CASE job[w].batch = n /\ ~ (job[w].attempt < MaxAttempts)
      BY <3>1, <3>3 DEF GiveBack
    <3>4. CASE job[w].batch # n
      BY <3>1, <3>4 DEF GiveBack, Release, TypeOK
    <3>5. QED
      BY <3>2, <3>3, <3>4
  <2>7. ASSUME NEW w \in Workers,
               \/ ReadAndMerge(w) \/ Embed(w)
               \/ \E doc \in toDelete[w] : DeleteDocument(w, doc)
               \/ \E c \in toWrite[w] : WriteChunk(w, c)
        PROVE  Kept(n)'
    BY <2>2, <2>7 DEF ReadAndMerge, Embed, DeleteDocument, WriteChunk, busVars
  <2>8. CASE UNCHANGED <<feed, busVars, workerVars>>
    BY <2>2, <2>8 DEF busVars, workerVars
  <2>9. QED
    BY <2>1, <2>3, <2>4, <2>5, <2>6, <2>7, <2>8
       DEF Next, Deliver, Work, vars, StrayWrite, StrayDelete
<1>3. QED
  BY <1>1, <1>2, TypeCorrect, PTL DEF Spec

-----------------------------------------------------------------------------
(* The CLI's loop without repeated deliveries.                             *)

InOrder == Sequential /\ MaxRedeliveries = 0

Busy(w) == pc[w] # "idle"

(* One invocation at a time, oldest batch first, each batch until it is    *)
(* completed or the loop stops; what was started or completed is never     *)
(* newer than what is waiting or being ingested.                           *)
LoopOrder ==
    /\ \A d, e \in queue : d.batch = e.batch => d = e
    /\ \A v, w \in Workers : Busy(v) /\ Busy(w) => v = w
    /\ \A w \in Workers : Busy(w) =>
        /\ dropped = {}
        /\ \A e \in queue : job[w].batch < e.batch
        /\ \A n \in done : n < job[w].batch
        /\ \A n \in started : n <= job[w].batch
    /\ \A d \in queue : (\A n \in done : n < d.batch) /\ (\A n \in started : n <= d.batch)

(* A batch is started once it is read; until it is completed or given up   *)
(* it is waiting or being ingested, and only it and those before it have   *)
(* chunks in the index.                                                    *)
StartedKnown ==
    /\ \A n \in started :
        /\ Ingested(feed[n])
        /\ \/ n \in done \cup dropped
           \/ \E d \in queue : d.batch = n
           \/ \E w \in Workers : Busy(w) /\ job[w].batch = n
    /\ \A c \in index : c.src \in started

(* What the busy worker has done of its batch shows in the index: nothing  *)
(* is written before every eviction; what it evicted is gone and what it   *)
(* wrote is there, alone in its slot, but for what requests without a      *)
(* caller put back or took away.                                           *)
HalfDone ==
    \A w \in Workers :
        /\ pc[w] = "deleting" => toWrite[w] = BatchChunks(MyBatch(w), job[w].batch)
        /\ pc[w] \in {"deleting", "writing"} =>
            /\ \A c \in BatchChunks(MyBatch(w), job[w].batch) \ toWrite[w] :
                  /\ c \in index \/ Overtaken(job[w].batch, c.ns, c.doc)
                  /\ \A d \in index : Slot(d) = Slot(c) => d = c \/ d.src \in abandoned
            /\ \A doc \in BatchDeletes(MyBatch(w)) \ toDelete[w] : \A c \in index :
                  c.ns = NamespaceOf(MyBatch(w)) /\ c.doc = doc => c.src \in abandoned

(* No chunk outlives a later completed batch that evicts its document or   *)
(* writes to its slot, unless a request of its batch went on alone.        *)
NothingStale ==
    \A c \in index, n \in done :
        /\ Ingested(feed[n]) /\ c.src < n /\ NamespaceOf(feed[n]) = c.ns
        /\ c.src \notin abandoned
        => /\ c.doc \notin BatchDeletes(feed[n])
           /\ \A d \in BatchChunks(feed[n], n) : Slot(d) # Slot(c)

LEMMA InitLoop == Init => LoopOrder /\ StartedKnown /\ HalfDone
BY DEF Init, LoopOrder, StartedKnown, HalfDone, Busy

(* Numbers of batches are comparable.                                      *)
LEMMA BatchNumbers ==
    ASSUME TypeOK
    PROVE  /\ Len(feed) \in Nat /\ DOMAIN feed = 1 .. Len(feed)
           /\ \A n \in done \cup started : n \in 1 .. Len(feed)
           /\ \A d \in queue : d.batch \in 1 .. Len(feed)
           /\ \A w \in Workers : Busy(w) => job[w].batch \in 1 .. Len(feed)
<1>1. Len(feed) \in Nat /\ DOMAIN feed = 1 .. Len(feed)
  BY DEF TypeOK
<1>2. QED
  BY <1>1 DEF TypeOK, Busy

LEMMA NextLoop ==
    InOrder /\ TypeOK /\ LoopOrder /\ StartedKnown /\ [Next]_vars => LoopOrder'
<1> SUFFICES ASSUME InOrder, TypeOK, LoopOrder, StartedKnown, [Next]_vars PROVE LoopOrder'
  OBVIOUS
<1>1. ASSUME NEW b \in Batches, CommitUnrouted(b) \/ CommitRejected(b) PROVE LoopOrder'
  BY <1>1 DEF InOrder, CommitUnrouted, CommitRejected, busVars, workerVars, LoopOrder, Busy
<1>2. ASSUME NEW b \in Batches, CommitAnnounced(b) PROVE LoopOrder'
  <2> DEFINE f == FirstDelivery(Len(feed) + 1)
  <2>1. f.batch = Len(feed) + 1 /\ Len(feed) \in Nat
    BY BatchNumbers DEF FirstDelivery
  <2>2. queue' = queue \cup {f} /\ UNCHANGED <<done, dropped, started, pc, job>>
    BY <1>2 DEF CommitAnnounced, workerVars
  <2>3. /\ \A d \in queue : d.batch < f.batch
        /\ \A n \in done \cup started : n < f.batch
        /\ \A w \in Workers : Busy(w) => job[w].batch < f.batch
    BY <2>1, BatchNumbers
  <2>4. \A d, e \in queue' : d.batch = e.batch => d = e
    <3> HIDE DEF f
    <3>1. SUFFICES ASSUME NEW d \in queue', NEW e \in queue', d.batch = e.batch
                   PROVE  d = e
      OBVIOUS
    <3>2. CASE d \in queue /\ e \in queue
      BY <3>1, <3>2 DEF LoopOrder
    <3>3. CASE d = f /\ e = f
      BY <3>3
    <3>4. CASE \/ d \in queue /\ e = f
               \/ e \in queue /\ d = f
      BY <2>1, <2>3, <3>1, <3>4, BatchNumbers
    <3>5. QED
      BY <2>2, <3>2, <3>3, <3>4
  <2> HIDE DEF f
  <2>5. QED
    BY <2>1, <2>2, <2>3, <2>4, BatchNumbers DEF LoopOrder, Busy
<1>3. ASSUME NEW n \in DOMAIN feed, Redeliver(n) PROVE FALSE
  BY <1>3 DEF Redeliver, InOrder, TypeOK
<1>4. ASSUME NEW w \in Workers, NEW d \in queue, Receive(w, d) PROVE LoopOrder'
  <2>1. /\ dropped = {} /\ \A v \in Workers : ~ Busy(v)
        /\ \A e \in queue : d.batch <= e.batch
    BY <1>4 DEF Receive, MyTurn, InOrder, Busy
  <2>2. /\ queue' = queue \ {d} /\ UNCHANGED <<done, dropped, started>>
        /\ pc' = [pc EXCEPT ![w] = "received"] /\ job' = [job EXCEPT ![w] = d]
    BY <1>4 DEF Receive
  <2>3. \A v \in Workers : Busy(v)' => v = w
    BY <2>1, <2>2 DEF Busy, TypeOK
  <2>4. job'[w] = d
    BY <2>2 DEF TypeOK
  <2>5. \A e \in queue' : d.batch < e.batch
    BY <2>1, <2>2, BatchNumbers DEF LoopOrder
  <2>6. QED
    BY <2>1, <2>2, <2>3, <2>4, <2>5 DEF LoopOrder
<1>5. ASSUME NEW w \in Workers, Skip(w) \/ Finish(w) PROVE LoopOrder'
  <2>1. /\ Busy(w) /\ done' = done \cup {job[w].batch}
        /\ pc' = [pc EXCEPT ![w] = "idle"] /\ UNCHANGED <<queue, dropped, started>>
    BY <1>5 DEF Skip, Finish, Release, Busy
  <2>2. \A v \in Workers : ~ Busy(v)'
    BY <2>1 DEF Busy, LoopOrder, TypeOK
  <2>3. QED
    BY <2>1, <2>2 DEF LoopOrder
<1>6. ASSUME NEW w \in Workers, ReadAndMerge(w) PROVE LoopOrder'
  <2>1. /\ Busy(w) /\ started' = started \cup {job[w].batch}
        /\ UNCHANGED <<queue, dropped, done, job>>
        /\ \A v \in Workers : Busy(v)' <=> Busy(v)
    BY <1>6 DEF ReadAndMerge, Busy, TypeOK
  <2>2. \A v \in Workers : Busy(v) => v = w
    BY <2>1 DEF LoopOrder
  <2>3. QED
    BY <2>1, <2>2, BatchNumbers DEF LoopOrder
<1>7. ASSUME NEW w \in Workers,
             \/ Embed(w)
             \/ \E c \in toWrite[w] : WriteChunk(w, c)
             \/ \E doc \in toDelete[w] : DeleteDocument(w, doc)
      PROVE  LoopOrder'
  <2>1. UNCHANGED <<queue, dropped, done, started, job>>
    BY <1>7 DEF Embed, WriteChunk, DeleteDocument, busVars
  <2>2. \A v \in Workers : Busy(v)' => Busy(v)
    BY <1>7 DEF Embed, WriteChunk, DeleteDocument, Busy, TypeOK
  <2>3. QED
    BY <2>1, <2>2 DEF LoopOrder
<1>8. ASSUME NEW w \in Workers, Fail(w) \/ TimeOut(w) PROVE LoopOrder'
  <2>1. /\ Busy(w) /\ pc' = [pc EXCEPT ![w] = "idle"] /\ UNCHANGED <<done, started>>
        /\ GiveBack(w)
    BY <1>8 DEF Fail, TimeOut, GiveBack, Release, Busy
  <2>2. \A v \in Workers : ~ Busy(v)'
    BY <2>1 DEF Busy, LoopOrder, TypeOK
  <2>3. \/ queue' = queue
        \/ \E d : d.batch = job[w].batch /\ queue' = queue \cup {d}
    <3>1. CASE job[w].attempt < MaxAttempts
      <4>1. [job[w] EXCEPT !.attempt = @ + 1].batch = job[w].batch
        BY DEF TypeOK, Delivery, NoJob
      <4>2. QED
        BY <2>1, <3>1, <4>1 DEF GiveBack
    <3>2. CASE ~ (job[w].attempt < MaxAttempts)
      BY <2>1, <3>2 DEF GiveBack
    <3>3. QED
      BY <3>1, <3>2
  <2>4. CASE queue' = queue
    BY <2>1, <2>2, <2>4 DEF LoopOrder
  <2>5. ASSUME NEW d, d.batch = job[w].batch, queue' = queue \cup {d}
        PROVE  LoopOrder'
    <3>1. \A e \in queue : d.batch < e.batch /\ ~ (e.batch < e.batch)
      BY <2>1, <2>5, BatchNumbers DEF LoopOrder
    <3>2. \A e, g \in queue' : e.batch = g.batch => e = g
      BY <2>5, <3>1 DEF LoopOrder
    <3>3. (\A n \in done : n < d.batch) /\ (\A n \in started : n <= d.batch)
      BY <2>1, <2>5 DEF LoopOrder
    <3>4. QED
      BY <2>1, <2>2, <2>5, <3>2, <3>3 DEF LoopOrder
  <2>6. QED
    BY <2>3, <2>4, <2>5
<1>9. CASE UNCHANGED <<busVars, workerVars>>
  BY <1>9 DEF busVars, workerVars, LoopOrder, Busy
<1>10. QED
  <2>1. CASE \E b \in Batches : CommitUnrouted(b) \/ CommitAnnounced(b) \/ CommitRejected(b)
    BY <2>1, <1>1, <1>2
  <2>2. CASE \E n \in DOMAIN feed : Redeliver(n)
    BY <2>2, <1>3
  <2>3. CASE Deliver
    BY <2>3, <1>4 DEF Deliver
  <2>4. CASE \E w \in Workers : Work(w) \/ Fail(w) \/ TimeOut(w)
    BY <2>4, <1>5, <1>6, <1>7, <1>8 DEF Work
  <2>5. QED
    BY <1>9, <2>1, <2>2, <2>3, <2>4 DEF Next, vars, StrayWrite, StrayDelete

LEMMA NextStarted ==
    /\ InOrder /\ TypeOK /\ WorkersHold /\ StraysHold /\ StartedKnown /\ [Next]_vars
    => StartedKnown'
<1> SUFFICES ASSUME InOrder, TypeOK, WorkersHold, StraysHold, StartedKnown, [Next]_vars
             PROVE  StartedKnown'
  OBVIOUS
<1> DEFINE Open(n) == \/ n \in done \cup dropped
                      \/ \E d \in queue : d.batch = n
                      \/ \E w \in Workers : Busy(w) /\ job[w].batch = n
<1>1. \A n \in started : Ingested(feed'[n]) /\ Open(n)
  <2>1. \A n \in started : n \in DOMAIN feed
    BY DEF TypeOK
  <2>2. QED
    BY <2>1, PromiseMonotone DEF StartedKnown
<1>2. ASSUME \A n \in started' \ started :
               Ingested(feed'[n]) /\ \E w \in Workers : Busy(w) /\ job[w].batch = n,
             \A n : Open(n) => Open(n)',
             \A c \in index' : c.src \in started'
      PROVE  StartedKnown'
  BY <1>1, <1>2 DEF StartedKnown
<1>3. ASSUME NEW b \in Batches, CommitUnrouted(b) \/ CommitRejected(b) \/ CommitAnnounced(b)
      PROVE  StartedKnown'
  <2>1. /\ UNCHANGED <<index, done, dropped, started, pc, job>> /\ queue \subseteq queue'
    BY <1>3 DEF CommitUnrouted, CommitRejected, CommitAnnounced, busVars, workerVars
  <2>2. QED
    BY <1>2, <2>1 DEF StartedKnown, Busy
<1>4. ASSUME NEW n \in DOMAIN feed, Redeliver(n) PROVE FALSE
  BY <1>4 DEF Redeliver, InOrder, TypeOK
<1>5. ASSUME NEW w \in Workers, NEW d \in queue, Receive(w, d) PROVE StartedKnown'
  <2>1. /\ UNCHANGED <<index, done, dropped, started>> /\ queue' = queue \ {d}
        /\ pc[w] = "idle" /\ pc'[w] = "received" /\ job'[w] = d
        /\ \A v \in Workers \ {w} : pc'[v] = pc[v] /\ job'[v] = job[v]
    BY <1>5 DEF Receive, TypeOK
  <2>2. \A n : Open(n) => Open(n)'
    BY <2>1 DEF Busy
  <2>3. QED
    BY <1>2, <2>1, <2>2 DEF StartedKnown
<1>6. ASSUME NEW w \in Workers, Skip(w) \/ Finish(w) PROVE StartedKnown'
  <2>1. /\ UNCHANGED <<index, queue, dropped, started>>
        /\ done' = done \cup {job[w].batch} /\ pc'[w] = "idle"
        /\ \A v \in Workers \ {w} : pc'[v] = pc[v] /\ job'[v] = job[v]
    BY <1>6 DEF Skip, Finish, Release, TypeOK
  <2>2. \A n : Open(n) => Open(n)'
    BY <2>1 DEF Busy
  <2>3. QED
    BY <1>2, <2>1, <2>2 DEF StartedKnown
<1>7. ASSUME NEW w \in Workers, ReadAndMerge(w) PROVE StartedKnown'
  <2>1. /\ UNCHANGED <<feed, index, queue, done, dropped, job>>
        /\ started' = started \cup {job[w].batch}
        /\ pc[w] = "received" /\ pc'[w] = "deleting"
        /\ \A v \in Workers \ {w} : pc'[v] = pc[v]
        /\ Ingested(feed[job[w].batch])
    BY <1>7 DEF ReadAndMerge, TypeOK, MyBatch
  <2>2. \A n : Open(n) => Open(n)'
    BY <2>1 DEF Busy
  <2>3. QED
    BY <1>2, <2>1, <2>2 DEF StartedKnown, Busy
<1>8. ASSUME NEW w \in Workers, Embed(w) \/ \E doc \in toDelete[w] : DeleteDocument(w, doc)
      PROVE  StartedKnown'
  <2>1. /\ UNCHANGED <<queue, dropped, done, started, job>> /\ index' \subseteq index
        /\ \A v \in Workers : Busy(v) => Busy(v)'
    BY <1>8, DeletionEvicts DEF Embed, DeleteDocument, busVars, TypeOK, Busy
  <2>2. QED
    BY <1>2, <2>1 DEF StartedKnown
<1>9. ASSUME NEW w \in Workers, NEW c \in toWrite[w], WriteChunk(w, c) PROVE StartedKnown'
  <2>1. /\ UNCHANGED <<queue, dropped, done, started, job, pc>> /\ pc[w] = "writing"
        /\ index' \subseteq index \cup {c}
    BY <1>9 DEF WriteChunk, busVars, Promise!WithChunk
  <2>2. c.src \in started
    <3>1. c \in BatchChunks(MyBatch(w), job[w].batch) /\ job[w].batch \in started
      BY <2>1 DEF WorkersHold, StartedKnown
    <3>2. c.src = job[w].batch
      BY <3>1 DEF BatchChunks, ChunksOf, ChunkOf
    <3>3. QED
      BY <3>1, <3>2
  <2>3. QED
    BY <1>2, <2>1, <2>2 DEF StartedKnown, Busy
<1>10. ASSUME NEW w \in Workers, Fail(w) \/ TimeOut(w) PROVE StartedKnown'
  <2>1. /\ UNCHANGED <<index, done, started>> /\ pc'[w] = "idle"
        /\ queue \subseteq queue' /\ dropped \subseteq dropped'
        /\ \A v \in Workers \ {w} : pc'[v] = pc[v] /\ job'[v] = job[v]
        /\ GiveBack(w)
    BY <1>10 DEF Fail, TimeOut, GiveBack, Release, TypeOK
  <2>2. \A n : n = job[w].batch => Open(n)'
    <3>1. CASE job[w].attempt < MaxAttempts
      <4>1. [job[w] EXCEPT !.attempt = @ + 1].batch = job[w].batch
        BY DEF TypeOK, Delivery, NoJob
      <4>2. QED
        BY <2>1, <3>1, <4>1 DEF GiveBack
    <3>2. CASE ~ (job[w].attempt < MaxAttempts)
      BY <2>1, <3>2 DEF GiveBack
    <3>3. QED
      BY <3>1, <3>2
  <2>3. \A n : Open(n) => Open(n)'
    <3> SUFFICES ASSUME NEW n, Open(n), n # job[w].batch PROVE Open(n)'
      BY <2>2
    <3>1. QED
      BY <2>1 DEF Busy
  <2>4. QED
    BY <1>2, <2>1, <2>3 DEF StartedKnown
<1>11. ASSUME UNCHANGED <<busVars, workerVars>>, \A c \in index' \ index : c.src \in started
       PROVE  StartedKnown'
  BY <1>1, <1>11 DEF busVars, workerVars, StartedKnown, Busy
<1>12. ASSUME NEW c \in strayWrites, StrayWrite(c) PROVE StartedKnown'
  <2>1. c.src \in started /\ index' \subseteq index \cup {c}
    BY <1>12 DEF StraysHold, StrayWrite, Promise!WithChunk
  <2>2. QED
    BY <1>11, <1>12, <2>1 DEF StrayWrite
<1>13. ASSUME NEW d \in strayDeletes, StrayDelete(d) PROVE StartedKnown'
  BY <1>11, <1>13, StrayEvicts DEF StrayDelete
<1>14. CASE UNCHANGED vars
  BY <1>11, <1>14 DEF vars
<1>15. QED
  BY <1>3, <1>4, <1>5, <1>6, <1>7, <1>8, <1>9, <1>10, <1>12, <1>13, <1>14
     DEF Next, Deliver, Work

(* One row per key wins a merge.                                           *)
LEMMA OneWinnerPerKey ==
    ASSUME NEW rows \in Seq(Row), NEW i \in Winners(rows), NEW j \in Winners(rows),
           rows[i].key = rows[j].key
    PROVE  i = j
<1>1. i \in 1 .. Len(rows) /\ j \in 1 .. Len(rows) /\ Len(rows) \in Nat
  BY DEF Winners
<1>2. rows[i].seq \in Nat /\ rows[j].seq \in Nat
  <2>1. rows[i] \in Row /\ rows[j] \in Row
    BY <1>1
  <2>2. QED
    BY <2>1 DEF Row
<1>3. ~ Beats(rows, i, j) /\ ~ Beats(rows, j, i)
  BY <1>1 DEF Winners, IsLatest, IsLatestOf
<1>4. QED
  BY <1>1, <1>2, <1>3 DEF Beats

(* A batch writes one chunk to a slot and evicts no document it writes.    *)
LEMMA BatchConsistent ==
    ASSUME NEW b \in Batches, NEW n
    PROVE  /\ \A c \in BatchChunks(b, n) : c.doc \notin BatchDeletes(b) /\ c.src = n
           /\ \A c, d \in BatchChunks(b, n) : Slot(c) = Slot(d) => c = d
<1> DEFINE rows == b.rows
<1>1. rows \in Seq(Row)
  BY BatchTypes
<1>2. ASSUME NEW c \in BatchChunks(b, n)
      PROVE  \E i \in Winners(rows) :
               /\ Op(rows[i]) # "D"
               /\ \E x : c = ChunkOf(b, n, rows[i], x)
  BY <1>2 DEF BatchChunks, ChunksOf, UpsertRows
<1>3. ASSUME NEW c \in BatchChunks(b, n), c.doc \in BatchDeletes(b) PROVE FALSE
  <2>1. PICK i \in Winners(rows) : Op(rows[i]) # "D" /\ \E x : c = ChunkOf(b, n, rows[i], x)
    BY <1>2, <1>3
  <2>2. PICK j \in Winners(rows) : Op(rows[j]) = "D" /\ c.doc = DocId(b.table, rows[j].key)
    BY <1>3 DEF BatchDeletes, DeletedKeys
  <2>3. c.doc = DocId(b.table, rows[i].key)
    BY <2>1 DEF ChunkOf
  <2>4. rows[i].key = rows[j].key
    BY <2>2, <2>3 DEF DocId
  <2>5. QED
    BY <1>1, <2>1, <2>2, <2>4, OneWinnerPerKey
<1>4. ASSUME NEW c \in BatchChunks(b, n) PROVE c.src = n
  BY <1>2, <1>4 DEF ChunkOf
<1>5. ASSUME NEW c \in BatchChunks(b, n), NEW d \in BatchChunks(b, n), Slot(c) = Slot(d)
      PROVE  c = d
  <2>1. PICK i \in Winners(rows) : \E x : c = ChunkOf(b, n, rows[i], x)
    BY <1>2
  <2>2. PICK x : c = ChunkOf(b, n, rows[i], x)
    BY <2>1
  <2>3. PICK j \in Winners(rows) : \E y : d = ChunkOf(b, n, rows[j], y)
    BY <1>2
  <2>4. PICK y : d = ChunkOf(b, n, rows[j], y)
    BY <2>3
  <2>5. c.doc = d.doc /\ c.idx = d.idx
    BY <1>5 DEF Slot
  <2>6. x = y /\ DocId(b.table, rows[i].key) = DocId(b.table, rows[j].key)
    BY <2>2, <2>4, <2>5 DEF ChunkOf
  <2>7. rows[i].key = rows[j].key
    BY <2>6 DEF DocId
  <2>8. i = j
    BY <1>1, <2>7, OneWinnerPerKey
  <2>9. QED
    BY <2>2, <2>4, <2>6, <2>8
<1>6. QED
  BY <1>3, <1>4, <1>5

(* The batch of a busy worker is committed, and known.                     *)
LEMMA BusyBatch ==
    ASSUME TypeOK, [Next]_vars, NEW w \in Workers, Busy(w)
    PROVE  /\ job[w].batch \in DOMAIN feed
           /\ MyBatch(w) \in Batches /\ MyBatch(w) = feed[job[w].batch]
           /\ job'[w] = job[w] => MyBatch(w)' = MyBatch(w)
<1>1. job[w].batch \in DOMAIN feed
  BY DEF TypeOK, Busy
<1>2. QED
  BY <1>1, FeedEntry, PromiseMonotone DEF TypeOK, MyBatch

(* What was said stays said, and what was not, of a batch already there.   *)
LEMMA MentionsStay ==
    ASSUME TypeOK, [Next]_vars, NEW n \in DOMAIN feed
    PROVE  \A ns, doc : Mentions(n, ns, doc) <=> Mentions(n, ns, doc)'
BY PromiseMonotone DEF Mentions

(* An overtaken document stays so.                                         *)
LEMMA OvertakenStays ==
    ASSUME TypeOK, [Next]_vars, NEW n, NEW ns, NEW doc, Overtaken(n, ns, doc)
    PROVE  Overtaken(n, ns, doc)'
<1>1. PICK m \in abandoned : m < n /\ Mentions(m, ns, doc)
  BY DEF Overtaken
<1>2. m \in abandoned' /\ Mentions(m, ns, doc)'
  BY <1>1, HistoryGrows, MentionsStay DEF TypeOK
<1>3. QED
  BY <1>1, <1>2 DEF Overtaken

(* When a request without a caller takes batch n's chunk away and n was    *)
(* the newest batch begun that mentions its document, n was overtaken.     *)
LEMMA StrayOvertakes ==
    ASSUME TypeOK, StraysHold, NEW n \in DOMAIN feed, NEW c \in BatchChunks(feed[n], n),
           \A m \in started : Mentions(m, c.ns, c.doc) => m <= n,
           c \in index, c \notin index',
           (\E d \in strayWrites : StrayWrite(d)) \/ (\E d \in strayDeletes : StrayDelete(d))
    PROVE  Overtaken(n, c.ns, c.doc)
<1>1. feed[n] \in Batches /\ n \in Nat
  BY FeedEntry DEF TypeOK
<1>2. ASSUME NEW m \in abandoned, Mentions(m, c.ns, c.doc), m # n
      PROVE  Overtaken(n, c.ns, c.doc)
  <2>1. m \in Nat /\ m <= n
    BY <1>2, FeedEntry DEF TypeOK, StraysHold
  <2>2. m < n
    BY <1>1, <1>2, <2>1
  <2>3. QED
    BY <1>2, <2>2 DEF Overtaken
<1>3. ASSUME NEW d \in strayWrites, StrayWrite(d) PROVE Overtaken(n, c.ns, c.doc)
  <2>1. index' = Promise!WithChunk(index, d) /\ Slot(c) = Slot(d) /\ c # d
    BY <1>3 DEF StrayWrite, Promise!WithChunk
  <2>2. /\ d.src \in abandoned /\ d.src \in DOMAIN feed /\ Ingested(feed[d.src])
        /\ d \in BatchChunks(feed[d.src], d.src)
    BY DEF StraysHold, TypeOK
  <2>3. Mentions(d.src, c.ns, c.doc)
    <3>1. Mentions(d.src, d.ns, d.doc)
      BY <2>2, OutputIsMention
    <3>2. QED
      BY <2>1, <3>1 DEF Slot
  <2>4. d.src # n
    BY <1>1, <2>1, <2>2, BatchConsistent
  <2>5. QED
    BY <1>2, <2>2, <2>3, <2>4
<1>4. ASSUME NEW d \in strayDeletes, StrayDelete(d) PROVE Overtaken(n, c.ns, c.doc)
  <2>1. c.ns = NamespaceOf(feed[d.batch]) /\ c.doc = d.doc
    BY <1>4, StrayEvicts
  <2>2. /\ d.batch \in abandoned /\ d.batch \in DOMAIN feed /\ Ingested(feed[d.batch])
        /\ d.doc \in BatchDeletes(feed[d.batch])
    BY DEF StraysHold, TypeOK
  <2>3. Mentions(d.batch, c.ns, c.doc)
    BY <2>1, <2>2, OutputIsMention
  <2>4. d.batch # n
    BY <1>1, <2>1, <2>2, BatchConsistent
  <2>5. QED
    BY <1>2, <2>2, <2>3, <2>4
<1>5. QED
  BY <1>3, <1>4

(* In the loop, an eviction leaves no chunk of its document but what       *)
(* requests without a caller wrote.                                        *)
LEMMA EvictionComplete ==
    ASSUME InOrder, TypeOK, WorkersHold, LoopOrder, StartedKnown, IndexJustified, [Next]_vars,
           NEW w \in Workers, NEW doc \in toDelete[w], DeleteDocument(w, doc),
           NEW c \in index', c.doc = doc, c.ns = NamespaceOf(MyBatch(w))
    PROVE  c.src \in abandoned
<1> SUFFICES ASSUME c.src \notin abandoned PROVE FALSE
  OBVIOUS
<1>1. pc[w] = "deleting" /\ Busy(w)
  BY DEF DeleteDocument, Busy
<1>2. c \in Unsettled /\ c \in index
  BY DEF DeleteDocument, Evicts, Promise!WithoutDoc, Unsettled
<1>3. \A v \in Workers : pc[v] # "writing"
  BY <1>1 DEF LoopOrder, Busy
<1>4. c.src \notin done
  BY <1>2, <1>3 DEF Unsettled
<1>5. c.src \in started
  BY <1>2 DEF StartedKnown
<1>6. c.src = job[w].batch
  <2>1. dropped = {} /\ c.src <= job[w].batch /\ \A e \in queue : job[w].batch < e.batch
    BY <1>1, <1>5 DEF LoopOrder
  <2>2. \A v \in Workers : Busy(v) => v = w
    BY <1>1 DEF LoopOrder
  <2>3. CASE \E d \in queue : d.batch = c.src
    BY <1>1, <1>5, <2>1, <2>3, BatchNumbers
  <2>4. QED
    BY <1>4, <1>5, <2>1, <2>2, <2>3 DEF StartedKnown
<1>7. PICK n \in DOMAIN feed : c \in BatchChunks(feed[n], n)
  BY <1>2 DEF IndexJustified, Promise!Justified
<1>8. n = c.src /\ c.doc \notin BatchDeletes(feed[n])
  BY <1>7, BatchConsistent, FeedEntry DEF TypeOK
<1>9. doc \in BatchDeletes(MyBatch(w))
  BY <1>1 DEF WorkersHold
<1>10. QED
  BY <1>6, <1>8, <1>9 DEF MyBatch

LEMMA NextHalf ==
    /\ InOrder /\ TypeOK /\ WorkersHold /\ StraysHold /\ LoopOrder /\ StartedKnown
    /\ IndexJustified /\ HalfDone /\ [Next]_vars
    => HalfDone'
<1> DEFINE Written(v) ==
             \A c \in BatchChunks(MyBatch(v), job[v].batch) \ toWrite[v] :
                /\ c \in index \/ Overtaken(job[v].batch, c.ns, c.doc)
                /\ \A d \in index : Slot(d) = Slot(c) => d = c \/ d.src \in abandoned
           Evicted(v) ==
             \A doc \in BatchDeletes(MyBatch(v)) \ toDelete[v] : \A c \in index :
                c.ns = NamespaceOf(MyBatch(v)) /\ c.doc = doc => c.src \in abandoned
           Whole(v) == pc[v] = "deleting" => toWrite[v] = BatchChunks(MyBatch(v), job[v].batch)
<1> SUFFICES ASSUME InOrder, TypeOK, WorkersHold, StraysHold, LoopOrder, StartedKnown,
                    IndexJustified, HalfDone, [Next]_vars,
                    NEW v \in Workers, pc'[v] \in {"deleting", "writing"}
             PROVE  Whole(v)' /\ Written(v)' /\ Evicted(v)'
  BY DEF HalfDone
<1> DEFINE Goal == Whole(v)' /\ Written(v)' /\ Evicted(v)'
           b == MyBatch(v)
           n == job[v].batch
<1>1. ASSUME pc[v] \in {"deleting", "writing"}, job'[v] = job[v], toWrite'[v] = toWrite[v]
      PROVE  /\ n \in DOMAIN feed /\ b \in Batches /\ b = feed[n] /\ MyBatch(v)' = b
             /\ Whole(v) /\ Written(v) /\ Evicted(v)
  BY <1>1, BusyBatch DEF HalfDone, Busy
<1>2. ASSUME UNCHANGED index, pc[v] \in {"deleting", "writing"}, job'[v] = job[v],
             pc'[v] = "deleting" => pc[v] = "deleting",
             toWrite'[v] = toWrite[v], toDelete'[v] = toDelete[v]
      PROVE  Goal
  BY <1>1, <1>2, HistoryGrows, OvertakenStays
<1>3. ASSUME NEW w \in Workers,
             Skip(w) \/ Finish(w) \/ Fail(w) \/ TimeOut(w) \/ \E d \in queue : Receive(w, d)
      PROVE  Goal
  <2>1. UNCHANGED index /\ v # w /\ pc'[v] = pc[v] /\ job'[v] = job[v]
        /\ toWrite'[v] = toWrite[v] /\ toDelete'[v] = toDelete[v]
    BY <1>3 DEF Skip, Finish, Fail, TimeOut, GiveBack, Receive, Release, TypeOK
  <2>2. QED
    BY <1>2, <2>1
<1>4. ASSUME NEW w \in Workers, ReadAndMerge(w) PROVE Goal
  <2>1. CASE v = w
    <3>1. /\ toWrite'[v] = BatchChunks(MyBatch(v), job[v].batch)
          /\ toDelete'[v] = BatchDeletes(MyBatch(v))
          /\ job'[v] = job[v] /\ MyBatch(v)' = MyBatch(v)
      BY <1>4, <2>1 DEF ReadAndMerge, TypeOK, MyBatch
    <3>2. QED
      BY <3>1
  <2>2. CASE v # w
    BY <1>2, <1>4, <2>2 DEF ReadAndMerge, TypeOK
  <2>3. QED
    BY <2>1, <2>2
<1>5. ASSUME NEW w \in Workers, Embed(w) PROVE Goal
  BY <1>2, <1>5 DEF Embed, TypeOK
<1>6. ASSUME NEW w \in Workers, NEW doc \in toDelete[w], DeleteDocument(w, doc) PROVE Goal
  <2>1. Busy(w) /\ pc[w] = "deleting" /\ UNCHANGED <<feed, pc, job, toWrite, abandoned>>
        /\ toDelete' = [toDelete EXCEPT ![w] = @ \ {doc}]
    BY <1>6 DEF DeleteDocument, Busy, strays
  <2>2. v = w
    BY <2>1 DEF LoopOrder, Busy
  <2>3. MyBatch(v)' = MyBatch(v) /\ toWrite[v] = BatchChunks(b, n)
    BY <2>1, <2>2 DEF HalfDone, MyBatch
  <2>4. toDelete'[v] = toDelete[v] \ {doc}
    BY <2>1, <2>2 DEF TypeOK
  <2>5. ASSUME NEW gone \in BatchDeletes(b) \ toDelete'[v], NEW c \in index',
               c.ns = NamespaceOf(b), c.doc = gone
        PROVE  c.src \in abandoned
    <3>1. CASE gone = doc
      BY <1>6, <2>2, <2>5, <3>1, EvictionComplete
    <3>2. CASE gone # doc
      <4>1. gone \notin toDelete[v] /\ c \in index
        BY <1>6, <2>4, <2>5, <3>2, DeletionEvicts
      <4>2. QED
        BY <2>1, <2>2, <2>5, <4>1 DEF HalfDone
    <3>3. QED
      BY <3>1, <3>2
  <2>6. Evicted(v)'
    BY <2>1, <2>3, <2>5
  <2>7. Whole(v)' /\ Written(v)'
    BY <2>1, <2>3
  <2>8. QED
    BY <2>6, <2>7
<1>7. ASSUME NEW w \in Workers, NEW d \in toWrite[w], WriteChunk(w, d) PROVE Goal
  <2>1. Busy(w) /\ pc[w] = "writing" /\ UNCHANGED <<feed, pc, job, toDelete, abandoned>>
        /\ toWrite' = [toWrite EXCEPT ![w] = @ \ {d}]
        /\ index' = Promise!WithChunk(index, d)
    BY <1>7 DEF WriteChunk, Busy, strays
  <2>2. v = w
    BY <2>1 DEF LoopOrder, Busy
  <2>3. MyBatch(v)' = MyBatch(v) /\ d \in BatchChunks(b, n) /\ b \in Batches
    BY <2>1, <2>2, BusyBatch DEF WorkersHold, MyBatch
  <2>4. toWrite'[v] = toWrite[v] \ {d} /\ Written(v) /\ Evicted(v)
    BY <2>1, <2>2 DEF TypeOK, HalfDone
  <2>5. ASSUME NEW c \in BatchChunks(b, n) \ toWrite'[v]
        PROVE  /\ c \in index' \/ Overtaken(n, c.ns, c.doc)'
               /\ \A e \in index' : Slot(e) = Slot(c) => e = c \/ e.src \in abandoned
    <3>1. CASE c = d
      BY <2>1, <3>1 DEF Promise!WithChunk
    <3>2. CASE c # d
      <4>1. /\ c \in index \/ Overtaken(n, c.ns, c.doc)
            /\ \A e \in index : Slot(e) = Slot(c) => e = c \/ e.src \in abandoned
        BY <2>4, <2>5, <3>2
      <4>2. Slot(c) # Slot(d)
        BY <2>3, <2>5, <3>2, BatchConsistent
      <4>3. Overtaken(n, c.ns, c.doc) => Overtaken(n, c.ns, c.doc)'
        <5>1. \A k : Overtaken(k, c.ns, c.doc) => Overtaken(k, c.ns, c.doc)'
          BY OvertakenStays
        <5>2. UNCHANGED n
          BY <2>1
        <5>3. QED
          BY <5>1, <5>2 DEF Overtaken
      <4>4. QED
        BY <2>1, <4>1, <4>2, <4>3 DEF Promise!WithChunk
    <3>3. QED
      BY <3>1, <3>2
  <2>6. ASSUME NEW gone \in BatchDeletes(b) \ toDelete'[v], NEW c \in index',
               c.ns = NamespaceOf(b), c.doc = gone
        PROVE  c.src \in abandoned
    <3>1. CASE c = d
      BY <2>3, <2>6, <3>1, BatchConsistent
    <3>2. CASE c \in index
      BY <2>1, <2>4, <2>6, <3>2
    <3>3. QED
      BY <2>1, <2>6, <3>1, <3>2 DEF Promise!WithChunk
  <2>7. Written(v)'
    BY <2>1, <2>3, <2>5
  <2>8. Evicted(v)'
    BY <2>1, <2>3, <2>6
  <2>9. QED
    BY <2>1, <2>2, <2>7, <2>8
<1>8. ASSUME (\E d \in strayWrites : StrayWrite(d)) \/ (\E d \in strayDeletes : StrayDelete(d))
      PROVE  Goal
  <2>1. /\ UNCHANGED <<feed, pc, job, toWrite, toDelete, abandoned>>
        /\ \A c \in index' \ index : c.src \in abandoned
    <3>1. ASSUME NEW d \in strayWrites, StrayWrite(d)
          PROVE  index' \subseteq index \cup {d} /\ d.src \in abandoned
      BY <3>1 DEF StrayWrite, Promise!WithChunk, StraysHold
    <3>2. QED
      BY <1>8, <3>1, StrayEvicts DEF StrayWrite, StrayDelete, workerVars
  <2>2. /\ pc[v] \in {"deleting", "writing"} /\ MyBatch(v)' = b
        /\ n \in DOMAIN feed /\ b = feed[n] /\ Whole(v) /\ Written(v) /\ Evicted(v)
    BY <1>1, <2>1
  <2>3. \A m \in started : m <= n
    BY <2>2 DEF LoopOrder, Busy
  <2>4. ASSUME NEW c \in BatchChunks(b, n) \ toWrite[v]
        PROVE  c \in index' \/ Overtaken(n, c.ns, c.doc)
    BY <1>8, <2>2, <2>3, <2>4, StrayOvertakes
  <2>5. Written(v)'
    BY <2>1, <2>2, <2>4, OvertakenStays
  <2>6. Whole(v)' /\ Evicted(v)'
    BY <2>1, <2>2
  <2>7. QED
    BY <2>5, <2>6
<1>9. ASSUME UNCHANGED <<index, workerVars>> PROVE Goal
  BY <1>2, <1>9 DEF workerVars
<1> HIDE DEF Goal
<1>10. Goal
  <2>1. CASE \E c \in Batches : CommitUnrouted(c) \/ CommitAnnounced(c) \/ CommitRejected(c)
    BY <2>1, <1>9 DEF CommitUnrouted, CommitAnnounced, CommitRejected
  <2>2. CASE \E m \in DOMAIN feed : Redeliver(m)
    BY <2>2, <1>9 DEF Redeliver
  <2>3. CASE Deliver
    BY <2>3, <1>3 DEF Deliver
  <2>4. CASE \E w \in Workers : Work(w) \/ Fail(w) \/ TimeOut(w)
    BY <2>4, <1>3, <1>4, <1>5, <1>6, <1>7 DEF Work
  <2>5. CASE UNCHANGED vars
    BY <2>5, <1>9 DEF vars
  <2>6. QED
    BY <2>1, <2>2, <2>3, <2>4, <2>5, <1>8 DEF Next
<1>11. QED
  BY <1>10 DEF Goal

-----------------------------------------------------------------------------
(* What the loop's completed batches leave in the index.                   *)

(* A step that may write or evict c's document is of a newer batch than    *)
(* any completed one: none of those has the last word on it any more.      *)
LEMMA Outdated ==
    ASSUME InOrder, TypeOK, WorkersHold, LoopOrder, [Next]_vars,
           NEW w \in Workers, pc[w] \in {"deleting", "writing"},
           NEW ns, NEW doc, Mentions(job[w].batch, ns, doc), NEW n \in done
    PROVE  ~ IsLastWord(n, ns, doc)
<1>1. Busy(w) /\ job[w].batch \in started
  BY DEF Busy, WorkersHold
<1>2. n < job[w].batch
  BY <1>1 DEF LoopOrder
<1>3. QED
  BY <1>1, <1>2, BatchNumbers DEF IsLastWord

(* The last word on a document was the last word before, or is that of the *)
(* batch just completed.                                                   *)
LEMMA LastWordBefore ==
    ASSUME TypeOK, [Next]_vars, NEW n \in started \cap done,
           NEW ns, NEW doc, IsLastWord(n, ns, doc)'
    PROVE  IsLastWord(n, ns, doc)
<1>1. \A m \in started : m \in DOMAIN feed
  BY DEF TypeOK
<1>2. QED
  BY <1>1, HistoryGrows, MentionsStay DEF IsLastWord

(* What completes a batch, and what starts one.                            *)
LEMMA LoopSteps ==
    ASSUME TypeOK, [Next]_vars
    PROVE  /\ \A n \in (started' \cap done') \ (started \cap done) :
                 \/ n \in done
                 \/ n \in started /\ UNCHANGED <<index, started>> /\ \E w \in Workers :
                        n = job[w].batch /\ Busy(w) /\ (Skip(w) \/ Finish(w))
           /\ \A n \in started' \ started : \E w \in Workers :
                        n = job[w].batch /\ Busy(w)
<1>1. CASE \E b \in Batches : CommitUnrouted(b) \/ CommitAnnounced(b) \/ CommitRejected(b)
  BY <1>1 DEF CommitUnrouted, CommitAnnounced, CommitRejected, busVars
<1>2. CASE \E n \in DOMAIN feed : Redeliver(n)
  BY <1>2 DEF Redeliver
<1>3. CASE Deliver
  BY <1>3 DEF Deliver, Receive
<1>4. ASSUME NEW w \in Workers, Skip(w) \/ Finish(w)
      PROVE  /\ done' = done \cup {job[w].batch} /\ UNCHANGED <<index, started>> /\ Busy(w)
  BY <1>4 DEF Skip, Finish, Busy
<1>5. ASSUME NEW w \in Workers, ReadAndMerge(w)
      PROVE  /\ started' = started \cup {job[w].batch} /\ UNCHANGED <<index, done>> /\ Busy(w)
  BY <1>5 DEF ReadAndMerge, Busy
<1>6. ASSUME NEW w \in Workers, Embed(w) \/ Fail(w) \/ TimeOut(w) PROVE UNCHANGED <<started, done>>
  BY <1>6 DEF Embed, Fail, TimeOut, busVars
<1>7. ASSUME NEW w \in Workers,
             \/ \E doc \in toDelete[w] : DeleteDocument(w, doc)
             \/ \E c \in toWrite[w] : WriteChunk(w, c)
      PROVE  UNCHANGED <<started, done>>
  BY <1>7 DEF DeleteDocument, WriteChunk, busVars
<1>8. CASE \E w \in Workers : Work(w) \/ Fail(w) \/ TimeOut(w)
  BY <1>4, <1>5, <1>6, <1>7, <1>8 DEF Work
<1>9. CASE UNCHANGED busVars
  BY <1>9 DEF busVars
<1>10. QED
  BY <1>1, <1>2, <1>3, <1>8, <1>9 DEF Next, vars, StrayWrite, StrayDelete

(* In the loop, a batch is completed after it was read by finishing it.    *)
LEMMA NewlyDone ==
    ASSUME TypeOK, LoopOrder, StartedKnown, [Next]_vars,
           NEW n \in started' \cap done', n \notin started \cap done
    PROVE  \E w \in Workers : /\ Finish(w) /\ n = job[w].batch
                              /\ UNCHANGED <<index, started, abandoned>>
                              /\ pc[w] \in {"deleting", "writing"}
                              /\ feed'[n] = MyBatch(w) /\ MyBatch(w) \in Batches
<1>1. n \notin done
  <2>1. ASSUME n \in done PROVE FALSE
    <3>1. PICK w \in Workers : n = job[w].batch /\ Busy(w)
      BY <2>1, LoopSteps
    <3>2. QED
      BY <2>1, <3>1, BatchNumbers DEF LoopOrder
  <2>2. QED
    BY <2>1
<1>2. PICK w \in Workers :
         n = job[w].batch /\ Busy(w) /\ (Skip(w) \/ Finish(w)) /\ n \in started
         /\ UNCHANGED <<index, started>>
  BY <1>1, LoopSteps
<1>3. MyBatch(w) \in Batches /\ feed'[n] = MyBatch(w)
  BY <1>2, BusyBatch, PromiseMonotone DEF MyBatch
<1>4. ~ Skip(w)
  BY <1>2 DEF Skip, StartedKnown, MyBatch
<1>5. QED
  BY <1>2, <1>3, <1>4 DEF Finish, strays

LEMMA NextHonoured ==
    /\ InOrder /\ TypeOK /\ WorkersHold /\ StraysHold /\ LoopOrder /\ StartedKnown
    /\ HalfDone /\ TombstoneHonoured /\ [Next]_vars
    => TombstoneHonoured'
<1> SUFFICES ASSUME InOrder, TypeOK, WorkersHold, StraysHold, LoopOrder, StartedKnown,
                    HalfDone, TombstoneHonoured, [Next]_vars,
                    NEW n \in started' \cap done',
                    NEW doc \in BatchDeletes(feed'[n]),
                    NEW ns, ns = NamespaceOf(feed'[n]),
                    IsLastWord(n, ns, doc)',
                    NEW c \in index', c.ns = ns, c.doc = doc,
                    c.src \notin abandoned'
             PROVE  FALSE
  BY DEF TombstoneHonoured
<1>1. CASE n \in started \cap done
  <2>1. n \in DOMAIN feed /\ feed'[n] = feed[n]
    BY <1>1, PromiseMonotone DEF TypeOK
  <2>2. IsLastWord(n, ns, doc)
    BY <1>1, LastWordBefore
  <2>3. c \notin index /\ c.src \notin abandoned
    BY <1>1, <2>1, <2>2, HistoryGrows DEF TombstoneHonoured
  <2>4. ASSUME NEW w \in Workers, NEW d \in toWrite[w], WriteChunk(w, d) PROVE FALSE
    <3>1. c = d /\ pc[w] = "writing"
      BY <2>3, <2>4 DEF WriteChunk, Promise!WithChunk
    <3>2. Mentions(job[w].batch, ns, doc)
      <4>1. d \in BatchChunks(MyBatch(w), job[w].batch) /\ Ingested(MyBatch(w))
            /\ job[w].batch \in DOMAIN feed
        BY <3>1 DEF WorkersHold, TypeOK
      <4>2. QED
        BY <3>1, <4>1, OutputIsMention DEF MyBatch
    <3>3. QED
      BY <1>1, <2>2, <3>1, <3>2, Outdated
  <2>5. ASSUME NEW d \in strayWrites, StrayWrite(d) PROVE FALSE
    BY <2>3, <2>5 DEF StrayWrite, Promise!WithChunk, StraysHold
  <2>6. QED
    BY <2>3, <2>4, <2>5, IndexSteps, DeletionEvicts, StrayEvicts
<1>2. CASE n \notin started \cap done
  <2>1. PICK w \in Workers : /\ Finish(w) /\ n = job[w].batch
                             /\ UNCHANGED <<index, started, abandoned>>
                             /\ pc[w] \in {"deleting", "writing"}
                             /\ feed'[n] = MyBatch(w)
    BY <1>2, NewlyDone
  <2>2. toDelete[w] = {}
    BY <2>1 DEF Finish
  <2>3. QED
    BY <2>1, <2>2 DEF HalfDone
<1>3. QED
  BY <1>1, <1>2

LEMMA NextLatest ==
    /\ InOrder /\ TypeOK /\ WorkersHold /\ StraysHold /\ LoopOrder /\ StartedKnown
    /\ HalfDone /\ LatestStateWritten /\ [Next]_vars
    => LatestStateWritten'
<1> SUFFICES ASSUME InOrder, TypeOK, WorkersHold, StraysHold, LoopOrder, StartedKnown,
                    HalfDone, LatestStateWritten, [Next]_vars,
                    NEW n \in started' \cap done',
                    NEW c \in BatchChunks(feed'[n], n),
                    IsLastWord(n, c.ns, c.doc)',
                    c \notin index', ~ Overtaken(n, c.ns, c.doc)'
             PROVE  FALSE
  BY DEF LatestStateWritten
<1>0. ~ Overtaken(n, c.ns, c.doc)
  BY OvertakenStays
<1>1. CASE n \in started \cap done
  <2>1. n \in DOMAIN feed /\ feed'[n] = feed[n]
    BY <1>1, PromiseMonotone DEF TypeOK
  <2>2. IsLastWord(n, c.ns, c.doc)
    BY <1>1, LastWordBefore
  <2>3. c \in index
    BY <1>0, <1>1, <2>1, <2>2 DEF LatestStateWritten
  <2>4. ASSUME NEW w \in Workers, NEW d \in toWrite[w], WriteChunk(w, d) PROVE FALSE
    <3>1. Slot(c) = Slot(d) /\ pc[w] = "writing"
      BY <2>3, <2>4 DEF WriteChunk, Promise!WithChunk
    <3>2. d \in BatchChunks(MyBatch(w), job[w].batch) /\ Ingested(MyBatch(w))
          /\ job[w].batch \in DOMAIN feed
      BY <3>1 DEF WorkersHold, TypeOK
    <3>3. Mentions(job[w].batch, d.ns, d.doc)
      BY <3>2, OutputIsMention DEF MyBatch
    <3>4. c.ns = d.ns /\ c.doc = d.doc
      BY <3>1 DEF Slot
    <3>5. QED
      BY <1>1, <2>2, <3>1, <3>3, <3>4, Outdated
  <2>5. ASSUME NEW w \in Workers, NEW doc \in toDelete[w], DeleteDocument(w, doc) PROVE FALSE
    <3>1. c.ns = NamespaceOf(MyBatch(w)) /\ c.doc = doc /\ pc[w] = "deleting"
      BY <2>3, <2>5, DeletionEvicts DEF DeleteDocument
    <3>2. doc \in BatchDeletes(MyBatch(w)) /\ Ingested(MyBatch(w))
          /\ job[w].batch \in DOMAIN feed
      BY <3>1 DEF WorkersHold, TypeOK
    <3>3. Mentions(job[w].batch, c.ns, c.doc)
      BY <3>1, <3>2, OutputIsMention DEF MyBatch
    <3>4. QED
      BY <1>1, <2>2, <3>1, <3>3, Outdated
  <2>6. ASSUME (\E d \in strayWrites : StrayWrite(d)) \/ (\E d \in strayDeletes : StrayDelete(d))
        PROVE  FALSE
    <3>1. \A m \in started : Mentions(m, c.ns, c.doc) => m <= n
      BY <2>2 DEF IsLastWord
    <3>2. c \in BatchChunks(feed[n], n)
      BY <2>1
    <3>3. QED
      BY <1>0, <2>1, <2>3, <2>6, <3>1, <3>2, StrayOvertakes
  <2>7. QED
    BY <2>3, <2>4, <2>5, <2>6, IndexSteps
<1>2. CASE n \notin started \cap done
  <2>1. PICK w \in Workers : /\ Finish(w) /\ n = job[w].batch
                             /\ UNCHANGED <<index, started, abandoned>>
                             /\ pc[w] \in {"deleting", "writing"}
                             /\ feed'[n] = MyBatch(w)
    BY <1>2, NewlyDone
  <2>2. toWrite[w] = {}
    BY <2>1 DEF Finish
  <2>3. QED
    BY <1>0, <2>1, <2>2 DEF HalfDone
<1>3. QED
  BY <1>1, <1>2

LEMMA NextStale ==
    /\ InOrder /\ TypeOK /\ WorkersHold /\ StraysHold /\ LoopOrder /\ StartedKnown
    /\ HalfDone /\ NothingStale /\ [Next]_vars
    => NothingStale'
<1> SUFFICES ASSUME InOrder, TypeOK, WorkersHold, StraysHold, LoopOrder, StartedKnown,
                    HalfDone, NothingStale, [Next]_vars,
                    NEW c \in index', NEW n \in done',
                    Ingested(feed'[n]), c.src < n, NamespaceOf(feed'[n]) = c.ns,
                    c.src \notin abandoned'
             PROVE  /\ c.doc \notin BatchDeletes(feed'[n])
                    /\ \A d \in BatchChunks(feed'[n], n) : Slot(d) # Slot(c)
  BY DEF NothingStale
<1>1. ASSUME NEW w \in Workers, NEW d \in toWrite[w], WriteChunk(w, d), c = d PROVE FALSE
  <2>1. /\ d \in BatchChunks(MyBatch(w), job[w].batch) /\ Busy(w)
        /\ MyBatch(w) \in Batches /\ done' = done
    BY <1>1, BusyBatch DEF WorkersHold, WriteChunk, Busy, busVars
  <2>2. c.src = job[w].batch
    BY <1>1, <2>1, BatchConsistent
  <2>3. n < job[w].batch
    BY <2>1 DEF LoopOrder
  <2>4. QED
    BY <2>1, <2>2, <2>3, BatchNumbers
<1>2. c.src \notin abandoned
  BY HistoryGrows
<1>3. c \in index
  <2>1. ASSUME NEW d \in strayWrites, StrayWrite(d) PROVE c \in index
    BY <1>2, <2>1 DEF StrayWrite, Promise!WithChunk, StraysHold
  <2>2. QED
    BY <1>1, <2>1, IndexSteps, DeletionEvicts, StrayEvicts DEF WriteChunk, Promise!WithChunk
<1>4. CASE n \in done
  <2>1. feed'[n] = feed[n]
    BY <1>4, PromiseMonotone DEF TypeOK
  <2>2. QED
    BY <1>2, <1>3, <1>4, <2>1 DEF NothingStale
<1>5. CASE n \notin done
  <2>1. PICK w \in Workers : n = job[w].batch /\ (Skip(w) \/ Finish(w)) /\ Busy(w)
    BY <1>5 DEF Next, Deliver, Work, vars, busVars, CommitUnrouted, CommitAnnounced,
       CommitRejected, Redeliver, Receive, Skip, ReadAndMerge, DeleteDocument, Embed,
       WriteChunk, Finish, Fail, TimeOut, StrayWrite, StrayDelete, Busy
  <2>2. MyBatch(w) \in Batches /\ feed'[n] = MyBatch(w)
    BY <2>1, BusyBatch, PromiseMonotone DEF MyBatch
  <2>3. pc[w] \in {"deleting", "writing"} /\ toDelete[w] = {} /\ toWrite[w] = {}
    BY <2>1, <2>2 DEF Skip, Finish
  <2>4. c.doc \notin BatchDeletes(feed'[n])
    BY <1>2, <1>3, <2>2, <2>3 DEF HalfDone
  <2>5. ASSUME NEW d \in BatchChunks(feed'[n], n), Slot(d) = Slot(c) PROVE FALSE
    <3>1. c = d
      BY <1>2, <1>3, <2>1, <2>2, <2>3, <2>5 DEF HalfDone
    <3>2. c.src = n
      BY <2>2, <2>5, <3>1, BatchConsistent
    <3>3. QED
      BY <2>1, <3>2, BatchNumbers
  <2>6. QED
    BY <2>4, <2>5
<1>6. QED
  BY <1>4, <1>5

(* What the loop keeps, from the first batch on.                           *)
LoopInv ==
    InOrder =>
        /\ LoopOrder /\ StartedKnown /\ HalfDone
        /\ TombstoneHonoured /\ LatestStateWritten /\ NothingStale

LEMMA InitLoopInv == Init => LoopInv
BY InitLoop DEF Init, LoopInv, TombstoneHonoured, LatestStateWritten, NothingStale

LEMMA NextLoopInv ==
    TypeOK /\ WorkersHold /\ StraysHold /\ IndexJustified /\ LoopInv /\ [Next]_vars
        => LoopInv'
BY NextLoop, NextStarted, NextHalf, NextHonoured, NextLatest, NextStale DEF LoopInv, InOrder

LEMMA AlwaysLoopInv == Spec => []LoopInv
BY InitLoopInv, NextLoopInv, WorkersHoldOwnBatch, IndexProvenance, PTL DEF Spec

(* With the CLI's loop over an OpenSearch index, when no batch is ingested *)
(* again after a later one: a document whose newest ingested batch is a    *)
(* completed DELETE is out of the index, whatever failed and was retried   *)
(* on the way, but for what a bulk request of an older batch that went on  *)
(* without its caller stored.  (On the event bus, and after a repeated     *)
(* delivery, it may come back whole.)                                      *)
THEOREM LoopHonoursTombstones ==
    ASSUME Sequential, MaxRedeliveries = 0
    PROVE  Spec => []TombstoneHonoured
<1>1. LoopInv => TombstoneHonoured
  BY DEF LoopInv, InOrder
<1>2. QED
  BY <1>1, AlwaysLoopInv, PTL

(* ... and one whose newest ingested batch is a completed upsert is there  *)
(* with that version's passages and ACL, unless a request of an older      *)
(* batch for it went on without its caller.                                *)
THEOREM LoopWritesLatestState ==
    ASSUME Sequential, MaxRedeliveries = 0
    PROVE  Spec => []LatestStateWritten
<1>1. LoopInv => LatestStateWritten
  BY DEF LoopInv, InOrder
<1>2. QED
  BY <1>1, AlwaysLoopInv, PTL

=============================================================================
