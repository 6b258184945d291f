----------------------------- MODULE Ingestion -----------------------------
(***************************************************************************)
(* The write path: CDA commits a batch and announces it on the event bus,  *)
(* EventBridge invokes the Lambda handler, and ingest_batch turns the      *)
(* batch into index contents: merge, evict the tombstoned documents,       *)
(* chunk and embed the others, write their chunks                          *)
(* (ingestion/lambda_handler.py, ingestion/ingest.py).                     *)
(*                                                                         *)
(* The event bus delivers at least once and in no order, retries a failed  *)
(* invocation a bounded number of times and then gives up: the rule's      *)
(* target (infra/terraform/main.tf) has no dead-letter queue.  Invocations *)
(* run concurrently.  With Sequential, the model is instead the CLI's loop *)
(* over the generated batches: one ingest_batch at a time, oldest first.   *)
(*                                                                         *)
(* The store is OpenSearch, in both: a request whose client timed out, or  *)
(* was killed by the Lambda's timeout, is carried out all the same, now or *)
(* later.  (The local store and the files a dying CLI process leaves are   *)
(* CliRuns' subject.)                                                      *)
(***************************************************************************)
EXTENDS CdaFeed, FiniteSets

CONSTANTS
    Workers,           \* concurrent invocations of the handler
    MaxBatches,        \* bound on committed batches
    MaxAttempts,       \* invocations of one delivery: 1 and its retries
    MaxRedeliveries,   \* bound on repeated deliveries of accepted events
    MaxStrays,         \* bound on batches with a request left under way
    Sequential         \* the CLI's loop instead of the event bus

(* The rule's event pattern: what reaches the Lambda at all.               *)
Routed == {"streamingBatchCompleted", "batchModeTableWrittenOut", "tableSchemaChanged"}

VARIABLES
    feed,          \* committed batches, in commit order
    index,         \* chunks in the vector store
    queue,         \* deliveries waiting for an invocation
    rejected,      \* batches whose event put_events did not accept
    done,          \* batches some invocation completed or skipped
    dropped,       \* batches a delivery of which ran out of attempts
    started,       \* batches some invocation began to ingest
    copies,        \* repeated deliveries so far
    pc,            \* what each worker is doing
    job,           \* the delivery each worker holds
    toDelete,      \* documents it has yet to evict
    toWrite,       \* chunks it has yet to write
    strayWrites,   \* chunks of bulk requests whose caller is gone
    strayDeletes,  \* evictions whose caller is gone
    abandoned      \* history: the batches those requests are or were of

(* The chunks of bulk requests that may still be under way: of a batch no  *)
(* invocation has completed, one that is being written again, or one with  *)
(* a request whose end nobody waited for.                                  *)
Unsettled ==
    {c \in index : \/ c.src \notin done
                  \/ c.src \in abandoned
                  \/ \E v \in Workers : pc[v] = "writing" /\ job[v].batch = c.src}

Promise == INSTANCE IndexPromise WITH unsettled <- Unsettled

busVars == <<queue, rejected, done, dropped, started, copies>>
workerVars == <<pc, job, toDelete, toWrite>>
strays == <<strayWrites, strayDeletes, abandoned>>
vars == <<feed, index, busVars, workerVars, strays>>

ASSUME IngestionAssumption ==
    /\ MaxBatches \in Nat
    /\ MaxAttempts \in Nat \ {0}
    /\ MaxRedeliveries \in Nat
    /\ MaxStrays \in Nat
    /\ Sequential \in BOOLEAN

Delivery == [batch : Nat \ {0}, copy : Nat, attempt : 1 .. MaxAttempts]

NoJob == [batch |-> 0, copy |-> 0, attempt |-> 0]

WorkerStates == {"idle", "received", "deleting", "writing"}

Init ==
    /\ feed = <<>>
    /\ index = {}
    /\ queue = {}
    /\ rejected = {} /\ done = {} /\ dropped = {} /\ started = {}
    /\ copies = 0
    /\ pc = [w \in Workers |-> "idle"]
    /\ job = [w \in Workers |-> NoJob]
    /\ toDelete = [w \in Workers |-> {}]
    /\ toWrite = [w \in Workers |-> {}]
    /\ strayWrites = {} /\ strayDeletes = {} /\ abandoned = {}

-----------------------------------------------------------------------------
(* CDA and the event bus.                                                  *)

FirstDelivery(n) == [batch |-> n, copy |-> 0, attempt |-> 1]

CommitUnrouted(b) ==
    /\ Len(feed) < MaxBatches
    /\ b.type \notin Routed
    /\ feed' = Append(feed, b)
    /\ UNCHANGED <<index, busVars, workerVars, strays>>

CommitAnnounced(b) ==
    /\ Len(feed) < MaxBatches
    /\ b.type \in Routed
    /\ feed' = Append(feed, b)
    /\ queue' = queue \cup {FirstDelivery(Len(feed) + 1)}
    /\ UNCHANGED <<index, rejected, done, dropped, started, copies, workerVars, strays>>

(* A FailedEntryCount is subtracted from the number reported, not retried. *)
CommitRejected(b) ==
    /\ ~ Sequential
    /\ Len(feed) < MaxBatches
    /\ b.type \in Routed
    /\ feed' = Append(feed, b)
    /\ rejected' = rejected \cup {Len(feed) + 1}
    /\ UNCHANGED <<index, queue, done, dropped, started, copies, workerVars, strays>>

(* An accepted event delivered again, at any later time; also the operator *)
(* running `own-overview ingest` on a batch that was ingested before.      *)
Redeliver(n) ==
    /\ copies < MaxRedeliveries
    /\ feed[n].type \in Routed
    /\ n \notin rejected
    /\ copies' = copies + 1
    /\ queue' = queue \cup {[batch |-> n, copy |-> copies + 1, attempt |-> 1]}
    /\ UNCHANGED <<feed, index, rejected, done, dropped, started, workerVars, strays>>

-----------------------------------------------------------------------------
(* One invocation of the handler.                                          *)

(* Slip: the loop takes the batches in no order.                           *)
MyTurnAnyOrder(d) == Sequential => \A w \in Workers : pc[w] = "idle"

(* An exception ends the CLI's loop: the operator ingests the batch again  *)
(* before the ones after it, or nothing after it is ingested.              *)
MyTurn(d) ==
    Sequential =>
        /\ dropped = {}
        /\ \A w \in Workers : pc[w] = "idle"
        /\ \A e \in queue : d.batch <= e.batch

Receive(w, d) ==
    /\ pc[w] = "idle"
    /\ d \in queue
    /\ MyTurn(d)
    /\ queue' = queue \ {d}
    /\ pc' = [pc EXCEPT ![w] = "received"]
    /\ job' = [job EXCEPT ![w] = d]
    /\ UNCHANGED <<feed, index, rejected, done, dropped, started, copies,
                   toDelete, toWrite, strays>>

Release(w) ==
    /\ pc' = [pc EXCEPT ![w] = "idle"]
    /\ job' = [job EXCEPT ![w] = NoJob]
    /\ toDelete' = [toDelete EXCEPT ![w] = {}]
    /\ toWrite' = [toWrite EXCEPT ![w] = {}]

MyBatch(w) == feed[job[w].batch]

(* Non-ingestable types, and tables without a TableConfig.                 *)
Skip(w) ==
    /\ pc[w] = "received"
    /\ ~ Ingested(MyBatch(w))
    /\ done' = done \cup {job[w].batch}
    /\ Release(w)
    /\ UNCHANGED <<feed, index, queue, rejected, dropped, started, copies, strays>>

(* Slips: the merge's deletes are dropped; the row's ACL is not read.      *)
ReadWithoutDeletes(w) ==
    /\ pc[w] = "received"
    /\ Ingested(MyBatch(w))
    /\ started' = started \cup {job[w].batch}
    /\ pc' = [pc EXCEPT ![w] = "deleting"]
    /\ toWrite' = [toWrite EXCEPT ![w] = BatchChunks(MyBatch(w), job[w].batch)]
    /\ UNCHANGED <<feed, index, queue, rejected, done, dropped, copies, job, toDelete, strays>>

ReadWithTableAcl(w) ==
    /\ pc[w] = "received"
    /\ Ingested(MyBatch(w))
    /\ started' = started \cup {job[w].batch}
    /\ pc' = [pc EXCEPT ![w] = "deleting"]
    /\ toDelete' = [toDelete EXCEPT ![w] = BatchDeletes(MyBatch(w))]
    /\ toWrite' = [toWrite EXCEPT ![w] = {[c EXCEPT !.acl = DefaultAcl[c.doc.doc_type]] :
                                            c \in BatchChunks(MyBatch(w), job[w].batch)}]
    /\ UNCHANGED <<feed, index, queue, rejected, done, dropped, copies, job, strays>>

ReadAndMerge(w) ==
    /\ pc[w] = "received"
    /\ Ingested(MyBatch(w))
    /\ started' = started \cup {job[w].batch}
    /\ pc' = [pc EXCEPT ![w] = "deleting"]
    /\ toDelete' = [toDelete EXCEPT ![w] = BatchDeletes(MyBatch(w))]
    /\ toWrite' = [toWrite EXCEPT ![w] = BatchChunks(MyBatch(w), job[w].batch)]
    /\ UNCHANGED <<feed, index, queue, rejected, done, dropped, copies, job, strays>>

(* Slips: the document's first chunk only; the document in every scope.    *)
DeleteFirstChunk(w, doc) ==
    /\ pc[w] = "deleting"
    /\ doc \in toDelete[w]
    /\ index' = {c \in index : ~ (c.ns = NamespaceOf(MyBatch(w)) /\ c.doc = doc /\ c.idx = 0)}
    /\ toDelete' = [toDelete EXCEPT ![w] = @ \ {doc}]
    /\ UNCHANGED <<feed, busVars, pc, job, toWrite, strays>>

DeleteEverywhere(w, doc) ==
    /\ pc[w] = "deleting"
    /\ doc \in toDelete[w]
    /\ index' = {c \in index : c.doc # doc}
    /\ toDelete' = [toDelete EXCEPT ![w] = @ \ {doc}]
    /\ UNCHANGED <<feed, busVars, pc, job, toWrite, strays>>

(* The deletion acts at once on what finished requests wrote, and misses   *)
(* some of what others are writing (OpenSearchCalls, ActsAtOnce).          *)
Evicts(b, doc) ==
    \E spared \in SUBSET {c \in Unsettled : c.doc = doc} :
        index' = Promise!WithoutDoc(index, NamespaceOf(b), doc) \cup spared

DeleteDocument(w, doc) ==
    /\ pc[w] = "deleting"
    /\ doc \in toDelete[w]
    /\ Evicts(MyBatch(w), doc)
    /\ toDelete' = [toDelete EXCEPT ![w] = @ \ {doc}]
    /\ UNCHANGED <<feed, busVars, pc, job, toWrite, strays>>

(* All deletes are done: embed, then bulk-write, if there is anything to.  *)
Embed(w) ==
    /\ pc[w] = "deleting"
    /\ toDelete[w] = {}
    /\ toWrite[w] # {}
    /\ pc' = [pc EXCEPT ![w] = "writing"]
    /\ UNCHANGED <<feed, index, busVars, job, toDelete, toWrite, strays>>

(* Slip: the bulk action creates a document instead of replacing it.       *)
AppendChunk(w, c) ==
    /\ pc[w] = "writing"
    /\ c \in toWrite[w]
    /\ index' = index \cup {c}
    /\ toWrite' = [toWrite EXCEPT ![w] = @ \ {c}]
    /\ UNCHANGED <<feed, busVars, pc, job, toDelete, strays>>

(* One action of the bulk request; others may be seen between two of them. *)
WriteChunk(w, c) ==
    /\ pc[w] = "writing"
    /\ c \in toWrite[w]
    /\ index' = Promise!WithChunk(index, c)
    /\ toWrite' = [toWrite EXCEPT ![w] = @ \ {c}]
    /\ UNCHANGED <<feed, busVars, pc, job, toDelete, strays>>

(* Slip: the bulk request is not waited for.                               *)
FinishEarly(w) ==
    /\ pc[w] \in {"deleting", "writing"}
    /\ toDelete[w] = {}
    /\ done' = done \cup {job[w].batch}
    /\ Release(w)
    /\ UNCHANGED <<feed, index, queue, rejected, dropped, started, copies, strays>>

Finish(w) ==
    /\ pc[w] \in {"deleting", "writing"}
    /\ toDelete[w] = {}
    /\ toWrite[w] = {}
    /\ done' = done \cup {job[w].batch}
    /\ Release(w)
    /\ UNCHANGED <<feed, index, queue, rejected, dropped, started, copies, strays>>

(* Slip: the handler swallows the exception, so that nothing retries.      *)
FailSilently(w) ==
    /\ pc[w] # "idle"
    /\ Release(w)
    /\ UNCHANGED <<feed, index, queue, rejected, done, dropped, started, copies, strays>>

(* The event is retried from the beginning, or given up.                   *)
GiveBack(w) ==
    /\ IF job[w].attempt < MaxAttempts
         THEN /\ queue' = queue \cup {[job[w] EXCEPT !.attempt = @ + 1]}
              /\ UNCHANGED dropped
         ELSE /\ dropped' = dropped \cup {job[w].batch}
              /\ UNCHANGED queue
    /\ Release(w)

(* Any exception out of the handler, or the Lambda's timeout, between two  *)
(* requests or with one that has ended: what was written stays written.    *)
Fail(w) ==
    /\ pc[w] # "idle"
    /\ GiveBack(w)
    /\ UNCHANGED <<feed, index, rejected, done, started, copies, strays>>

(* ... with a request under way, which goes on without its caller: the     *)
(* eviction of one document, or a bulk request with chunks yet to store.   *)
TimeOut(w) ==
    /\ Cardinality(abandoned \cup {job[w].batch}) <= MaxStrays
    /\ \/ /\ pc[w] = "deleting"
          /\ \E doc \in toDelete[w] :
               strayDeletes' = strayDeletes \cup {[batch |-> job[w].batch, doc |-> doc]}
          /\ UNCHANGED strayWrites
       \/ /\ pc[w] = "writing" /\ toWrite[w] # {}
          /\ strayWrites' = strayWrites \cup toWrite[w]
          /\ UNCHANGED strayDeletes
    /\ abandoned' = abandoned \cup {job[w].batch}
    /\ GiveBack(w)
    /\ UNCHANGED <<feed, index, rejected, done, started, copies>>

(* The store carries out what is left of a request without a caller: soon, *)
(* after other invocations' requests, or never.                            *)
StrayWrite(c) ==
    /\ c \in strayWrites
    /\ index' = Promise!WithChunk(index, c)
    /\ strayWrites' = strayWrites \ {c}
    /\ UNCHANGED <<feed, busVars, workerVars, strayDeletes, abandoned>>

StrayDelete(d) ==
    /\ d \in strayDeletes
    /\ Evicts(feed[d.batch], d.doc)
    /\ strayDeletes' = strayDeletes \ {d}
    /\ UNCHANGED <<feed, busVars, workerVars, strayWrites, abandoned>>

Work(w) ==
    \/ Skip(w)
    \/ ReadAndMerge(w)
    \/ \E doc \in toDelete[w] : DeleteDocument(w, doc)
    \/ Embed(w)
    \/ \E c \in toWrite[w] : WriteChunk(w, c)
    \/ Finish(w)

Deliver == \E w \in Workers, d \in queue : Receive(w, d)

Next ==
    \/ \E b \in Batches : CommitUnrouted(b) \/ CommitAnnounced(b) \/ CommitRejected(b)
    \/ \E n \in DOMAIN feed : Redeliver(n)
    \/ Deliver
    \/ \E w \in Workers : Work(w) \/ Fail(w) \/ TimeOut(w)
    \/ \E c \in strayWrites : StrayWrite(c)
    \/ \E d \in strayDeletes : StrayDelete(d)

(* The bus hands out what it accepted; an invocation runs until it returns *)
(* or fails.  Nothing makes CDA commit, nothing has to fail, and nobody    *)
(* waits for a request without a caller.                                   *)
Spec ==
    /\ Init
    /\ [][Next]_vars
    /\ WF_vars(Deliver)
    /\ \A w \in Workers : WF_vars(Work(w))

-----------------------------------------------------------------------------
(* Properties.                                                             *)

(* The variables stay in their types; an idle worker holds nothing.        *)
TypeOK ==
    /\ feed \in Seq(Batches) /\ Len(feed) <= MaxBatches
    /\ index \subseteq Chunk
    /\ queue \subseteq Delivery
    /\ rejected \subseteq DOMAIN feed /\ done \subseteq DOMAIN feed
    /\ dropped \subseteq DOMAIN feed /\ started \subseteq DOMAIN feed
    /\ copies \in 0 .. MaxRedeliveries
    /\ pc \in [Workers -> WorkerStates]
    /\ job \in [Workers -> Delivery \cup {NoJob}]
    /\ toDelete \in [Workers -> SUBSET DocIds]
    /\ toWrite \in [Workers -> SUBSET Chunk]
    /\ strayWrites \subseteq Chunk
    /\ strayDeletes \subseteq [batch : DOMAIN feed, doc : DocIds]
    /\ abandoned \subseteq DOMAIN feed
    /\ \A d \in queue : d.batch \in DOMAIN feed
    /\ \A w \in Workers : IF pc[w] = "idle" THEN job[w] = NoJob
                                            ELSE job[w].batch \in DOMAIN feed

(* Concurrent, failing and repeated invocations still give an index the    *)
(* abstract one allows: each step of it commits a batch, stores a chunk of *)
(* a committed latest-state record under its own scope and ACL, evicts a   *)
(* tombstoned document, or changes nothing (ingest.py 181-209).            *)
RefinesPromise == Promise!Spec

(* A chunk_id names one chunk of a scope: rewriting a record replaces its  *)
(* passages and never lists one twice (local_store.py 65, opensearch       *)
(* `_id`).                                                                 *)
OneChunkPerSlot ==
    \A c, d \in index : Slot(c) = Slot(d) => c = d

(* Every accepted event is waiting, being ingested, completed, or given up *)
(* after its last attempt; a failure between two steps of ingest_batch     *)
(* loses none.                                                             *)
NothingForgotten ==
    \A n \in DOMAIN feed :
        feed[n].type \in Routed /\ n \notin rejected =>
            \/ n \in done \cup dropped
            \/ \E d \in queue : d.batch = n
            \/ \E w \in Workers : job[w].batch = n

(* What a worker holds: nothing before it has merged its batch, and then   *)
(* only evictions and chunks of that batch, evictions first.               *)
WorkersHold ==
    \A w \in Workers :
        /\ pc[w] \in {"idle", "received"} => toDelete[w] = {} /\ toWrite[w] = {}
        /\ pc[w] \in {"deleting", "writing"} =>
            /\ job[w].batch \in started
            /\ Ingested(MyBatch(w))
            /\ toDelete[w] \subseteq BatchDeletes(MyBatch(w))
            /\ toWrite[w] \subseteq BatchChunks(MyBatch(w), job[w].batch)
        /\ pc[w] = "writing" => toDelete[w] = {}

(* What requests without a caller may still do is what their batch calls   *)
(* for.                                                                    *)
StraysHold ==
    /\ abandoned \subseteq started
    /\ \A c \in strayWrites :
        /\ c.src \in abandoned
        /\ Ingested(feed[c.src])
        /\ c \in BatchChunks(feed[c.src], c.src)
    /\ \A d \in strayDeletes :
        /\ d.batch \in abandoned
        /\ Ingested(feed[d.batch])
        /\ d.doc \in BatchDeletes(feed[d.batch])

(* Every chunk in the index belongs to the latest state of a record in an  *)
(* ingested batch and carries that batch's scope and that row's ACL.       *)
IndexJustified == \A c \in index : Promise!Justified(c)

(* The chunk's passage is there, in this version or another, or a batch    *)
(* deletes its record.                                                     *)
Present(c) ==
    \/ \E d \in index : Slot(d) = Slot(c)
    \/ Promise!Tombstoned(c.ns, c.doc)

(* A worker has stored every chunk of its batch that it no longer holds.   *)
WrittenChunksPresent ==
    \A w \in Workers : pc[w] \in {"deleting", "writing"} =>
        \A c \in BatchChunks(MyBatch(w), job[w].batch) \ toWrite[w] : Present(c)

(* A record of a completed batch is whole in the index (each of its        *)
(* passages, this version or another) unless a batch deletes the record:   *)
(* no interleaving of evictions, bulk writes, failures and retries loses a *)
(* passage otherwise.                                                      *)
CompletedRecordsPresent ==
    \A n \in done : Ingested(feed[n]) =>
        \A c \in BatchChunks(feed[n], n) : Present(c)

(* Every accepted event is completed or given up (its function returns,    *)
(* fails or times out, and its retries are bounded).                       *)
EveryEventSettles ==
    \A n \in 1 .. MaxBatches :
        (n \in DOMAIN feed /\ feed[n].type \in Routed /\ n \notin rejected)
            ~> (n \in done \cup dropped)

(* Batch n speaks of a document in a namespace.                            *)
Mentions(n, ns, doc) ==
    /\ Ingested(feed[n])
    /\ NamespaceOf(feed[n]) = ns
    /\ feed[n].table = doc.doc_type
    /\ doc.key \in MentionedKeys(feed[n].rows)

(* A chunk is removed or replaced only by an invocation whose batch speaks *)
(* of its record in its namespace, or by what such an invocation left      *)
(* under way: ingesting one tenant and environment never disturbs another  *)
(* (contracts.py 31-34), unless the two share a namespace (40-42).         *)
NamespaceIsolation ==
    [][\A c \in index \ index' :
        \/ \E w \in Workers :
            pc[w] \in {"deleting", "writing"} /\ Mentions(job[w].batch, c.ns, c.doc)
        \/ \E d \in strayWrites \ strayWrites' : Mentions(d.src, c.ns, c.doc)
        \/ \E d \in strayDeletes \ strayDeletes' : Mentions(d.batch, c.ns, c.doc)]_vars

(* Of the batches that speak of the document, n is the newest ingested.    *)
IsLastWord(n, ns, doc) ==
    /\ n \in started \cap done
    /\ Mentions(n, ns, doc)
    /\ \A m \in started : Mentions(m, ns, doc) => m <= n

(* A document whose newest ingested batch is a completed DELETE has left   *)
(* the index and stays out of it (contracts.py 166-168), but for chunks of *)
(* an earlier batch's request that went on without its caller.             *)
TombstoneHonoured ==
    \A n \in started \cap done :
        \A doc \in BatchDeletes(feed[n]) :
            LET ns == NamespaceOf(feed[n]) IN
            IsLastWord(n, ns, doc) =>
                \A c \in index : c.ns = ns /\ c.doc = doc => c.src \in abandoned

(* A request of an earlier batch for the same document went on without its *)
(* caller: it may act after batch n.                                       *)
Overtaken(n, ns, doc) == \E m \in abandoned : m < n /\ Mentions(m, ns, doc)

(* A document whose newest ingested batch is a completed upsert is in the  *)
(* index with that version's passages and ACL (merge.py 8), unless a       *)
(* request of an earlier batch for it went on without its caller.          *)
LatestStateWritten ==
    \A n \in started \cap done :
        \A c \in BatchChunks(feed[n], n) :
            IsLastWord(n, c.ns, c.doc) => c \in index \/ Overtaken(n, c.ns, c.doc)

(* ... and with no passage of an older version of it.                      *)
OnlyLatestState ==
    \A n \in started \cap done :
        \A c \in BatchChunks(feed[n], n) :
            IsLastWord(n, c.ns, c.doc) =>
                \A d \in index : d.ns = c.ns /\ d.doc = c.doc =>
                                    d \in BatchChunks(feed[n], n)

=============================================================================
