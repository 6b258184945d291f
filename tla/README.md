# Verification of own_overview

TLA+ models of the RAG pipeline in `own_overview/`: how committed CDA batches become the
contents of a vector index, how a question becomes an answer out of that index, and the
stores and filters between the two. Small instances are model-checked with TLC; the main
safety properties are proved for every instance with TLAPS.

## 1. The system

| part | source | state | operations | talks to |
|---|---|---|---|---|
| CDA events | `ingestion/cda/events.py` | none | `from_cloudevent`, `is_ingestable` | read by the handler |
| event bus and Lambda | `ingestion/lambda_handler.py`, `infra/terraform/main.tf` | deliveries in flight, attempts | `handler` | EventBridge calls it, it calls the orchestrator |
| orchestrator | `ingestion/ingest.py` | local to a call | `ingest_batch` | source, merge, chunker, embedder, store |
| merge | `ingestion/cda/merge.py` | dicts of one call | `merge_rows` | pure |
| CDA source, simulator | `ingestion/cda/source.py`, `simulator.py` | Parquet folders, manifest | `read_batch`, `generate`, `emit_to_eventbridge` | files, bus |
| chunker | `pipeline/nodes/chunk.py` | its configuration | `split` | pure |
| local store | `vectorstore/local_store.py` | a dictionary, a pickle file | `upsert`, `search`, `delete_document` | shared by CLI processes through the file |
| OpenSearch store | `vectorstore/opensearch_store.py` | one index per scope | the same three | shared by all Lambdas and queries |
| access filter | `security/access.py` | none | `build_filter`, `is_visible` | built per query, applied in the store |
| query graph | `pipeline/graph.py`, `pipeline/nodes/*.py` | `QueryState` | fan_out, retrieve, rerank, ground, guardrails, audit | store, embedder, reranker, model, log |
| prompt and citations | `grounding/prompt.py` | none | `build_prompt`, `parse_citations` | pure |
| rerankers | `retrieval/rerank.py` | none | `rerank` | Bedrock Rerank API |
| groundedness, screens | `evals/*.py` | none | `score_groundedness`, `screen_injection`, `redact_pii` | pure |
| audit log | `audit/log.py` | an append-only file | `write_audit` | shared by all queries |
| CLI | `cli.py` | none | `seed`, `ingest`, `query` | everything above |
| embedders, model adapters, configuration, identity | `embeddings/`, `llm/`, `config.py`, `security/identity.py` | none | | services |

**What is hard.** Invocations of the handler run at the same time, in any order, more than
once, and stop anywhere; the index they write to has neither transactions nor a version
check. Queries read it meanwhile, several times per question. Deletions are a legal
obligation, so a record that comes back is worse than one that is missing. On one machine, commands
share batch folders and a pickle file without locking, and may be killed anywhere. Permissions are
enforced in two separate implementations of one filter. A reply of the language model can
be anything.

**What makes each part correct.** The merge gives each record of a batch one outcome, its
latest state. Ingestion puts into the index only what a committed batch calls for, under
that batch's scope and ACL, removes only what one deletes, loses no event and disturbs no
other namespace. The chunker covers the text and terminates. The two stores let the same chunks
through, and exactly those the caller may read. A query depends on no chunk its caller may
not read, ships only what reaches the threshold on untainted passages, and leaves one audit
record. Calls of a store that overlap act as if each happened at one moment. A command that
runs alone loses nothing, and seeding again repairs what others left. Together: what a
question meets is what CDA committed for its caller, and nothing superseded before the
question was asked. The code keeps the last of these only in part (section 3): the end of a
record that got shorter stays, and so does what a request writes after its caller gave up on
it. The hazards in `PROJECT.json` list where in the code each of these could go wrong.

## 2. The modules

| module | models | state and actions |
|---|---|---|
| `CdaRows` | the rows of a batch and what collapsing them means | none: `Winners`, `DeletedKeys`, `UpsertRows` define latest state without a loop |
| `MergeRows` | `merge_rows` statement by statement | `latest`, `order`, the insertion order `keys`, the output lists; `Collapse` is one turn of the first loop, `Emit` one of the second |
| `SeqValues` | the change number as the simulator prints it and `merge_rows` compares it: 16 hex digits, as strings | none: extends `MergeRows` |
| `CdaFeed` | which batches are ingested, their chunks and evictions, ACLs, document ids and slots | none |
| `IndexPromise` | the abstract index | `feed`, `index`; `Publish`, `Put`, `Evict` |
| `Ingestion` | bus, handler and `ingest_batch`, over OpenSearch | `queue`, `rejected`, `dropped`, `done` for the bus, `pc`, `job`, `toDelete`, `toWrite` for each invocation, `strayWrites`, `strayDeletes` for requests whose caller is gone, and the `index` |
| `OpenSearchCalls` | overlapping calls of `OpenSearchStore` on one scope's index, request by request | `live` and `view` (the index, and what searches see of it), `dim` (the mapping), `calls`, `gone`; `Upsert` and `DeleteDocument` begin calls, the rest are their requests |
| `StoreCalls` | what callers of a store may rely on when calls overlap | `index`, `open`; `Put`, `Evict` |
| `CliRuns` | `seed` and `ingest` as processes sharing a disk | `folder`, `manifest`, `file` (the pickle), `runs`; one action per file operation, and `Die` |
| `Chunker` | `NaiveChunker` | one constructor call and one `split`, a turn of the window per action |
| `Access` | `build_filter`, `is_visible` | none |
| `VectorStores` | both stores given the same calls | `local` (the dictionary), `indices` and `docs` (OpenSearch); `Upsert`, `DeleteDocument` act on both |
| `QueryPipeline` | the query graph | the fields of `QueryState`, the two loops of `retrieve`, `store` and `log` shared with others |
| `QueryIsolation` | non-interference of a query | `QueryPipeline` instantiated with only the readable part of the store |
| `System` | a question asked of the index ingestion is writing | the variables of `Ingestion` and of a query |
| `*_proofs` | the theorems | |
| `MC*` | constants for TLC | |

How the parts compose. `CdaRows` is the specification `MergeRows` is checked and proved
against, and at the same time the merge step inside `Ingestion`, so that a theorem about
one carries over to the other. `OpenSearchCalls` implements `StoreCalls`: a deletion spares
only chunks of uploads that overlap it. That is the deletion `Ingestion` has, and
`Ingestion` implements `IndexPromise` with it. `Access` is shared by `VectorStores` and
`QueryPipeline`. `QueryPipeline`'s `ChangeStore` stands for whatever happens to the store
between two steps of a query; `System` puts `Ingestion` in its place and implements
`QueryPipeline`, so the theorems about every store history hold for the one ingestion
produces.

### Reading the models against the code

*Ingestion.* `CommitAnnounced`, `CommitRejected` and `CommitUnrouted` are a batch whose event
is accepted, refused by `put_events` (the simulator subtracts those and never retries), or
not matched by the rule. `Receive` starts an invocation, `Skip` is the two early returns,
`ReadAndMerge` reads and merges, then each tombstone is one `DeleteDocument`, `Embed` is the
embedding call, and each action of the bulk request is one `WriteChunk`. An invocation can
stop anywhere. `Fail` stops it between two requests, or with one that has ended: what was
written stays. `TimeOut` stops it with a request under way, which the cluster carries out all
the same (`StrayWrite`, `StrayDelete`): soon, after other invocations' requests, or never.
Either way the delivery is queued again until its attempts run out. With `Sequential`, the
actions are those of the CLI's `seed` loop: one batch at a time, oldest first, and nothing
after an exception until that batch is ingested.

The store of `Ingestion` is OpenSearch, on the bus and in the loop. What the loop does to the
local store's pickle, and what a save that is cut off loses there, is the subject of
`CliRuns`: nothing `Ingestion` shows carries over to it.

`DeleteDocument` removes the document's chunks except some of batches whose bulk write is, or
may still be, under way; `abandoned` keeps the batches for which nobody can tell.

*OpenSearch.* A call is a record: its step, the items its request has not performed yet, what
its delete_by_query found. `Exists` and `Create` are `_ensure_index`; `IndexItem`,
`RejectItem` and `BulkDone` are the bulk request; `FindHits`, `DeleteHit` and `DeleteDone` are
the deletion, whose hits are compared with what is there by the call that wrote it, as
OpenSearch compares versions. `TimeOut` ends the caller and not the request it sent.

*Processes.* `MakeFolder`, `OpenParquet` and `CloseParquet` are `_write_parquet`,
`PublishManifest` the end of `generate`. `Load` is the constructor of the store, `ReadBatch`
the read and merge of a batch, and each `DeleteDocument` or `Upsert` opens the pickle file,
which empties it, before `WritePickle` writes it. `due` is a history variable: what the
calls since the last load should have left in the file.

*Chunks.* A text is the number of chunks it is cut into (`size`); a chunk carries the batch
its text comes from (`src`), which is how versions are told apart.

*Stores.* A keyword field of OpenSearch is the set of its values; `term` and `terms` match
when the clause's values meet the field's. Embeddings and scores are left out of
`VectorStores`: which chunks take part is decided before scoring.

*Query.* A passage stands for a chunk's text. How similar it is to a sub-query, whether it
carries an injection and which passages support a sentence are given as constants or chosen
freely; the code's decisions on top of them are all there: expansion, the merge by strongest
score, the stable sort, the limits, the dropped markers, the score's two zero cases, the
threshold (compared by cross-multiplication), the abstention, the record. `Fail` may happen
in any node. `Exact = FALSE` lets the k-NN search miss chunks. The Rerank API may return an
index twice: `rerank` does not look.

*Echo model.* With `Llm = "local"` replies are those `EchoLLM` makes of the prompt. A passage's
later lines are given by the number they begin with, if any (`Lines`). `StartBlocks` says which
lines its pattern takes for the start of a block: each line that begins with a number, except one
that follows a bare number that starts a block, because the spaces the pattern takes after that
number take the line's start with them (`Swallowed`). The reply then marks each block's number,
and holds the `[i]` of a passage whose first line was swallowed; brackets inside the text that is
copied may add more (`StrayMarks`). A sentence may thus be marked with the number of a passage it
is not from; no property says otherwise, because nothing in the repository does.

### Slips

Definitions marked `Slip` are the plausible mistakes each property is tried against: a
property is kept only if replacing the definition after it by the slip makes TLC refute the
property. They are used by no specification. Examples: the bulk action without `_id`
(`AppendChunk`), evicting by document in every scope (`DeleteEverywhere`), a filter applied
after the k best are taken (`SearchThenFilter`), a swallowed exception (`FailSilently`).

## 3. What the runs show

| run | bounds | shows |
|---|---|---|
| `merge_batches` | up to 4 rows, 2 records, the change numbers 9 and 16 or none, ties, missing operation | latest state, one outcome per record (keys are symmetric: `merge_rows` only compares them); the row that wins as a string is the one with the largest number |
| `ingestion_events` | 2 workers, 2 batches out of 6 in two environments, 2 attempts, 1 repeated delivery, 1 batch whose requests outlive their callers | refinement of `IndexPromise`, one chunk per slot, no event forgotten and each settled, no passage of a completed record lost, no other namespace touched |
| `system` | 1 worker, 2 batches in order, 2 attempts, 1 batch whose requests outlive their callers; 1 question with 2 sub-queries, the echo model on passages that end in a bare number | what reaches a question is what CDA committed for its caller, and what was superseded before it was asked only as a leftover (below); tombstones stay honoured and the newest version is in the index, but for a request without a caller; answers cite all they were shown; the query implements `QueryPipeline` |
| `late_delivery` | 1 worker, 2 batches | a disagreement, see below |
| `shorter_text` | 1 worker, 2 batches, in order | a disagreement, see below |
| `chunker` | windows of 0..5, overlaps of -1..5, texts of 0..12 | coverage, numbering, overlap, termination |
| `vector_stores` | 4 scopes two of which share a namespace, 7 upserts and the empty one | equal and exact filtering in both stores |
| `query` | 5 chunks, any storable contents at any step, 2 callers one of them without roles, k = 2, 3 kinds of question, a zero vector, 4 replies, injections, reranker free, another query's record | only readable chunks and no influence of the others; what ships is grounded and logged; every query ends |
| `query_uncited` | 3 chunks, one kind of question, 6 replies, approximate search, no reranker | a disagreement, see below |
| `opensearch_calls` | 3 calls, 2 at a time, 3 chunks of 2 documents, 2 vector widths | overlapping calls act one after the other; no finished call is lost; every document is searchable |
| `cli_runs` | 3 commands, 2 at a time, a corpus of 2 batches, an older pickle file | a command alone loses nothing; seeding again repairs; manifests list whole batches |
| `uncommitted_read` | as `cli_runs` | a disagreement, see below |

**Why the bounds are enough for what they are meant to find.** Hazards of ingestion need two
invocations, a batch that writes and one that deletes or shortens the same record, and one failure
in between; a third batch or worker adds no new pair. The loop gets two batches for the same
reason, one of which deletes one record and writes another: delete, re-create, shorten and
restrict each occur as a pair. `MaxStrays = 1` lets any number of requests of one batch go on
without their caller, also after the batch was ingested again; a second such batch would only do
to the first what a batch that runs does. Of the change numbers, 9 and 16 are in numeric order,
and in string order only because of the leading zeros; with rows that carry none they give the
order three places, and four rows leave one record two rows after another one's. Retrieval needs
more readable chunks than `k`, and a chunk id with two versions of different ACLs, so that the
version may change between two sub-queries. Namespaces collide with two scopes. A deletion
conflicts with one upload; a third call is one that ended before, or begins after, both. Of
commands, one dies or overlaps, one overlaps it, and the third finds what they left. Where the
property is also proved, the bounds do not matter.

**Deadlock** is not checked: every modelled activity is a computation that ends (a merge, a
split, a query, a call, a command), or a feed that is allowed to stop.

**Fairness.** `Ingestion` assumes that the bus invokes the handler when something is queued
and that an invocation which can go on does, or fails: a Lambda always returns, raises or
times out (`lambda_timeout`). Nothing is assumed about CDA committing, about failures, or
about which delivery is taken. `QueryPipeline` assumes that a node that was entered goes on
or raises; the graph runs synchronously. `Chunker` assumes the loop keeps running. `QueryEnds`
holds although `ChangeStore` may happen for ever, because each node step stays enabled and
there are finitely many of them.

### Disagreements between code and documentation

- **A late batch undoes a deletion** (`late_delivery`). `contracts.py` 166-168 says a redacted
  claim must leave the index. Chunks are overwritten by id without comparing the sequence
  value `merge_rows` attaches to a Document, so a batch delivered or retried after a newer
  one's tombstone puts the record back, and nothing removes it later. The same run order
  also replaces a newer version by an older one. In order, one at a time, it happens only when a
  request of the older batch outlives its caller: `system` checks that.
- **An update that gets shorter leaves old passages** (`shorter_text`). `merge.py` 8 and
  `ingest.py` 140-141 promise latest state. An update does not call `delete_document`, so the
  last chunks of a longer version stay, with the old text and the old ACL. A caller whom the
  new ACL refuses may be shown them: that is the first case of `OnlyLeftoversShown` in `system`.
- **An answer without citations ships** (`query_uncited`). `prompt.py` 8-9 promises "an answer
  you can trace to a source, or no answer at all". The guardrail looks at the injection
  screen and the lexical score, not at the citations.
- **The read is not gated on the manifest** (`uncommitted_read`). `ingest.py` 6 calls the read
  "manifest-gated" and `source.py` 7-8 says only committed timestamps are trusted.
  `read_batch` reads whatever lies at the path, and `committed_timestamp` has no caller. A
  folder that `seed` has created and not written yet is ingested as an empty batch, with
  success.

## 4. What is proved

All theorems hold for every value of the constants the modules' `ASSUME`s allow: any number
of workers, batches, rows, scopes, chunks, attempts, replies, any `k` and any window.
The assumptions are type statements, plus two of substance:

- `StoresAssumption`: one `upsert` call has chunks of one scope with distinct ids
  (`ingest_batch` makes no other).
- `QueryAssumption`: other queries' callers differ from this one, so that its records can be
  told apart in the log. (`AskAssumption` of `System` only says what a question is and that
  its limits are numbers.)

That two scopes have different namespaces is not assumed anywhere: the code joins tenant and
environment by `__` and validates neither. What ingestion leaves alone is therefore stated of
namespaces, and what retrieval returns is stated of scopes and holds when namespaces collide.

The theorems about the CLI's loop and the one about leftovers have hypotheses of their own.
`Sequential` is how the loop runs: one batch after the other, in the feed's order.
`MaxRedeliveries = 0` says that no batch is ingested again once a later one is completed: `seed`
walks its batches once (a failed one is retried before the next), but an operator may still
run `own-overview ingest` on an older one. Neither can be dropped: TLC refutes
`TombstoneHonoured`, `LatestStateWritten` and `OnlyLeftoversShown` on the instance of
`system` as soon as one delivery may be repeated, and on the event bus `late_delivery` and
`shorter_text` are just that. They are about the loop over OpenSearch: on the local store a
save that is cut off empties the file, and the next load takes that for an empty store
(`LoneWriterKeepsAll` and `SeedHeals` of `CliRuns` say what is left to rely on there).

| theorems | argument |
|---|---|
| `MergeTypeCorrect`, `MergeHoldsLatest`, `MergeReturnsLatest`, `MergeOneOutcome` | `HoldsLatest` is not inductive alone. The invariant adds that `keys` lists the keys of `latest` once each, and that the output lists are what the first `j` of them give. At the end, `latest` picks exactly `CdaRows!Winners`, one for each key. |
| `TypeCorrect`, `SlotsUnique`, `EventsKept` | Direct, with types. `SlotsUnique` needs only that a write first clears its slot. |
| `WorkersHoldOwnBatch`, `Refinement`, `IndexProvenance` | An index step is justified only because whoever takes it acts for its own batch: a worker holds its batch's evictions and chunks (`WorkersHold`), and so does a request that outlived it (`StraysHold`). With both each action maps to `Publish`, `Put`, `Evict` or a stutter. `IndexProvenance` is then an invariant of the abstract index. |
| `NothingLost` | `CompletedRecordsPresent` needs to know how `done` came about: what a worker no longer holds of its batch has been written (`WrittenChunksPresent`), and a passage, once present or tombstoned, remains so under every worker's steps (`PresentStays`). |
| `NamespacesIsolated` | From `WorkersHold` and `StraysHold`: a chunk leaves by an eviction of its document or a write to its slot, and both come from a batch of that namespace whose rows have that key (`OutputIsMention`). |
| `LoopHonoursTombstones`, `LoopWritesLatestState` | Neither is inductive: a tombstone holds because no older batch can still be at work. `LoopOrder`: one batch is at work, and none started or done is newer than it. `StartedKnown`: what is in the index comes from a started batch. `HalfDone`: what the batch at work no longer has to evict is out, and what it no longer has to write is in. `NothingStale`: no chunk outlives a later completed batch that evicts its document or writes its slot, unless its batch is `abandoned`. The batch that completes is then the last word on its own keys, and every other key keeps the one it had. A request without a caller can undo a newer batch only on a document its own batch speaks of, which is what `Overtaken` says. |
| `FactsWhole`, `PiecesInOrder` | The invariant gives piece `n` in closed form, `from = (n - 1) * Step`. A run of at most `overlap + 1` characters starts in some step and ends before that piece does. |
| `StoresEquivalent`, `Isolated`, `Complete`, `HitsDistinct` | The two representations hold the same chunks, an OpenSearch document's index exists, and each chunk is filed under its own namespace and id. The compiled filter is equivalent to the predicate, clause by clause. |
| `OnlyReadableReached` | `Readable` adds that everything in flight (hits, best, candidates, context, citations) may be read, so that a later change of the store does not matter. |
| `ShippedAnswersGrounded`, `RolelessGetNoAnswer` | `Guarded` records what the guardrail decided until the answer is returned; without readable chunks the context is empty and the score is 0. |
| `AnswersLogged` | `Logged`: no record of the caller before the audit step, exactly one after it. |
| `ContextSound` | `Merged`: `best` has one entry for each chunk id; the sort is a permutation of it. What the Rerank API chooses is taken from it entry by entry, so a passage that comes twice is the same chunk. |
| `NoInfluence` | A refinement: the query's steps on the whole store are its steps on the readable part, because the filter is applied before the k best are taken. |
| `QueryTypeCorrect` | Direct: a search's hits come from the store, the merge and the sort return chunks of their arguments. |
| `CallsTypeCorrect`, `DeletionsTakeEffect`, `UploadsAreKept`, `SearchesCatchUp`, `IndexStaysSearchable`, `RetryGetsPastTheRace` | One invariant. `VersionsWritten`: what the index, the search view and a deletion's hits hold was written by the upsert it names, with the mapping's width. `MappingKnown`: a call that writes knows a mapping; one that would still create it began after no call that has seen one. `Refreshed`: the view is behind only where a call is under way. `DeletionsFind`: a deletion that has searched still holds every chunk written by a call that had ended before it began. `UploadsStay`: what a successful upsert wrote is there, unless a call that did not end before it touches it. |
| `CallsActAtOnce` | A refinement of `StoreCalls`, in which each call is one step. The mapping has to say when: a chunk that a deletion has found and can still delete counts as already gone (`Doomed`), so a deletion acts when it searches and an upload when it writes. |
| `RunsTypeCorrect`, `ManifestIsHonest`, `LoneRunLosesNothing`, `SeedRepairs` | `ClosedIsWhole`: a folder is whole if the last run to open its file has closed it, and the manifest names only runs that have closed all of theirs. `AloneIsAlone`: while the last command runs alone no other is alive; `LoneFolders`, `LoneMemory` and `LoneCorpus` say what it therefore finds in the folders, the pickle file and its own memory. |
| `QueryImplemented` | The steps of `System` that ask are those of `QueryPipeline`, and an ingestion step is its `ChangeStore`. For that the index has to be a store the query knows: each chunk of a scope is there once (`SlotsUnique`), and its contents are what CDA can commit (`IndexProvenance`). `WritePath` carries both through the query's steps, which leave ingestion alone. |
| `ShownWasCommitted` | `Seen`: whatever is in flight in a query passed the filter when it was found and was then justified by a committed batch. |
| `EchoAnswersCite` | Each passage's first line begins with its number. It starts a block, and then the block is marked with that number; or the line before it was a bare number that started one, and then its `[i]` is part of the sentence that block copies (`EchoMarks`). Nothing is assumed of the passages' other lines. |
| `OnlyLeftoversReached` | `SeenCurrent`: what is in flight and was superseded by a batch done before the question is beyond that batch's version of the record, or of an abandoned batch. What a search adds later comes from the index, where `NothingStale` of the loop says the same of every completed batch. |

**Checked only.** Liveness: `EveryEventSettles`, `SplitReturns` and `QueryEnds` rest on fairness,
hence on ENABLED, which is outside the prover's reach. `NewestNumberWins` is checked only for
another reason: it needs that strings of one length compare as the numbers they print, an
induction over the digits. Every other invariant, action property and refinement of the passing
runs is a theorem. What `merge_rows`, the splitter and the loops of `retrieve` compute is proved
by invariants of the loop, not by induction over the data, for which the installed provers have no
usable rule. Conversely `HoldsLatest`, `NeighboursOverlap`, `HitsHaveDistinctIds` and the type
invariants of `MergeRows`, `Ingestion`, `Chunker` and `VectorStores` are proved, for every
instance, and no run repeats them (the last two theorems are `ChunkerTypes` and `StoresTyped`).

## 5. What is simplified, and what is left out

- Two scopes whose ids collide under `__` share an index, and ingesting one can evict and
  overwrite the other's chunks. `NamespaceIsolation` allows it, as the code does; only retrieval
  is shown to keep such scopes apart (`vector_stores`).
- `OpenSearchCalls` has one index. Calls on different scopes share nothing but the cluster.
- Documents are written by id, so `_version` conflicts of index actions do not arise; the
  compiled filter does not depend on the order of calls and is checked in `VectorStores`.
- A manifest is written in one step, because nothing reads it. `query` and `CliRuns` share only
  `Load`. Parquet files are deterministic: two seeds write the same bytes.
- Whether a copied sentence of the echo model's holds up is a free choice. When the last one ends
  in a full stop its marker counts as a sentence of its own, unsupported: with a single passage the
  score is then at most one half, and the graph abstains. A piece cut at `chunk_size` has no full
  stop, and ships.
- Sequence values are places in the string order the code compares by. `SeqValues` says which
  numbers have which place, for numbers printed as the simulator prints them.
- The Rerank API returns indexes into what it was sent.
- The `query` run searches exactly; the theorems cover approximate search too.
- Embeddings, the language model, and PII patterns are abstract or absent. `redact_pii` only
  changes wording.
- The groundedness threshold is a rational number. Scores are natural numbers, which keeps
  order and ties.
- `guardrails.run` without an answer cannot happen in this graph and has no action.

**Not modelled.** Embedders and the Bedrock model adapter compute numbers and text or call a
service; their outcomes are constants or free choices. `config.py` builds objects and keeps no
state; `security/identity.py` only builds the record `Access!Identity` stands for. `sample_data`
is data, `bootstrap_localstack.sh` and most of `main.tf` are deployment. `LocalCdaSource.manifest`
and `committed_timestamp` are never called. `redact_pii` and printing are wording.

## 6. Plan

Done: the merge, the write path over the event bus and over the CLI's loop, the chunker, the
filter and the two stores, overlapping store calls, processes sharing a disk, the query graph,
and the query graph over the index that ingestion writes.

Left:

1. Entries that `put_events` rejects (`CommitRejected`): nothing in the repository says what
   should become of them.
2. Theorems without a run: what the bus guarantees short of order, for instance that a key on
   which all committed batches agree is stored right in the end whatever the deliveries.
