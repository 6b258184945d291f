--------------------------- MODULE QueryPipeline ---------------------------
(***************************************************************************)
(* One run of the query graph (pipeline/graph.py): fan_out, retrieve,      *)
(* rerank, ground, guardrails, audit, over a vector store that ingestion   *)
(* keeps changing and an audit log that other queries write to.            *)
(*                                                                         *)
(* A passage stands for a chunk's text.  What depends on texts is given:   *)
(* how similar a passage is to a sub-query, which passages carry an        *)
(* injection payload, and what the language model may reply.               *)
(***************************************************************************)
EXTENDS Access, Integers, Sequences, FiniteSets

CONSTANTS
    ChunkIds, Passages,
    Chunks,           \* the chunks ingestion may store
    Callers,          \* the identities that ask
    Questions,        \* the kinds of question asked
    Similarity,       \* score of a passage against a sub-query
    NullQueries,      \* sub-queries whose embedding is the zero vector
    Tainted,          \* passages screen_injection flags
    Wordless,         \* passages without content words
    Lines,            \* the lines of a passage after its first
    StrayMarks,       \* numbers texts and questions have in brackets
    Replies,          \* what the language model may answer
    Llm,              \* "bedrock" or "local"
    RetrieveK, RerankK,
    ThresholdNum, ThresholdDen,   \* groundedness_threshold
    Exact,            \* the local store's search, not approximate k-NN
    Reranker,         \* "none" or "bedrock"
    OtherRecords,     \* audit records other queries write
    MaxOthers,        \* bound on the log while they do
    Abstention,       \* _ABSTAIN_MESSAGE
    NoAnswer,         \* the state has no answer yet
    NoScore           \* Answer.groundedness is None

Chunk == [id : ChunkIds, scope : Scope, doc_type : DocTypes,
          acl : SUBSET Roles, passage : Passages]

(* Sub-queries: the question, its keywords, "details and explanation       *)
(* about" its keywords.                                                    *)
Variants == {"question", "keywords", "details"}

QuestionKinds == {"blank", "no keywords", "only keywords", "sentence"}

(* A sentence of the reply with content words, or without (not checked),   *)
(* and the passages that hold half of them or more.                        *)
Sentence == [checked : BOOLEAN, drawn : SUBSET (Passages \ Wordless)]

Unnumbered == -1

(* The number a line begins with, as "3. ", "3) " or "[3] ", if any, and   *)
(* whether nothing follows it on the line.                                 *)
Line == [lead : Nat \cup {Unnumbered}, bare : BOOLEAN]

Reply == [sentences : Seq(Sentence), markers : Seq(Nat)]

Hit == [chunk : Chunk, score : Nat]

Score == [supported : Nat, checked : Nat \ {0}]

Citation == [marker : Nat, chunk : Chunk]

Answer == [text : Replies \cup {Abstention}, citations : SUBSET Citation,
           groundedness : Score \cup {NoScore}, abstained : BOOLEAN]

AuditRecord == [caller : Identity, ids : Seq(ChunkIds),
                groundedness : Score \cup {NoScore}, abstained : BOOLEAN]

ASSUME QueryAssumption ==
    /\ Chunks \subseteq Chunk
    /\ Callers \subseteq Identity
    /\ Questions \subseteq QuestionKinds
    /\ Similarity \in [Variants -> [Passages -> Nat]]
    /\ Replies \subseteq Reply
    /\ Lines \in [Passages -> Seq(Line)]
    /\ StrayMarks \subseteq Nat
    /\ RetrieveK \in Nat /\ RerankK \in Nat
    /\ ThresholdNum \in Nat /\ ThresholdDen \in Nat \ {0}
    /\ OtherRecords \subseteq AuditRecord
    /\ \A r \in OtherRecords : r.caller \notin Callers
    /\ MaxOthers \in Nat
    /\ NoAnswer \notin Answer

VARIABLES
    store,        \* the chunks in the vector store
    me,           \* state["identity"]
    question,     \* the kind of state["question"]
    pc,
    queries,      \* sub-queries left to search for
    hits,         \* what the last search returned, not looked at yet
    best,         \* `best` of retrieve.run, in insertion order
    candidates,
    reranked,
    answer,
    log           \* the audit log

progress == <<question, queries, hits, best, candidates>>
vars == <<store, me, pc, progress, reranked, answer, log>>

Elements(s) == {s[i] : i \in DOMAIN s}

SequencesUpTo(S, n) == UNION {[1 .. m -> S] : m \in 0 .. n}

(* What a store may hold: a scope's chunk_id names one chunk.              *)
Storable(S) == \A c, d \in S : c.scope = d.scope /\ c.id = d.id => c = d

Contents == {S \in SUBSET Chunks : Storable(S)}

Init ==
    /\ store \in Contents
    /\ me \in Callers
    /\ question \in Questions
    /\ pc = "fan_out"
    /\ queries = <<>> /\ hits = <<>> /\ best = <<>> /\ candidates = <<>>
    /\ reranked = <<>>
    /\ answer = NoAnswer
    /\ log = <<>>

-----------------------------------------------------------------------------
(* The environment: ingestion upserts and deletes, other queries log.      *)

ChangeStore ==
    /\ store' \in Contents
    /\ UNCHANGED <<me, pc, progress, reranked, answer, log>>

OtherQueryLogs ==
    /\ Len(log) < MaxOthers
    /\ \E r \in OtherRecords : log' = Append(log, r)
    /\ UNCHANGED <<store, me, pc, progress, reranked, answer>>

-----------------------------------------------------------------------------
(* fan_out.  A question of stop words only has no keyword variants; one    *)
(* that is its own keywords has no keyword-only variant.                   *)

Expand(q) ==
    CASE q = "blank"         -> <<>>
      [] q = "no keywords"   -> <<"question">>
      [] q = "only keywords" -> <<"question", "details">>
      [] q = "sentence"      -> <<"question", "keywords", "details">>

FanOut ==
    /\ pc = "fan_out"
    /\ queries' = Expand(question)
    /\ pc' = "retrieve"
    /\ UNCHANGED <<store, me, question, hits, best, candidates, reranked, answer, log>>

-----------------------------------------------------------------------------
(* retrieve.                                                               *)

(* Slip: the roles are left to a later node.                               *)
MatchesOfScope == {c \in store : c.scope = me.scope}

Matches == {c \in store : PassesFilter(c, BuildFilter(me, NoNarrowing))}

HitFor(q, c) == [chunk |-> c, score |-> Similarity[q][c.passage]]

Descending(s) == \A i, j \in DOMAIN s : i < j => s[i].score >= s[j].score

Distinct(s) == \A i, j \in DOMAIN s : s[i] = s[j] => i = j

(* The k best of the matching chunks, in any order among equal scores; an  *)
(* approximate search may miss some.                                       *)
TopHits(all) ==
    {s \in SequencesUpTo(all, RetrieveK) :
        /\ Descending(s) /\ Distinct(s)
        /\ Exact =>
            /\ Len(s) = RetrieveK \/ Elements(s) = all
            /\ \A h \in all \ Elements(s) : \A i \in DOMAIN s : h.score <= s[i].score}

(* Slip: the filter is applied to the k best of all.                       *)
SearchThenFilter(q) ==
    IF q \in NullQueries
      THEN {<<>>}
      ELSE {SelectSeq(s, LAMBDA h : PassesFilter(h.chunk, BuildFilter(me, NoNarrowing))) :
              s \in TopHits({HitFor(q, c) : c \in store})}

SearchResults(q) ==
    IF q \in NullQueries THEN {<<>>} ELSE TopHits({HitFor(q, c) : c \in Matches})

(* Slip: a sub-query without hits is searched again.                       *)
SearchUntilHit ==
    /\ pc = "retrieve"
    /\ hits = <<>>
    /\ queries # <<>>
    /\ hits' \in SearchResults(Head(queries))
    /\ queries' = IF hits' = <<>> THEN queries ELSE Tail(queries)
    /\ UNCHANGED <<store, me, question, pc, best, candidates, reranked, answer, log>>

Search ==
    /\ pc = "retrieve"
    /\ hits = <<>>
    /\ queries # <<>>
    /\ hits' \in SearchResults(Head(queries))
    /\ queries' = Tail(queries)
    /\ UNCHANGED <<store, me, question, pc, best, candidates, reranked, answer, log>>

Stronger(h, i) == best[i].chunk.id = h.chunk.id /\ h.score > best[i].score

(* Slip: hits are collected without merging.                               *)
KeepEvery ==
    /\ pc = "retrieve"
    /\ hits # <<>>
    /\ best' = Append(best, Head(hits))
    /\ hits' = Tail(hits)
    /\ UNCHANGED <<store, me, question, pc, queries, candidates, reranked, answer, log>>

(* A chunk_id seen before keeps its place, and its hit unless this one is  *)
(* stronger.                                                               *)
KeepBest ==
    /\ pc = "retrieve"
    /\ hits # <<>>
    /\ best' = IF \E i \in DOMAIN best : best[i].chunk.id = Head(hits).chunk.id
                 THEN [i \in DOMAIN best |->
                         IF Stronger(Head(hits), i) THEN Head(hits) ELSE best[i]]
                 ELSE Append(best, Head(hits))
    /\ hits' = Tail(hits)
    /\ UNCHANGED <<store, me, question, pc, queries, candidates, reranked, answer, log>>

(* sorted(..., reverse=True) is stable: equal scores stay in order.        *)
SortedOrders(s) ==
    {p \in [DOMAIN s -> DOMAIN s] :
        \A i, j \in DOMAIN s : i < j =>
            \/ s[p[i]].score > s[p[j]].score
            \/ s[p[i]].score = s[p[j]].score /\ p[i] < p[j]}

SortCandidates ==
    /\ pc = "retrieve"
    /\ hits = <<>> /\ queries = <<>>
    /\ \E p \in SortedOrders(best) : candidates' = [i \in DOMAIN best |-> best[p[i]]]
    /\ pc' = "rerank"
    /\ UNCHANGED <<store, me, question, queries, hits, best, reranked, answer, log>>

-----------------------------------------------------------------------------
(* rerank: the first rerank_k candidates, as NoopReranker keeps them and   *)
(* as BedrockReranker falls back to after any error; or those the Rerank   *)
(* API picks, by indexes into what it was sent that nothing keeps from     *)
(* repeating.                                                              *)

RerankLimit == IF Len(candidates) < RerankK THEN Len(candidates) ELSE RerankK

FirstCandidates == {[i \in 1 .. RerankLimit |-> candidates[i].chunk]}

ChosenCandidates ==
    {[i \in DOMAIN f |-> candidates[f[i]].chunk] :
        f \in SequencesUpTo(DOMAIN candidates, RerankLimit)}

Rerank ==
    /\ pc = "rerank"
    /\ reranked' \in FirstCandidates \cup (IF Reranker = "bedrock" THEN ChosenCandidates ELSE {})
    /\ pc' = "ground"
    /\ UNCHANGED <<store, me, progress, answer, log>>

-----------------------------------------------------------------------------
(* ground: from a real model any reply may come back, whatever the         *)
(* passages were; markers that point outside them are dropped.             *)

(* Slip: the passages are numbered from 0.                                 *)
PromptLineFromZero(i, l) ==
    IF l = 0 THEN [lead |-> i - 1, bare |-> FALSE] ELSE Lines[reranked[i].passage][l]

(* The prompt's lines: passage i's first one is "[i] (source id) ...".     *)
PromptLine(i, l) ==
    IF l = 0 THEN [lead |-> i, bare |-> FALSE] ELSE Lines[reranked[i].passage][l]

LastLine(i) == Len(Lines[reranked[i].passage])

Places == UNION {{i} \X ({0} \cup DOMAIN Lines[reranked[i].passage]) : i \in DOMAIN reranked}

Follows(p, q) ==
    \/ p[1] = q[1] /\ p[2] = q[2] + 1
    \/ p[1] = q[1] + 1 /\ p[2] = 0 /\ q[2] = LastLine(q[1])

(* EchoLLM takes every line that begins with a number for the start of a   *)
(* block, but for one after a bare number that starts a block: the spaces  *)
(* the pattern takes after that number take the line's start with them.    *)
Swallowed(p, starts) ==
    \E q \in starts : Follows(p, q) /\ PromptLine(q[1], q[2]).bare

StartBlocks(starts) ==
    \A p \in Places :
        p \in starts <=> PromptLine(p[1], p[2]).lead # Unnumbered /\ ~ Swallowed(p, starts)

(* What the reply marks for certain: each block's first sentence is        *)
(* followed by the block's number, and a passage's swallowed first line    *)
(* opens such a sentence, with its "[i]".                                  *)
Marked(starts) ==
    {PromptLine(p[1], p[2]).lead : p \in starts}
    \cup {p[1] : p \in {r \in Places : r[2] = 0 /\ Swallowed(r, starts)}}

(* EchoLLM's reply.  The sentences copied, and the question's lines, may   *)
(* have numbers of their own.  Whatever the scorer takes for a sentence    *)
(* holds a source id or a number.                                          *)
Echoes(reply) ==
    /\ \E starts \in SUBSET Places :
        /\ StartBlocks(starts)
        /\ Marked(starts) \subseteq Elements(reply.markers)
        /\ Elements(reply.markers) \subseteq Marked(starts) \cup StrayMarks
    /\ reply.sentences # <<>>
    /\ \A i \in DOMAIN reply.sentences : reply.sentences[i].checked

(* Slip: markers are counted from 0.                                       *)
ParseCitationsFromZero(reply) ==
    {[marker |-> n, chunk |-> reranked[n + 1]] :
        n \in {m \in Elements(reply.markers) : m + 1 \in DOMAIN reranked}}

ParseCitations(reply) ==
    {[marker |-> n, chunk |-> reranked[n]] : n \in Elements(reply.markers) \cap DOMAIN reranked}

(* Slip: an empty reply leaves no answer on the state.                     *)
GroundNothing ==
    /\ pc = "ground"
    /\ pc' = "guardrails"
    /\ UNCHANGED <<store, me, progress, reranked, answer, log>>

Ground ==
    /\ pc = "ground"
    /\ \E reply \in Replies :
         /\ Llm = "local" => Echoes(reply)
         /\ answer' = [text |-> reply, citations |-> ParseCitations(reply),
                    groundedness |-> NoScore, abstained |-> FALSE]
    /\ pc' = "guardrails"
    /\ UNCHANGED <<store, me, progress, reranked, log>>

-----------------------------------------------------------------------------
(* guardrails.                                                             *)

PassagesUsed == {c.passage : c \in Elements(reranked)}

CheckedIn(reply) == {i \in DOMAIN reply.sentences : reply.sentences[i].checked}

SupportedIn(reply) ==
    {i \in CheckedIn(reply) : reply.sentences[i].drawn \cap PassagesUsed # {}}

(* Slip: nothing to check counts as all supported.                         *)
ScoreOfUnchecked(reply) ==
    IF CheckedIn(reply) = {}
      THEN [supported |-> 1, checked |-> 1]
      ELSE [supported |-> Cardinality(SupportedIn(reply)),
            checked   |-> Cardinality(CheckedIn(reply))]

(* Nothing to stand on, or nothing to check: 0.0.                          *)
ScoreOf(reply) ==
    IF PassagesUsed \subseteq Wordless \/ CheckedIn(reply) = {}
      THEN [supported |-> 0, checked |-> 1]
      ELSE [supported |-> Cardinality(SupportedIn(reply)),
            checked   |-> Cardinality(CheckedIn(reply))]

BelowThreshold(score) == score.supported * ThresholdDen < ThresholdNum * score.checked

InjectionInContext == PassagesUsed \cap Tainted # {}

(* Slip: the context is not screened.                                      *)
AbstainsOnScore(reply) == BelowThreshold(ScoreOf(reply))

Abstains(reply) == InjectionInContext \/ BelowThreshold(ScoreOf(reply))

Guardrails ==
    /\ pc = "guardrails"
    /\ answer' = IF Abstains(answer.text)
                   THEN [text |-> Abstention, citations |-> {},
                         groundedness |-> ScoreOf(answer.text), abstained |-> TRUE]
                   ELSE [answer EXCEPT !.groundedness = ScoreOf(answer.text)]
    /\ pc' = "audit"
    /\ UNCHANGED <<store, me, progress, reranked, log>>

-----------------------------------------------------------------------------
(* audit, and what the caller gets: the answer, or an exception.           *)

RecordOf ==
    [caller |-> me, ids |-> [i \in DOMAIN reranked |-> reranked[i].id],
     groundedness |-> answer.groundedness, abstained |-> answer.abstained]

(* Slip: an error of the log is swallowed.                                 *)
AuditBestEffort ==
    /\ pc = "audit"
    /\ log' \in {log, Append(log, RecordOf)}
    /\ pc' = "audited"
    /\ UNCHANGED <<store, me, progress, reranked, answer>>

Audit ==
    /\ pc = "audit"
    /\ log' = Append(log, RecordOf)
    /\ pc' = "audited"
    /\ UNCHANGED <<store, me, progress, reranked, answer>>

Return ==
    /\ pc = "audited"
    /\ pc' = "answered"
    /\ UNCHANGED <<store, me, progress, reranked, answer, log>>

(* Embedding, searching, the language model or the log file raises, or the *)
(* process dies: no node catches it, and the caller gets no answer.        *)
Fail ==
    /\ pc \notin {"answered", "failed"}
    /\ pc' = "failed"
    /\ UNCHANGED <<store, me, progress, reranked, answer, log>>

Node ==
    \/ FanOut \/ Search \/ KeepBest \/ SortCandidates
    \/ Rerank \/ Ground \/ Guardrails \/ Audit \/ Return

Next == Node \/ Fail \/ ChangeStore \/ OtherQueryLogs

Safety == Init /\ [][Next]_vars

(* A node that has been entered runs to its end or raises.                 *)
Spec == Safety /\ WF_vars(Node)

-----------------------------------------------------------------------------
TypeOK ==
    /\ store \in Contents
    /\ me \in Callers /\ question \in Questions
    /\ pc \in {"fan_out", "retrieve", "rerank", "ground", "guardrails",
               "audit", "audited", "answered", "failed"}
    /\ queries \in Seq(Variants)
    /\ hits \in Seq(Hit) /\ best \in Seq(Hit) /\ candidates \in Seq(Hit)
    /\ reranked \in Seq(Chunk)
    /\ answer \in Answer \cup {NoAnswer}
    /\ log \in Seq(AuditRecord)
    /\ pc \in {"guardrails", "audit", "audited", "answered"} => answer # NoAnswer

(* Whatever was searched, merged, sorted, reranked, shown to the model or  *)
(* cited, the caller may read: the filter at retrieval is enough, however  *)
(* the store changes and whatever the reranker and the model do            *)
(* (retrieve.py 3-6).                                                      *)
Shown ==
    {h.chunk : h \in Elements(hits) \cup Elements(best) \cup Elements(candidates)}
    \cup Elements(reranked)
    \cup (IF answer = NoAnswer THEN {} ELSE {c.chunk : c \in answer.citations})

OnlyReadableShown == \A c \in Shown : MayRead(me, c)

(* Candidates come strongest first, one per chunk_id, although the store   *)
(* may change between two searches; the context is drawn from them, within *)
(* the budget and, unless the Rerank API repeats one, without repeats.     *)
ContextWellFormed ==
    /\ Descending(candidates)
    /\ \A i, j \in DOMAIN candidates :
            candidates[i].chunk.id = candidates[j].chunk.id => i = j
    /\ Len(reranked) <= RerankK
    /\ Reranker = "none" => Distinct(reranked)
    /\ \A c \in Elements(reranked) : \E h \in Elements(candidates) : c = h.chunk

(* An answer that ships rests on passages, none of which carries an        *)
(* injection, reaches the threshold, and cites passages by the numbers the *)
(* model was shown; an abstention says and cites nothing of what was       *)
(* retrieved (guardrails.py 6-11, prompt.py 68-71).                        *)
AnswersGrounded ==
    pc = "answered" =>
        IF answer.abstained
          THEN answer.text = Abstention /\ answer.citations = {}
          ELSE /\ reranked # <<>> \/ ThresholdNum = 0
               /\ \A i \in DOMAIN reranked : reranked[i].passage \notin Tainted
               /\ ~ BelowThreshold(answer.groundedness)
               /\ \A c \in answer.citations :
                    c.marker \in DOMAIN reranked /\ reranked[c.marker] = c.chunk

(* A caller without roles never gets an answer: the filter lets nothing    *)
(* through, nothing supports the reply, and the guardrail abstains.        *)
NoRolesNoAnswer ==
    me.roles = {} /\ pc = "answered" /\ ThresholdNum > 0 => answer.abstained

MyRecords == {i \in DOMAIN log : log[i].caller = me}

(* Every answer returned is in the log exactly once, with the ids of the   *)
(* passages shown to the model and the decision; a failed query leaves one *)
(* record at most (audit.py 3-6).                                          *)
AnswersAudited ==
    /\ \A i, j \in MyRecords : i = j
    /\ pc = "answered" => \E i \in MyRecords : log[i] = RecordOf

(* A query ends, with an answer or an error, whatever ingestion does       *)
(* meanwhile.                                                              *)
QueryEnds == <>(pc \in {"answered", "failed"})

(* "an answer you can trace to a source, or no answer at all" (prompt.py   *)
(* 8-9): an answer that ships cites a passage.                             *)
TraceableOrNoAnswer ==
    pc = "answered" /\ ~ answer.abstained => answer.citations # {}

=============================================================================
