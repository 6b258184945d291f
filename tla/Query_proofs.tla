---------------------------- MODULE Query_proofs ----------------------------
(***************************************************************************)
(* The permission filter at retrieval is enough: for every store, ranking, *)
(* reranker and language model, a query handles only chunks its caller may *)
(* read, and the others have no influence on it.                           *)
(***************************************************************************)
EXTENDS QueryIsolation, SequenceTheorems, FiniteSetTheorems, TLAPS

(* What the filter lets through the caller may read.                       *)
LEMMA FilterSound ==
    ASSUME NEW identity, NEW c, PassesFilter(c, BuildFilter(identity, NoNarrowing))
    PROVE  MayRead(identity, c)
BY DEF PassesFilter, IsVisible, BuildFilter, MayRead

LEMMA MatchesReadable == \A c \in Matches : MayRead(me, c)
BY FilterSound DEF Matches

(* Every search, exact or not, returns hits for matching chunks only.      *)
LEMMA ResultsMatch ==
    ASSUME NEW q, NEW s \in SearchResults(q)
    PROVE  \E n \in Nat : /\ s \in [1 .. n -> {HitFor(q, c) : c \in Matches}]
<1> DEFINE all == {HitFor(q, c) : c \in Matches}
<1>1. CASE q \in NullQueries
  <2>1. s = <<>>
    BY <1>1 DEF SearchResults
  <2>2. <<>> \in Seq(all) /\ Len(<<>>) = 0
    BY EmptySeq
  <2>3. s \in [1 .. 0 -> all]
    BY <2>1, <2>2, LenProperties
  <2>4. QED
    BY <2>3
<1>2. CASE q \notin NullQueries
  BY <1>2, QueryAssumption DEF SearchResults, TopHits, SequencesUpTo
<1>3. QED
  BY <1>1, <1>2

-----------------------------------------------------------------------------
(* Nothing but readable chunks, in every part of the state.                *)
Readable ==
    /\ hits \in Seq(Hit) /\ best \in Seq(Hit) /\ candidates \in Seq(Hit)
    /\ reranked \in Seq(Chunk)
    /\ queries \in Seq(Variants)
    /\ store \in Contents /\ question \in Questions
    /\ \A i \in DOMAIN hits : MayRead(me, hits[i].chunk)
    /\ \A i \in DOMAIN best : MayRead(me, best[i].chunk)
    /\ \A i \in DOMAIN candidates : MayRead(me, candidates[i].chunk)
    /\ \A i \in DOMAIN reranked : MayRead(me, reranked[i])
    /\ pc \in {"guardrails", "audit", "audited", "answered"} => answer \in Answer
    /\ pc = "guardrails" => answer.text \in Replies /\ answer.abstained = FALSE
    /\ answer # NoAnswer => \A c \in answer.citations : MayRead(me, c.chunk)

LEMMA InitReadable == Init => Readable
BY QueryAssumption DEF Init, Readable

LEMMA SearchReadable == Readable /\ Search => Readable'
<1> SUFFICES ASSUME Readable, Search PROVE Readable'
  OBVIOUS
<1>1. Head(queries) \in Variants /\ queries' \in Seq(Variants)
  BY HeadTailProperties DEF Search, Readable
<1>2. Matches \subseteq Chunk
  BY QueryAssumption DEF Matches, Readable, Contents
<1>3. \A c \in Matches : HitFor(Head(queries), c) \in Hit /\ HitFor(Head(queries), c).chunk = c
  BY <1>1, <1>2, QueryAssumption DEF HitFor, Hit, Chunk
<1>4. PICK n \in Nat : hits' \in [1 .. n -> {HitFor(Head(queries), c) : c \in Matches}]
  BY ResultsMatch DEF Search
<1>5. hits' \in Seq(Hit)
  <2>1. hits' \in [1 .. n -> Hit]
    BY <1>3, <1>4
  <2>2. QED
    BY <2>1, SeqDef
<1>6. \A i \in DOMAIN hits' : MayRead(me, hits'[i].chunk)
  BY <1>3, <1>4, MatchesReadable
<1>7. QED
  BY <1>1, <1>5, <1>6 DEF Search, Readable, MayRead

LEMMA KeepBestReadable == Readable /\ KeepBest => Readable'
<1> SUFFICES ASSUME Readable, KeepBest PROVE Readable'
  OBVIOUS
<1> DEFINE h == Head(hits)
<1>1. /\ hits \in Seq(Hit) /\ hits # <<>> /\ best \in Seq(Hit)
      /\ UNCHANGED <<store, me, question, pc, queries, candidates, reranked, answer>>
  BY DEF KeepBest, Readable
<1>2. h \in Hit /\ MayRead(me, h.chunk)
  <2>1. 1 \in DOMAIN hits /\ h = hits[1]
    BY <1>1, EmptySeq
  <2>2. QED
    BY <1>1, <2>1 DEF Readable
<1>3. hits' \in Seq(Hit) /\ \A i \in DOMAIN hits' : MayRead(me, hits'[i].chunk)
  <2>1. hits' = Tail(hits)
    BY DEF KeepBest
  <2>2. /\ Tail(hits) \in Seq(Hit) /\ Len(Tail(hits)) = Len(hits) - 1
        /\ \A i \in 1 .. Len(Tail(hits)) : Tail(hits)[i] = hits[i + 1]
    BY <1>1, HeadTailProperties
  <2>3. \A i \in 1 .. Len(Tail(hits)) : i + 1 \in DOMAIN hits
    BY <1>1, <2>2
  <2>4. QED
    BY <2>1, <2>2, <2>3 DEF Readable
<1>4. best' \in Seq(Hit) /\ \A i \in DOMAIN best' : MayRead(me, best'[i].chunk)
  <2>1. CASE best' = [i \in DOMAIN best |-> IF Stronger(h, i) THEN h ELSE best[i]]
    <3>1. best' \in [1 .. Len(best) -> Hit] /\ Len(best) \in Nat
      BY <1>1, <1>2, <2>1
    <3>2. best' \in Seq(Hit)
      BY <3>1, SeqDef
    <3>3. QED
      BY <1>2, <2>1, <3>2 DEF Readable
  <2>2. CASE best' = Append(best, h)
    <3>1. /\ best' \in Seq(Hit) /\ DOMAIN best' = 1 .. Len(best) + 1
          /\ DOMAIN best = 1 .. Len(best) /\ Len(best) \in Nat
          /\ \A i \in 1 .. Len(best) : best'[i] = best[i]
          /\ best'[Len(best) + 1] = h
      BY <1>1, <1>2, <2>2, AppendProperties
    <3>2. \A i \in DOMAIN best' : i \in DOMAIN best \/ i = Len(best) + 1
      BY <3>1
    <3>3. QED
      BY <1>2, <3>1, <3>2 DEF Readable
  <2>3. QED
    BY <2>1, <2>2 DEF KeepBest
<1>5. QED
  BY <1>1, <1>3, <1>4 DEF Readable, MayRead

LEMMA SortReadable == Readable /\ SortCandidates => Readable'
<1> SUFFICES ASSUME Readable, SortCandidates PROVE Readable'
  OBVIOUS
<1>1. PICK p \in [DOMAIN best -> DOMAIN best] : candidates' = [i \in DOMAIN best |-> best[p[i]]]
  BY DEF SortCandidates, SortedOrders
<1>2. best \in Seq(Hit) /\ Len(best) \in Nat /\ DOMAIN best = 1 .. Len(best)
  BY DEF Readable
<1>3. candidates' \in [1 .. Len(best) -> Hit]
  BY <1>1, <1>2
<1>4. candidates' \in Seq(Hit)
  BY <1>2, <1>3, SeqDef
<1>5. \A i \in DOMAIN candidates' : MayRead(me, candidates'[i].chunk)
  BY <1>1 DEF Readable
<1>6. /\ UNCHANGED <<store, me, question, queries, hits, best, reranked, answer>>
      /\ pc' = "rerank"
  BY DEF SortCandidates
<1>7. QED
  BY <1>4, <1>5, <1>6 DEF Readable, MayRead

(* Whatever the reranker picks comes from the candidates.                  *)
LEMMA RerankedFrom ==
    ASSUME Readable, Rerank
    PROVE  \E n \in Nat : \E f \in [1 .. n -> DOMAIN candidates] :
             reranked' = [i \in 1 .. n |-> candidates[f[i]].chunk]
<1>1. RerankLimit \in Nat /\ \A i \in 1 .. RerankLimit : i \in DOMAIN candidates
  BY QueryAssumption DEF Readable, RerankLimit
<1>2. CASE reranked' \in FirstCandidates
  <2> DEFINE f == [i \in 1 .. RerankLimit |-> i]
  <2>1. f \in [1 .. RerankLimit -> DOMAIN candidates]
    BY <1>1
  <2>2. reranked' = [i \in 1 .. RerankLimit |-> candidates[f[i]].chunk]
    BY <1>2 DEF FirstCandidates
  <2>3. QED
    BY <1>1, <2>1, <2>2
<1>3. CASE reranked' \in ChosenCandidates
  <2>1. PICK f \in SequencesUpTo(DOMAIN candidates, RerankLimit) :
               reranked' = [i \in DOMAIN f |-> candidates[f[i]].chunk]
    BY <1>3 DEF ChosenCandidates
  <2>2. PICK n \in 0 .. RerankLimit : f \in [1 .. n -> DOMAIN candidates]
    BY DEF SequencesUpTo
  <2>3. n \in Nat /\ DOMAIN f = 1 .. n
    BY <1>1, <2>2
  <2>4. QED
    BY <2>1, <2>2, <2>3
<1>4. QED
  BY <1>2, <1>3 DEF Rerank

LEMMA RerankReadable == Readable /\ Rerank => Readable'
<1> SUFFICES ASSUME Readable, Rerank PROVE Readable'
  OBVIOUS
<1>1. PICK n \in Nat : \E f \in [1 .. n -> DOMAIN candidates] :
             reranked' = [i \in 1 .. n |-> candidates[f[i]].chunk]
  BY RerankedFrom
<1>2. PICK f \in [1 .. n -> DOMAIN candidates] :
             reranked' = [i \in 1 .. n |-> candidates[f[i]].chunk]
  BY <1>1
<1>3. \A i \in DOMAIN candidates : candidates[i] \in Hit /\ candidates[i].chunk \in Chunk
  <2>1. \A i \in DOMAIN candidates : candidates[i] \in Hit
    BY DEF Readable
  <2>2. QED
    BY <2>1 DEF Hit
<1>4. reranked' \in [1 .. n -> Chunk]
  BY <1>2, <1>3
<1>5. reranked' \in Seq(Chunk)
  BY <1>4, SeqDef
<1>6. \A i \in DOMAIN reranked' : MayRead(me, reranked'[i])
  BY <1>2 DEF Readable
<1>7. QED
  BY <1>5, <1>6 DEF Rerank, progress, Readable, MayRead

LEMMA GroundReadable == Readable /\ Ground => Readable'
<1> SUFFICES ASSUME Readable, Ground PROVE Readable'
  OBVIOUS
<1>1. PICK reply \in Replies :
          answer' = [text |-> reply, citations |-> ParseCitations(reply),
                     groundedness |-> NoScore, abstained |-> FALSE]
  BY DEF Ground
<1>2. DOMAIN reranked \subseteq Nat /\ \A n \in DOMAIN reranked : reranked[n] \in Chunk
  BY DEF Readable
<1>3. \A c \in ParseCitations(reply) : c \in Citation /\ MayRead(me, c.chunk)
  BY <1>2 DEF ParseCitations, Readable, Citation
<1>4. answer' \in Answer /\ answer'.citations = ParseCitations(reply)
  BY <1>1, <1>3 DEF Answer
<1>5. QED
  BY <1>3, <1>4 DEF Ground, progress, Readable, MayRead

LEMMA ScoreType == ASSUME NEW reply \in Replies PROVE ScoreOf(reply) \in Score
<1>1. reply.sentences \in Seq(Sentence)
  BY QueryAssumption DEF Reply
<1>2. IsFiniteSet(DOMAIN reply.sentences)
  BY <1>1, FS_Interval
<1>3. /\ IsFiniteSet(CheckedIn(reply)) /\ IsFiniteSet(SupportedIn(reply))
      /\ CheckedIn(reply) \subseteq DOMAIN reply.sentences
  BY <1>2, FS_Subset DEF CheckedIn, SupportedIn
<1>4. /\ Cardinality(CheckedIn(reply)) \in Nat /\ Cardinality(SupportedIn(reply)) \in Nat
      /\ CheckedIn(reply) # {} => Cardinality(CheckedIn(reply)) # 0
  BY <1>3, FS_CardinalityType, FS_EmptySet
<1>5. QED
  BY <1>4 DEF ScoreOf, Score

LEMMA GuardrailsReadable == Readable /\ Guardrails => Readable'
<1> SUFFICES ASSUME Readable, Guardrails PROVE Readable'
  OBVIOUS
<1>1. UNCHANGED <<store, me, question, queries, hits, best, candidates, reranked>>
  BY DEF Guardrails, progress
<1>2. answer \in Answer /\ ScoreOf(answer.text) \in Score
  BY ScoreType DEF Guardrails, Readable
<1>3. answer' \in Answer /\ answer'.citations \subseteq answer.citations
  BY <1>2 DEF Guardrails, Answer
<1>4. answer # NoAnswer
  BY <1>2, QueryAssumption
<1>5. /\ pc' = "audit"
      /\ \A c \in answer'.citations : MayRead(me, c.chunk)
  BY <1>3, <1>4 DEF Guardrails, Readable
<1>6. QED
  BY <1>1, <1>3, <1>5 DEF Readable, MayRead

LEMMA ExpandType == ASSUME NEW q \in QuestionKinds PROVE Expand(q) \in Seq(Variants)
<1>1. /\ <<>> \in Seq(Variants) /\ <<"question">> \in Seq(Variants)
      /\ <<"question", "details">> \in Seq(Variants)
      /\ <<"question", "keywords", "details">> \in Seq(Variants)
  BY DEF Variants
<1>2. Expand(q) \in {<<>>, <<"question">>, <<"question", "details">>,
                     <<"question", "keywords", "details">>}
  BY DEF Expand, QuestionKinds
<1>3. QED
  BY <1>1, <1>2

LEMMA NextReadable == Readable /\ [Next]_vars => Readable'
<1> SUFFICES ASSUME Readable, [Next]_vars PROVE Readable'
  OBVIOUS
<1>1. CASE FanOut
  <2>1. queries' \in Seq(Variants)
    BY <1>1, ExpandType, QueryAssumption DEF FanOut, Readable
  <2>2. QED
    BY <1>1, <2>1 DEF FanOut, Readable, MayRead
<1>2. CASE Audit \/ Return \/ Fail \/ OtherQueryLogs
  BY <1>2 DEF Audit, Return, Fail, OtherQueryLogs, progress, Readable, MayRead
<1>3. CASE ChangeStore
  BY <1>3 DEF ChangeStore, progress, Readable, MayRead
<1>4. CASE UNCHANGED vars
  BY <1>4 DEF vars, progress, Readable, MayRead
<1>5. QED
  BY <1>1, <1>2, <1>3, <1>4, SearchReadable, KeepBestReadable, SortReadable,
     RerankReadable, GroundReadable, GuardrailsReadable DEF Next, Node

LEMMA AlwaysReadable == Spec => []Readable
BY InitReadable, NextReadable, PTL DEF Spec, Safety

(* For every store, similarity, reranker and reply: what a query searches, *)
(* ranks, shows the model or cites, its caller may read.                   *)
THEOREM OnlyReadableReached == Spec => []OnlyReadableShown
<1>1. Readable => OnlyReadableShown
  <2> SUFFICES ASSUME Readable, NEW c \in Shown PROVE MayRead(me, c)
    BY DEF OnlyReadableShown
  <2>1. CASE \E h \in Elements(hits) \cup Elements(best) \cup Elements(candidates) : c = h.chunk
    BY <2>1 DEF Readable, Elements
  <2>2. CASE c \in Elements(reranked)
    BY <2>2 DEF Readable, Elements
  <2>3. CASE answer # NoAnswer /\ \E d \in answer.citations : c = d.chunk
    BY <2>3 DEF Readable
  <2>4. QED
    BY <2>1, <2>2, <2>3 DEF Shown
<1>2. QED
  BY <1>1, AlwaysReadable, PTL

-----------------------------------------------------------------------------
(* What the guardrails leave behind.                                       *)
Resolved(c) == c.marker \in DOMAIN reranked /\ reranked[c.marker] = c.chunk

Guarded ==
    /\ pc \in {"guardrails", "audit", "audited", "answered"} =>
         \A c \in answer.citations : Resolved(c)
    /\ pc \in {"audit", "audited", "answered"} =>
         \/ answer.abstained = TRUE /\ answer.text = Abstention /\ answer.citations = {}
         \/ /\ answer.abstained = FALSE
            /\ reranked # <<>> \/ ThresholdNum = 0
            /\ me.roles # {} \/ ThresholdNum = 0
            /\ \A i \in DOMAIN reranked : reranked[i].passage \notin Tainted
            /\ ~ BelowThreshold(answer.groundedness)

(* An empty context scores 0.0 and is below every threshold but zero.      *)
LEMMA EmptyContext ==
    ASSUME Readable, DOMAIN reranked = {}, NEW reply, ThresholdNum # 0
    PROVE  BelowThreshold(ScoreOf(reply))
<1>1. PassagesUsed = {}
  BY DEF PassagesUsed, Elements
<1>2. ScoreOf(reply) = [supported |-> 0, checked |-> 1]
  BY <1>1 DEF ScoreOf
<1>3. QED
  BY <1>2, QueryAssumption DEF BelowThreshold

LEMMA GuardrailsGuarded == Readable /\ Guarded /\ Guardrails => Guarded'
<1> SUFFICES ASSUME Readable, Guarded, Guardrails PROVE Guarded'
  OBVIOUS
<1>1. /\ pc = "guardrails" /\ pc' = "audit" /\ UNCHANGED <<me, reranked>>
      /\ answer \in Answer /\ answer.abstained = FALSE
      /\ \A c \in answer.citations : Resolved(c)
  BY DEF Guardrails, Readable, Guarded
<1>2. CASE Abstains(answer.text)
  <2>1. answer' = [text |-> Abstention, citations |-> {},
                   groundedness |-> ScoreOf(answer.text), abstained |-> TRUE]
    BY <1>2 DEF Guardrails
  <2>2. answer'.text = Abstention /\ answer'.citations = {} /\ answer'.abstained = TRUE
    BY <2>1
  <2>3. QED
    BY <1>1, <2>2 DEF Guarded
<1>3. CASE ~ Abstains(answer.text)
  <2>1. answer' = [answer EXCEPT !.groundedness = ScoreOf(answer.text)]
    BY <1>3 DEF Guardrails
  <2>2. /\ answer'.groundedness = ScoreOf(answer.text) /\ answer'.citations = answer.citations
        /\ answer'.abstained = answer.abstained
    BY <1>1, <2>1 DEF Answer
  <2>3. \A i \in DOMAIN reranked : reranked[i].passage \notin Tainted
    BY <1>3 DEF Abstains, InjectionInContext, PassagesUsed, Elements
  <2>4. DOMAIN reranked # {} \/ ThresholdNum = 0
    BY <1>3, EmptyContext DEF Abstains
  <2>5. DOMAIN reranked # {} => reranked # <<>>
    OBVIOUS
  <2>6. DOMAIN reranked # {} => me.roles # {}
    BY DEF Readable, MayRead
  <2>7. ~ BelowThreshold(answer'.groundedness)
    BY <1>3, <2>2 DEF Abstains
  <2>8. \A c \in answer'.citations : Resolved(c)'
    BY <1>1, <2>2 DEF Resolved
  <2>9. QED
    BY <1>1, <2>2, <2>3, <2>4, <2>5, <2>6, <2>7, <2>8 DEF Guarded, BelowThreshold
<1>4. QED
  BY <1>2, <1>3

LEMMA NextGuarded == Readable /\ Guarded /\ [Next]_vars => Guarded'
<1> SUFFICES ASSUME Readable, Guarded, [Next]_vars PROVE Guarded'
  OBVIOUS
<1>1. CASE FanOut \/ Search \/ KeepBest \/ SortCandidates \/ Rerank \/ Fail
  <2>1. pc' \in {"retrieve", "rerank", "ground", "failed"}
    BY <1>1 DEF FanOut, Search, KeepBest, SortCandidates, Rerank, Fail
  <2>2. QED
    BY <2>1 DEF Guarded
<1>2. CASE Ground
  <2>1. PICK reply \in Replies :
          answer' = [text |-> reply, citations |-> ParseCitations(reply),
                     groundedness |-> NoScore, abstained |-> FALSE]
    BY <1>2 DEF Ground
  <2>2. answer'.citations = ParseCitations(reply) /\ reranked' = reranked /\ pc' = "guardrails"
    BY <1>2, <2>1 DEF Ground
  <2>3. \A c \in ParseCitations(reply) : Resolved(c)
    BY DEF ParseCitations, Resolved
  <2>4. QED
    BY <2>2, <2>3 DEF Guarded, Resolved
<1>3. CASE Audit \/ Return \/ ChangeStore \/ OtherQueryLogs \/ UNCHANGED vars
  <2>1. /\ UNCHANGED <<answer, reranked, me>>
        /\ \/ pc' = pc
           \/ pc = "audit" /\ pc' = "audited"
           \/ pc = "audited" /\ pc' = "answered"
    BY <1>3 DEF Audit, Return, ChangeStore, OtherQueryLogs, vars
  <2>2. QED
    BY <2>1 DEF Guarded, Resolved, BelowThreshold
<1>4. QED
  BY <1>1, <1>2, <1>3, GuardrailsGuarded DEF Next, Node

LEMMA AlwaysGuarded == Spec => []Guarded
<1>1. Init => Guarded
  BY DEF Init, Guarded
<1>2. QED
  BY <1>1, AlwaysReadable, NextGuarded, PTL DEF Spec, Safety

(* An answer is never shipped without context, over an injected passage or *)
(* below the threshold, and its citations resolve; an abstention says and  *)
(* cites nothing.                                                          *)
THEOREM ShippedAnswersGrounded == Spec => []AnswersGrounded
<1>1. Guarded => AnswersGrounded
  BY DEF Guarded, AnswersGrounded, Resolved
<1>2. QED
  BY <1>1, AlwaysGuarded, PTL

(* With a threshold above zero, a caller without roles gets an abstention. *)
THEOREM RolelessGetNoAnswer == Spec => []NoRolesNoAnswer
<1>1. Guarded => NoRolesNoAnswer
  <2> SUFFICES ASSUME Guarded, me.roles = {}, pc = "answered", ThresholdNum > 0
               PROVE  answer.abstained
    BY DEF NoRolesNoAnswer
  <2>1. ThresholdNum # 0
    BY QueryAssumption
  <2>2. answer.abstained = TRUE
    BY <2>1 DEF Guarded
  <2>3. QED
    BY <2>2
<1>2. QED
  BY <1>1, AlwaysGuarded, PTL

-----------------------------------------------------------------------------
(* The query's place in the audit log.                                     *)
Logged ==
    /\ me \in Callers
    /\ log \in Seq(AuditRecord)
    /\ \A i, j \in MyRecords : i = j
    /\ pc \notin {"audited", "answered", "failed"} => MyRecords = {}
    /\ pc \in {"audited", "answered"} => \E i \in MyRecords : log[i] = RecordOf

LEMMA RecordType ==
    ASSUME Readable, me \in Callers, pc = "audit"
    PROVE  RecordOf \in AuditRecord /\ RecordOf.caller = me
<1>1. me \in Identity
  BY QueryAssumption
<1>2. reranked \in Seq(Chunk) /\ Len(reranked) \in Nat /\ DOMAIN reranked = 1 .. Len(reranked)
  BY DEF Readable
<1>3. \A i \in DOMAIN reranked : reranked[i].id \in ChunkIds
  <2>1. \A i \in DOMAIN reranked : reranked[i] \in Chunk
    BY <1>2
  <2>2. QED
    BY <2>1 DEF Chunk
<1>4. [i \in DOMAIN reranked |-> reranked[i].id] \in [1 .. Len(reranked) -> ChunkIds]
  BY <1>2, <1>3
<1>5. [i \in DOMAIN reranked |-> reranked[i].id] \in Seq(ChunkIds)
  BY <1>2, <1>4, SeqDef
<1>6. answer.groundedness \in Score \cup {NoScore} /\ answer.abstained \in BOOLEAN
  BY DEF Readable, Answer
<1>7. QED
  BY <1>1, <1>5, <1>6 DEF RecordOf, AuditRecord

(* Appending to the log keeps what it held.                                *)
LEMMA Appended ==
    ASSUME log \in Seq(AuditRecord), NEW r \in AuditRecord, log' = Append(log, r)
    PROVE  /\ log' \in Seq(AuditRecord)
           /\ Len(log) \in Nat /\ DOMAIN log = 1 .. Len(log) /\ DOMAIN log' = 1 .. Len(log) + 1
           /\ \A i \in DOMAIN log : i \in DOMAIN log' /\ log'[i] = log[i]
           /\ log'[Len(log) + 1] = r
           /\ \A i \in DOMAIN log' : i \in DOMAIN log \/ i = Len(log) + 1
BY AppendProperties

LEMMA NextLogged == Readable /\ Logged /\ [Next]_vars => Logged'
<1> SUFFICES ASSUME Readable, Logged, [Next]_vars PROVE Logged'
  OBVIOUS
<1>1. CASE FanOut \/ Search \/ KeepBest \/ SortCandidates \/ Rerank \/ Ground \/ Guardrails \/ Fail
  <2>1. /\ UNCHANGED <<me, log>>
        /\ pc' \notin {"audited", "answered"}
        /\ pc \notin {"audited", "answered", "failed"} \/ pc' = "failed"
    BY <1>1 DEF FanOut, Search, KeepBest, SortCandidates, Rerank, Ground, Guardrails, Fail
  <2>2. QED
    BY <2>1 DEF Logged, MyRecords
<1>2. CASE Audit
  <2>1. RecordOf \in AuditRecord /\ RecordOf.caller = me /\ log' = Append(log, RecordOf)
        /\ pc = "audit" /\ pc' = "audited" /\ RecordOf' = RecordOf /\ me' = me
    BY <1>2, RecordType DEF Audit, Logged, RecordOf
  <2>2. /\ log' \in Seq(AuditRecord)
        /\ MyRecords' = {Len(log) + 1}
        /\ log'[Len(log) + 1] = RecordOf
    BY <2>1, Appended DEF Logged, MyRecords
  <2>3. QED
    BY <2>1, <2>2 DEF Logged
<1>3. CASE OtherQueryLogs
  <2>1. PICK r \in OtherRecords : log' = Append(log, r)
    BY <1>3 DEF OtherQueryLogs
  <2>2. r \in AuditRecord /\ r.caller # me /\ me' = me /\ pc' = pc /\ RecordOf' = RecordOf
    BY <1>3, QueryAssumption DEF OtherQueryLogs, Logged, RecordOf
  <2>3. MyRecords' = MyRecords
    BY <2>1, <2>2, Appended DEF Logged, MyRecords
  <2>4. \A i \in MyRecords : log'[i] = log[i]
    BY <2>1, <2>2, Appended DEF Logged, MyRecords
  <2>5. log' \in Seq(AuditRecord)
    BY <2>1, <2>2, Appended DEF Logged
  <2>6. QED
    BY <2>2, <2>3, <2>4, <2>5 DEF Logged
<1>4. CASE Return \/ ChangeStore \/ UNCHANGED vars
  <2>1. /\ UNCHANGED <<me, log, answer, reranked>>
        /\ pc' = pc \/ (pc = "audited" /\ pc' = "answered")
    BY <1>4 DEF Return, ChangeStore, vars
  <2>2. QED
    BY <2>1 DEF Logged, MyRecords, RecordOf
<1>5. QED
  BY <1>1, <1>2, <1>3, <1>4 DEF Next, Node

(* No answer without its record, and never two records of one query.       *)
THEOREM AnswersLogged == Spec => []AnswersAudited
<1>1. Init => Logged
  BY DEF Init, Logged, MyRecords
<1>2. Logged => AnswersAudited
  BY DEF Logged, AnswersAudited
<1>3. QED
  BY <1>1, <1>2, AlwaysReadable, NextLogged, PTL DEF Spec, Safety

(* The parts of the type invariant that neither Readable nor Logged says.  *)
AnswerTyped ==
    /\ pc \in {"fan_out", "retrieve", "rerank", "ground", "guardrails",
               "audit", "audited", "answered", "failed"}
    /\ answer \in Answer \cup {NoAnswer}

LEMMA NextAnswerTyped == Readable /\ AnswerTyped /\ [Next]_vars => AnswerTyped'
<1> SUFFICES ASSUME Readable, AnswerTyped, [Next]_vars PROVE AnswerTyped'
  OBVIOUS
<1>1. CASE Ground \/ Guardrails
  <2>1. pc' \in {"guardrails", "audit"}
    BY <1>1 DEF Ground, Guardrails
  <2>2. Readable'
    BY NextReadable
  <2>3. QED
    BY <2>1, <2>2 DEF Readable, AnswerTyped
<1>2. CASE FanOut \/ Search \/ KeepBest \/ SortCandidates \/ Rerank \/ Audit \/ Return
           \/ Fail \/ ChangeStore \/ OtherQueryLogs \/ UNCHANGED vars
  BY <1>2 DEF FanOut, Search, KeepBest, SortCandidates, Rerank, Audit, Return, Fail,
     ChangeStore, OtherQueryLogs, vars, AnswerTyped
<1>3. QED
  BY <1>1, <1>2 DEF Next, Node

(* Every state of a query is well typed: the store holds one chunk per     *)
(* chunk_id of a scope, hits, candidates and context are chunks, and from  *)
(* the guardrails on there is an answer to look at (guardrails.py reads    *)
(* state["answer"], audit.py too).                                         *)
THEOREM QueryTypeCorrect == Spec => []TypeOK
<1>1. Init => AnswerTyped /\ Logged
  BY DEF Init, AnswerTyped, Logged, MyRecords
<1>2. Readable /\ Logged /\ AnswerTyped => TypeOK
  BY QueryAssumption DEF Readable, Logged, AnswerTyped, TypeOK
<1>3. QED
  BY <1>1, <1>2, AlwaysReadable, NextLogged, NextAnswerTyped, PTL DEF Spec, Safety

-----------------------------------------------------------------------------
(* One hit per chunk_id from the merge on.                                 *)
OnePerId(s) == \A i, j \in DOMAIN s : s[i].chunk.id = s[j].chunk.id => i = j

Merged ==
    /\ OnePerId(best)
    /\ OnePerId(candidates) /\ Descending(candidates)
    /\ pc \in {"fan_out", "retrieve", "rerank"} => reranked = <<>>
    /\ Len(reranked) <= RerankK
    /\ Reranker = "none" => Distinct(reranked)
    /\ \A i \in DOMAIN reranked : \E k \in DOMAIN candidates : reranked[i] = candidates[k].chunk

LEMMA KeepBestMerged == Readable /\ Merged /\ KeepBest => Merged'
<1> SUFFICES ASSUME Readable, Merged, KeepBest PROVE Merged'
  OBVIOUS
<1> DEFINE h == Head(hits)
<1>1. /\ UNCHANGED <<pc, candidates, reranked>>
      /\ best \in Seq(Hit) /\ hits \in Seq(Hit) /\ hits # <<>>
      /\ OnePerId(best)
  BY DEF KeepBest, Readable, Merged
<1>2. h \in Hit
  BY <1>1, HeadTailProperties
<1>3. OnePerId(best')
  <2>1. CASE \E i \in DOMAIN best : best[i].chunk.id = h.chunk.id
    <3>1. best' = [i \in DOMAIN best |-> IF Stronger(h, i) THEN h ELSE best[i]]
      BY <2>1 DEF KeepBest
    <3>2. \A i \in DOMAIN best : best'[i].chunk.id = best[i].chunk.id
      BY <3>1 DEF Stronger
    <3>3. QED
      BY <1>1, <3>1, <3>2 DEF OnePerId
  <2>2. CASE ~ \E i \in DOMAIN best : best[i].chunk.id = h.chunk.id
    <3>1. best' = Append(best, h)
      BY <2>2 DEF KeepBest
    <3>2. /\ DOMAIN best' = 1 .. Len(best) + 1 /\ DOMAIN best = 1 .. Len(best) /\ Len(best) \in Nat
          /\ \A i \in 1 .. Len(best) : best'[i] = best[i]
          /\ best'[Len(best) + 1] = h
      BY <1>1, <1>2, <3>1, AppendProperties
    <3>3. \A i \in DOMAIN best' : i \in DOMAIN best \/ i = Len(best) + 1
      BY <3>2
    <3>4. QED
      BY <1>1, <2>2, <3>2, <3>3 DEF OnePerId
  <2>3. QED
    BY <2>1, <2>2
<1>4. QED
  BY <1>1, <1>3 DEF Merged, OnePerId, Descending, Distinct

(* A stable sort by score is a permutation and comes out descending.       *)
LEMMA SortMerged == Readable /\ Merged /\ SortCandidates => Merged'
<1> SUFFICES ASSUME Readable, Merged, SortCandidates PROVE Merged'
  OBVIOUS
<1>1. PICK p \in [DOMAIN best -> DOMAIN best] :
          /\ candidates' = [i \in DOMAIN best |-> best[p[i]]]
          /\ \A i, j \in DOMAIN best : i < j =>
                \/ best[p[i]].score > best[p[j]].score
                \/ best[p[i]].score = best[p[j]].score /\ p[i] < p[j]
  BY DEF SortCandidates, SortedOrders
<1>2. /\ \A i \in DOMAIN best : i \in Nat /\ best[i].score \in Nat
      /\ OnePerId(best) /\ reranked = <<>> /\ reranked' = reranked /\ best' = best
      /\ Len(reranked) <= RerankK
  <2>1. \A i \in DOMAIN best : i \in Nat /\ best[i] \in Hit
    BY DEF Readable
  <2>2. QED
    BY <2>1 DEF Hit, SortCandidates, Merged
<1>3. \A i, j \in DOMAIN best : p[i] = p[j] => i = j
  <2> SUFFICES ASSUME NEW i \in DOMAIN best, NEW j \in DOMAIN best, p[i] = p[j], i < j
               PROVE  FALSE
    BY <1>2
  <2>1. p[i] \in DOMAIN best /\ best[p[i]].score \in Nat /\ p[i] \in Nat
    BY <1>2
  <2>2. QED
    BY <1>1, <2>1
<1>4. OnePerId(candidates')
  BY <1>1, <1>2, <1>3 DEF OnePerId
<1>5. Descending(candidates')
  <2> SUFFICES ASSUME NEW i \in DOMAIN best, NEW j \in DOMAIN best, i < j
               PROVE  best[p[i]].score >= best[p[j]].score
    BY <1>1 DEF Descending
  <2>1. best[p[i]].score \in Nat /\ best[p[j]].score \in Nat
    BY <1>2
  <2>2. QED
    BY <1>1, <2>1
<1>6. DOMAIN reranked = {}
  BY <1>2
<1>7. QED
  BY <1>2, <1>4, <1>5, <1>6 DEF Merged, OnePerId, Descending, Distinct

LEMMA RerankMerged == Readable /\ Merged /\ Rerank => Merged'
<1> SUFFICES ASSUME Readable, Merged, Rerank PROVE Merged'
  OBVIOUS
<1>1. /\ RerankLimit \in Nat /\ RerankLimit <= RerankK
      /\ \A i \in 1 .. RerankLimit : i \in DOMAIN candidates
  BY QueryAssumption DEF Readable, RerankLimit
<1>2. \E n \in 0 .. RerankLimit : \E f \in [1 .. n -> DOMAIN candidates] :
         /\ Reranker = "none" => \A i, j \in 1 .. n : f[i] = f[j] => i = j
         /\ reranked' = [i \in 1 .. n |-> candidates[f[i]].chunk]
  <2>1. CASE reranked' \in FirstCandidates
    <3> DEFINE f == [i \in 1 .. RerankLimit |-> i]
    <3>1. f \in [1 .. RerankLimit -> DOMAIN candidates]
      BY <1>1
    <3>2. /\ reranked' = [i \in 1 .. RerankLimit |-> candidates[f[i]].chunk]
          /\ \A i, j \in 1 .. RerankLimit : f[i] = f[j] => i = j
      BY <2>1 DEF FirstCandidates
    <3>3. \E g \in [1 .. RerankLimit -> DOMAIN candidates] :
             /\ \A i, j \in 1 .. RerankLimit : g[i] = g[j] => i = j
             /\ reranked' = [i \in 1 .. RerankLimit |-> candidates[g[i]].chunk]
      <4> HIDE DEF f
      <4>1. QED
        BY <3>1, <3>2
    <3>4. RerankLimit \in 0 .. RerankLimit
      BY <1>1
    <3>5. QED
      BY <3>3, <3>4
  <2>2. CASE Reranker = "bedrock" /\ reranked' \in ChosenCandidates
    <3>1. PICK f \in SequencesUpTo(DOMAIN candidates, RerankLimit) :
               reranked' = [i \in DOMAIN f |-> candidates[f[i]].chunk]
      BY <2>2 DEF ChosenCandidates
    <3>2. PICK n \in 0 .. RerankLimit : f \in [1 .. n -> DOMAIN candidates]
      BY DEF SequencesUpTo
    <3>3. DOMAIN f = 1 .. n
      BY <3>2
    <3>4. QED
      BY <2>2, <3>1, <3>2, <3>3
  <2>3. QED
    BY <2>1, <2>2 DEF Rerank
<1>3. PICK n \in 0 .. RerankLimit : \E f \in [1 .. n -> DOMAIN candidates] :
         /\ Reranker = "none" => \A i, j \in 1 .. n : f[i] = f[j] => i = j
         /\ reranked' = [i \in 1 .. n |-> candidates[f[i]].chunk]
  BY <1>2
<1>4. PICK f \in [1 .. n -> DOMAIN candidates] :
         /\ Reranker = "none" => \A i, j \in 1 .. n : f[i] = f[j] => i = j
         /\ reranked' = [i \in 1 .. n |-> candidates[f[i]].chunk]
  BY <1>3
<1>5. UNCHANGED <<best, candidates>> /\ pc' = "ground"
  BY DEF Rerank, progress
<1>6. Reranker = "none" => Distinct(reranked')
  BY <1>4 DEF Distinct, Merged, OnePerId
<1>7. Len(reranked') <= RerankK
  <2>1. n \in Nat /\ n <= RerankK
    BY <1>1, QueryAssumption
  <2>2. Len(reranked') = n
    BY <1>4, <2>1
  <2>3. QED
    BY <2>1, <2>2
<1>8. \A i \in DOMAIN reranked' : \E k \in DOMAIN candidates : reranked'[i] = candidates[k].chunk
  BY <1>4
<1>9. QED
  BY <1>5, <1>6, <1>7, <1>8 DEF Merged, OnePerId, Descending, Distinct

LEMMA NextMerged == Readable /\ Merged /\ [Next]_vars => Merged'
<1> SUFFICES ASSUME Readable, Merged, [Next]_vars PROVE Merged'
  OBVIOUS
<1>1. CASE \/ FanOut \/ Search \/ Ground \/ Guardrails \/ Audit \/ Return
           \/ Fail \/ ChangeStore \/ OtherQueryLogs \/ UNCHANGED vars
  <2>1. /\ UNCHANGED <<best, candidates, reranked>>
        /\ pc' \in {"fan_out", "retrieve", "rerank"} => pc \in {"fan_out", "retrieve", "rerank"}
    BY <1>1 DEF FanOut, Search, Ground, Guardrails, Audit, Return, Fail, ChangeStore,
                OtherQueryLogs, vars, progress
  <2>2. QED
    BY <2>1 DEF Merged, OnePerId, Descending, Distinct
<1>2. QED
  BY <1>1, KeepBestMerged, SortMerged, RerankMerged DEF Next, Node

(* The candidates are ranked and without repeats, though the store changes *)
(* between the searches they are merged from; the context a model is shown *)
(* is drawn from them within the budget, and repeats none unless the       *)
(* Rerank API does.                                                        *)
THEOREM ContextSound == Spec => []ContextWellFormed
<1>1. Init => Merged
  BY QueryAssumption DEF Init, Merged, OnePerId, Descending, Distinct
<1>2. Merged => ContextWellFormed
  BY DEF Merged, ContextWellFormed, OnePerId, Elements
<1>3. QED
  BY <1>1, <1>2, AlwaysReadable, NextMerged, PTL DEF Spec, Safety

-----------------------------------------------------------------------------
(* Searching what the caller may read finds what searching everything does.*)
LEMMA SameMatches == OnlyReadable!Matches = Matches
<1>1. \A c : OnlyReadable!PassesFilter(c, OnlyReadable!BuildFilter(me, NoNarrowing))
                <=> PassesFilter(c, BuildFilter(me, NoNarrowing))
  BY DEF OnlyReadable!PassesFilter, OnlyReadable!IsVisible, OnlyReadable!BuildFilter,
         PassesFilter, IsVisible, BuildFilter
<1>2. OnlyReadable!Matches =
        {c \in {d \in store : MayRead(me, d)} :
            OnlyReadable!PassesFilter(c, OnlyReadable!BuildFilter(me, NoNarrowing))}
  BY DEF OnlyReadable!Matches
<1>3. QED
  BY <1>1, <1>2, MatchesReadable DEF Matches

LEMMA SameResults == \A q : OnlyReadable!SearchResults(q) = SearchResults(q)
<1>1. \A q, c : OnlyReadable!HitFor(q, c) = HitFor(q, c)
  BY DEF OnlyReadable!HitFor, HitFor
<1>2. \A q : {OnlyReadable!HitFor(q, c) : c \in OnlyReadable!Matches} = {HitFor(q, c) : c \in Matches}
  BY <1>1, SameMatches
<1>3. \A S : OnlyReadable!TopHits(S) = TopHits(S)
  BY DEF OnlyReadable!TopHits, OnlyReadable!SequencesUpTo, OnlyReadable!Descending,
         OnlyReadable!Distinct, OnlyReadable!Elements, TopHits, SequencesUpTo, Descending,
         Distinct, Elements
<1>4. QED
  BY <1>2, <1>3 DEF OnlyReadable!SearchResults, SearchResults

(* Taking chunks out of a storable content leaves a storable content.      *)
LEMMA PartStorable == ASSUME NEW S \in Contents PROVE {c \in S : MayRead(me, c)} \in OnlyReadable!Contents
BY DEF Contents, Storable, OnlyReadable!Contents, OnlyReadable!Storable

LEMMA SameCardinality == \A S : OnlyReadable!Cardinality(S) = Cardinality(S)
BY DEF OnlyReadable!Cardinality, Cardinality

LEMMA InitMaps == Init => OnlyReadable!Init
BY PartStorable DEF Init, OnlyReadable!Init

LEMMA SameStore ==
    ASSUME UNCHANGED <<store, me>>
    PROVE  UNCHANGED {c \in store : MayRead(me, c)}
BY DEF MayRead

LEMMA RetrieveMaps == (FanOut \/ Search \/ KeepBest \/ SortCandidates) => OnlyReadable!Node
<1>1. FanOut => OnlyReadable!FanOut
  BY SameStore DEF FanOut, OnlyReadable!FanOut, Expand, OnlyReadable!Expand
<1>2. Search => OnlyReadable!Search
  BY SameStore, SameResults DEF Search, OnlyReadable!Search
<1>3. KeepBest => OnlyReadable!KeepBest
  BY SameStore DEF KeepBest, OnlyReadable!KeepBest, Stronger, OnlyReadable!Stronger
<1>4. SortCandidates => OnlyReadable!SortCandidates
  BY SameStore DEF SortCandidates, OnlyReadable!SortCandidates, SortedOrders, OnlyReadable!SortedOrders
<1>5. QED
  BY <1>1, <1>2, <1>3, <1>4 DEF OnlyReadable!Node

LEMMA AnswerMaps == (Rerank \/ Ground \/ Guardrails \/ Audit \/ Return) => OnlyReadable!Node
<1>1. Rerank => OnlyReadable!Rerank
  BY SameStore
     DEF Rerank, OnlyReadable!Rerank, FirstCandidates, OnlyReadable!FirstCandidates,
         ChosenCandidates, OnlyReadable!ChosenCandidates, RerankLimit, OnlyReadable!RerankLimit,
         SequencesUpTo, OnlyReadable!SequencesUpTo, progress, OnlyReadable!progress
<1>2. Ground => OnlyReadable!Ground
  <2>1. \A reply : Echoes(reply) <=> OnlyReadable!Echoes(reply)
    <3>1. \A i, l : PromptLine(i, l) = OnlyReadable!PromptLine(i, l)
      BY DEF PromptLine, OnlyReadable!PromptLine
    <3>2. Places = OnlyReadable!Places
      BY DEF Places, OnlyReadable!Places
    <3>3. \A p, q : Follows(p, q) <=> OnlyReadable!Follows(p, q)
      BY DEF Follows, OnlyReadable!Follows, LastLine, OnlyReadable!LastLine
    <3>4. \A p, starts : Swallowed(p, starts) <=> OnlyReadable!Swallowed(p, starts)
      BY <3>1, <3>3 DEF Swallowed, OnlyReadable!Swallowed
    <3>5. \A starts : StartBlocks(starts) <=> OnlyReadable!StartBlocks(starts)
      BY <3>1, <3>2, <3>4 DEF StartBlocks, OnlyReadable!StartBlocks,
                              Unnumbered, OnlyReadable!Unnumbered
    <3>6. \A starts : Marked(starts) = OnlyReadable!Marked(starts)
      BY <3>1, <3>2, <3>4 DEF Marked, OnlyReadable!Marked
    <3>7. QED
      BY <3>2, <3>5, <3>6 DEF Echoes, OnlyReadable!Echoes, Elements, OnlyReadable!Elements
  <2>2. QED
    BY <2>1, SameStore
       DEF Ground, OnlyReadable!Ground, ParseCitations, OnlyReadable!ParseCitations,
           Elements, OnlyReadable!Elements, progress, OnlyReadable!progress
<1>3. Guardrails => OnlyReadable!Guardrails
  <2>1. PassagesUsed = OnlyReadable!PassagesUsed
    BY DEF PassagesUsed, OnlyReadable!PassagesUsed, Elements, OnlyReadable!Elements
  <2>2. \A reply : ScoreOf(reply) = OnlyReadable!ScoreOf(reply)
    <3> TAKE reply
    <3>1. CheckedIn(reply) = OnlyReadable!CheckedIn(reply)
      BY DEF CheckedIn, OnlyReadable!CheckedIn
    <3>2. SupportedIn(reply) = OnlyReadable!SupportedIn(reply)
      BY <2>1, <3>1 DEF SupportedIn, OnlyReadable!SupportedIn
    <3>3. QED
      BY <2>1, <3>1, <3>2, SameCardinality DEF ScoreOf, OnlyReadable!ScoreOf
  <2>3. \A reply : Abstains(reply) <=> OnlyReadable!Abstains(reply)
    BY <2>1, <2>2 DEF Abstains, OnlyReadable!Abstains, InjectionInContext,
       OnlyReadable!InjectionInContext, BelowThreshold, OnlyReadable!BelowThreshold
  <2>4. QED
    BY <2>2, <2>3, SameStore DEF Guardrails, OnlyReadable!Guardrails, progress, OnlyReadable!progress
<1>4. Audit => OnlyReadable!Audit
  BY SameStore DEF Audit, OnlyReadable!Audit, RecordOf, OnlyReadable!RecordOf,
                   progress, OnlyReadable!progress
<1>5. Return => OnlyReadable!Return
  BY SameStore DEF Return, OnlyReadable!Return, progress, OnlyReadable!progress
<1>6. QED
  BY <1>1, <1>2, <1>3, <1>4, <1>5 DEF OnlyReadable!Node

LEMMA NextMaps == Readable /\ [Next]_vars => [OnlyReadable!Next]_(OnlyReadable!vars)
<1> SUFFICES ASSUME Readable, [Next]_vars PROVE [OnlyReadable!Next]_(OnlyReadable!vars)
  OBVIOUS
<1>1. CASE Node
  BY <1>1, RetrieveMaps, AnswerMaps DEF Node, OnlyReadable!Next
<1>2. CASE Fail
  BY <1>2, SameStore DEF Fail, OnlyReadable!Fail, OnlyReadable!Next, progress, OnlyReadable!progress
<1>3. CASE ChangeStore
  <2>1. store' \in Contents /\ me' = me
    BY <1>3 DEF ChangeStore
  <2>2. {c \in store : MayRead(me, c)}' = {c \in store' : MayRead(me, c)}
    BY <2>1 DEF MayRead
  <2>3. {c \in store : MayRead(me, c)}' \in OnlyReadable!Contents
    BY <2>1, <2>2, PartStorable
  <2>4. OnlyReadable!ChangeStore
    BY <1>3, <2>3 DEF ChangeStore, OnlyReadable!ChangeStore, progress, OnlyReadable!progress
  <2>5. QED
    BY <2>4 DEF OnlyReadable!Next
<1>4. CASE OtherQueryLogs
  BY <1>4, SameStore DEF OtherQueryLogs, OnlyReadable!OtherQueryLogs, OnlyReadable!Next,
                         progress, OnlyReadable!progress
<1>5. CASE UNCHANGED vars
  BY <1>5, SameStore DEF vars, OnlyReadable!vars, progress, OnlyReadable!progress
<1>6. QED
  BY <1>1, <1>2, <1>3, <1>4, <1>5 DEF Next

(* A query over the whole store is a query over the part of it its caller  *)
(* may read: the other chunks do not influence it.                         *)
THEOREM NoInfluence == Spec => RestrictedHaveNoInfluence
BY InitMaps, NextMaps, AlwaysReadable, PTL DEF Spec, Safety, RestrictedHaveNoInfluence, OnlyReadable!Safety

=============================================================================
