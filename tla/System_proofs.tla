---------------------------- MODULE System_proofs ----------------------------
(***************************************************************************)
(* Proofs about a question asked of the index that ingestion is writing:   *)
(* the query sees no store the query graph's own model does not allow, and *)
(* what it shows goes back to committed records.                           *)
(***************************************************************************)
EXTENDS System, Ingestion_proofs

(* The write path's invariants, which a question does not disturb.         *)
WritePath ==
    /\ TypeOK /\ WorkersHold /\ StraysHold
    /\ IndexJustified /\ OneChunkPerSlot /\ LoopInv

LEMMA InitWritePath == SystemInit => WritePath
BY InitType, InitHold, InitProvenance, InitSlots, InitLoopInv DEF SystemInit, WritePath

LEMMA StepOfSystem == [SystemNext]_<<vars, asking>> => [Next]_vars
BY DEF SystemNext, Ask, GoOn, GiveUp

LEMMA NextWritePath == WritePath /\ [SystemNext]_<<vars, asking>> => WritePath'
BY StepOfSystem, NextType, NextHold, NextStrays, NextProvenance, NextSlots, NextLoopInv DEF WritePath

LEMMA AlwaysWritePath == SystemSpec => []WritePath
BY InitWritePath, NextWritePath, PTL DEF SystemSpec

-----------------------------------------------------------------------------
(* The query refines the query graph over an arbitrary store.              *)

(* A chunk's place is settled by its scope and its id.                     *)
LEMMA PlaceOfChunk ==
    ASSUME TypeOK, IndexJustified, NEW c \in index, NEW d \in index,
           c.scope = d.scope, c.doc = d.doc, c.idx = d.idx
    PROVE  Slot(c) = Slot(d)
<1>1. c.ns = Namespace[c.scope] /\ d.ns = Namespace[d.scope]
  BY JustifiedNamespace DEF IndexJustified
<1>2. QED
  BY <1>1 DEF Slot

(* The index names each chunk of a scope once: it is a store the query     *)
(* graph expects.                                                          *)
LEMMA StoredIsStore == WritePath => Stored \in Query!Contents
<1> SUFFICES ASSUME WritePath PROVE Stored \in Query!Contents
  OBVIOUS
<1> USE DEF WritePath
<1>1. ASSUME NEW c \in index PROVE Retrievable(c) \in StoredChunks
  <2>1. c \in Chunk
    BY <1>1 DEF TypeOK
  <2>2. /\ c.scope \in Scopes /\ c.doc \in DocIds /\ c.doc.doc_type \in Tables
        /\ c.idx \in Nat /\ c.src \in Nat /\ c.acl \in SUBSET Roles
    BY <2>1 DEF Chunk, DocIds
  <2>3. QED
    BY <2>2 DEF Retrievable, StoredChunks, ChunkIds, Passages
<1>2. ASSUME NEW p \in Stored, NEW q \in Stored, p.scope = q.scope, p.id = q.id
      PROVE  p = q
  <2>1. PICK c \in index : p = Retrievable(c)
    BY DEF Stored
  <2>2. PICK d \in index : q = Retrievable(d)
    BY DEF Stored
  <2>3. c.scope = d.scope /\ c.doc = d.doc /\ c.idx = d.idx
    BY <1>2, <2>1, <2>2 DEF Retrievable
  <2>4. c = d
    BY <2>3, PlaceOfChunk DEF OneChunkPerSlot
  <2>5. QED
    BY <2>1, <2>2, <2>4
<1>3. Query!Storable(Stored)
  BY <1>2 DEF Query!Storable
<1>4. QED
  BY <1>1, <1>3 DEF Query!Contents, Stored

LEMMA InitQuery == SystemInit => Query!Init
BY DEF SystemInit

LEMMA StepQuery ==
    WritePath' /\ [SystemNext]_<<vars, asking>> => [Query!Next]_(Query!vars)
<1> SUFFICES ASSUME WritePath', [SystemNext]_<<vars, asking>>
             PROVE  [Query!Next]_(Query!vars)
  OBVIOUS
<1>1. Stored' \in Query!Contents
  <2>1. (Stored \in Query!Contents)'
    BY StoredIsStore, PTL
  <2>2. QED
    BY <2>1 DEF Query!Contents, Query!Storable
<1>2. CASE Next /\ UNCHANGED asking
  BY <1>1, <1>2 DEF asking, Query!Next, Query!ChangeStore, Query!progress
<1>3. CASE Ask
  BY <1>3 DEF Ask, Query!Next, Query!Node
<1>4. CASE GoOn
  BY <1>4 DEF GoOn, Query!Next
<1>5. CASE GiveUp
  BY <1>5 DEF GiveUp, Query!Next
<1>6. CASE UNCHANGED <<vars, asking>>
  BY <1>6 DEF vars, asking, Stored, Query!vars, Query!progress
<1>7. QED
  BY <1>2, <1>3, <1>4, <1>5, <1>6 DEF SystemNext

(* Over the index that any interleaving of ingestion produces, the query   *)
(* behaves as the query graph over an arbitrary store: all that holds of   *)
(* QueryPipeline's behaviours holds of the system's.                       *)
THEOREM QueryImplemented == SystemSpec => ImplementsQuery
BY InitQuery, StepQuery, AlwaysWritePath, PTL DEF SystemSpec, ImplementsQuery, Query!Safety

-----------------------------------------------------------------------------
(* What a query shows, and where it comes from.                            *)

Hits == [chunk : StoredChunks, score : {Similarity[q][p] : q \in Query!Variants, p \in Passages}]

(* Every passage the query has at hand: what Query!Shown lists, the cited  *)
(* passages being among those shown to the model.                          *)
Seen == {h.chunk : h \in Query!Elements(hits) \cup Query!Elements(best)
                           \cup Query!Elements(candidates)}
        \cup Query!Elements(reranked)

Grounded == {"guardrails", "audit", "audited", "answered"}

AskInv ==
    /\ question \in Questions /\ queries \in Seq(Query!Variants)
    /\ hits \in Seq(Hits) /\ best \in Seq(Hits) /\ candidates \in Seq(Hits)
    /\ reranked \in Seq(StoredChunks)
    /\ node = "fan_out" => Seen = {}
    /\ node \in {"fan_out", "retrieve", "rerank", "ground"} => answer = NoAnswer
    /\ node = "guardrails" =>
         \E reply, cited : answer = [text |-> reply, citations |-> cited,
                                     groundedness |-> NoScore, abstained |-> FALSE]
    /\ node \in Grounded \/ answer # NoAnswer =>
         \A x \in answer.citations : x.chunk \in Query!Elements(reranked)
    /\ Llm = "local" /\ node \in Grounded /\ ~ answer.abstained =>
         {x.chunk : x \in answer.citations} = Query!Elements(reranked)

LEMMA ShownIsSeen == AskInv => Query!Shown \subseteq Seen
BY DEF AskInv, Query!Shown, Seen

LEMMA InitAsk == SystemInit => AskInv
<1> SUFFICES ASSUME SystemInit PROVE AskInv
  OBVIOUS
<1>1. /\ question \in Questions /\ node = "fan_out" /\ answer = NoAnswer
      /\ queries = <<>> /\ hits = <<>> /\ best = <<>> /\ candidates = <<>> /\ reranked = <<>>
  BY DEF SystemInit, Query!Init
<1>2. Query!Elements(<<>>) = {}
  BY DEF Query!Elements
<1>3. Seen = {}
  BY <1>1, <1>2 DEF Seen
<1>4. QED
  BY <1>1, <1>3 DEF AskInv, Grounded

(* The elements of a sequence, its head and tail, and of an extended one.  *)
LEMMA ElementsOfTail ==
    ASSUME NEW S, NEW s \in Seq(S), s # <<>>
    PROVE  /\ Head(s) \in S /\ Head(s) \in Query!Elements(s)
           /\ Tail(s) \in Seq(S) /\ Query!Elements(Tail(s)) \subseteq Query!Elements(s)
<1>1. /\ Tail(s) \in Seq(S) /\ Len(Tail(s)) = Len(s) - 1 /\ Len(s) \in Nat
      /\ \A i \in 1 .. Len(Tail(s)) : Tail(s)[i] = s[i + 1]
  BY HeadTailProperties
<1>2. 1 \in DOMAIN s /\ Head(s) = s[1]
  BY EmptySeq
<1>3. \A i \in DOMAIN Tail(s) : i + 1 \in DOMAIN s /\ Tail(s)[i] = s[i + 1]
  BY <1>1
<1>4. QED
  BY <1>1, <1>2, <1>3 DEF Query!Elements

(* Every search, exact or not, returns hits for matching chunks only.      *)
LEMMA ResultsFromStore ==
    ASSUME NEW q \in Query!Variants, Query!Matches \subseteq StoredChunks,
           NEW s \in Query!SearchResults(q)
    PROVE  /\ s \in Seq(Hits)
           /\ \A h \in Query!Elements(s) : h.chunk \in Query!Matches
<1> DEFINE all == {Query!HitFor(q, c) : c \in Query!Matches}
<1>1. \A c \in Query!Matches : Query!HitFor(q, c) \in Hits /\ Query!HitFor(q, c).chunk = c
  BY DEF Query!HitFor, Hits, StoredChunks
<1>2. PICK n \in Nat : s \in [1 .. n -> all]
  <2>1. CASE q \in NullQueries
    <3>1. s = <<>>
      BY <2>1 DEF Query!SearchResults
    <3>2. <<>> \in Seq(all) /\ Len(<<>>) = 0
      BY EmptySeq
    <3>3. s \in [1 .. 0 -> all]
      BY <3>1, <3>2, LenProperties
    <3>4. QED
      BY <3>3
  <2>2. CASE q \notin NullQueries
    BY <2>2, AskAssumption DEF Query!SearchResults, Query!TopHits, Query!SequencesUpTo
  <2>3. QED
    BY <2>1, <2>2
<1>3. s \in [1 .. n -> Hits]
  BY <1>1, <1>2
<1>4. s \in Seq(Hits)
  BY <1>3, SeqDef
<1>5. \A h \in Query!Elements(s) : h \in all
  BY <1>2 DEF Query!Elements
<1>6. QED
  BY <1>1, <1>4, <1>5

LEMMA MatchesStored == WritePath => Query!Matches \subseteq Stored /\ Stored \subseteq StoredChunks
BY StoredIsStore DEF Query!Matches, Query!Contents

LEMMA SearchSeen ==
    ASSUME WritePath, AskInv, Query!Search
    PROVE  AskInv' /\ \A p \in Seen' : p \in Seen \cup Query!Matches
<1>1. /\ UNCHANGED <<me, question, node, best, candidates, reranked, answer>>
      /\ node = "retrieve" /\ queries # <<>> /\ queries' = Tail(queries)
      /\ hits' \in Query!SearchResults(Head(queries))
  BY DEF Query!Search
<1>2. Head(queries) \in Query!Variants /\ queries' \in Seq(Query!Variants)
  BY <1>1, ElementsOfTail DEF AskInv
<1>3. /\ hits' \in Seq(Hits)
      /\ \A h \in Query!Elements(hits') : h.chunk \in Query!Matches
  BY <1>1, <1>2, MatchesStored, ResultsFromStore
<1>4. AskInv'
  BY <1>1, <1>2, <1>3 DEF AskInv, Grounded
<1>5. QED
  BY <1>1, <1>3, <1>4 DEF Seen

LEMMA KeepBestSeen ==
    ASSUME AskInv, Query!KeepBest
    PROVE  AskInv' /\ Seen' \subseteq Seen
<1> DEFINE h == Head(hits)
<1>1. /\ hits \in Seq(Hits) /\ hits # <<>> /\ best \in Seq(Hits) /\ hits' = Tail(hits)
      /\ UNCHANGED <<me, question, node, queries, candidates, reranked, answer>>
      /\ node = "retrieve"
  BY DEF Query!KeepBest, AskInv
<1>2. /\ h \in Hits /\ h \in Query!Elements(hits)
      /\ hits' \in Seq(Hits) /\ Query!Elements(hits') \subseteq Query!Elements(hits)
  BY <1>1, ElementsOfTail
<1> HIDE DEF h
<1>3. /\ best' \in Seq(Hits)
      /\ \A i \in DOMAIN best' : best'[i] = h \/ best'[i] \in Query!Elements(best)
  <2>1. CASE best' = [i \in DOMAIN best |-> IF Query!Stronger(h, i) THEN h ELSE best[i]]
    <3>1. best' \in [1 .. Len(best) -> Hits] /\ Len(best) \in Nat
      BY <1>1, <1>2, <2>1
    <3>2. best' \in Seq(Hits)
      BY <3>1, SeqDef
    <3>3. QED
      BY <2>1, <3>2 DEF Query!Elements
  <2>2. CASE best' = Append(best, h)
    <3>1. /\ best' \in Seq(Hits) /\ DOMAIN best' = 1 .. Len(best) + 1
          /\ DOMAIN best = 1 .. Len(best) /\ Len(best) \in Nat
          /\ \A i \in 1 .. Len(best) : best'[i] = best[i]
          /\ best'[Len(best) + 1] = h
      BY <1>1, <1>2, <2>2, AppendProperties
    <3>2. \A i \in DOMAIN best' : i \in DOMAIN best \/ i = Len(best) + 1
      BY <3>1
    <3>3. QED
      BY <3>1, <3>2 DEF Query!Elements
  <2>3. QED
    BY <2>1, <2>2 DEF Query!KeepBest, h
<1>4. Seen' \subseteq Seen
  <2>1. \A g \in Query!Elements(best') : g \in Query!Elements(hits) \cup Query!Elements(best)
    BY <1>2, <1>3 DEF Query!Elements
  <2>2. QED
    BY <1>1, <1>2, <2>1 DEF Seen
<1>5. AskInv'
  BY <1>1, <1>2, <1>3, <1>4 DEF AskInv, Grounded
<1>6. QED
  BY <1>4, <1>5

LEMMA SortSeen ==
    ASSUME AskInv, Query!SortCandidates
    PROVE  AskInv' /\ Seen' \subseteq Seen
<1>1. PICK p \in [DOMAIN best -> DOMAIN best] : candidates' = [i \in DOMAIN best |-> best[p[i]]]
  BY DEF Query!SortCandidates, Query!SortedOrders
<1>2. best \in Seq(Hits) /\ Len(best) \in Nat /\ DOMAIN best = 1 .. Len(best)
  BY DEF AskInv
<1>3. candidates' \in [1 .. Len(best) -> Hits]
  BY <1>1, <1>2
<1>4. candidates' \in Seq(Hits)
  BY <1>2, <1>3, SeqDef
<1>5. Query!Elements(candidates') \subseteq Query!Elements(best)
  BY <1>1 DEF Query!Elements
<1>6. /\ UNCHANGED <<me, question, queries, hits, best, reranked, answer>>
      /\ node = "retrieve" /\ node' = "rerank"
  BY DEF Query!SortCandidates
<1>7. Seen' \subseteq Seen
  BY <1>5, <1>6 DEF Seen
<1>8. AskInv'
  BY <1>4, <1>6 DEF AskInv, Grounded
<1>9. QED
  BY <1>7, <1>8

(* Whatever the reranker picks comes from the candidates.                  *)
LEMMA RerankSeen ==
    ASSUME AskInv, Query!Rerank
    PROVE  AskInv' /\ Seen' \subseteq Seen
<1>1. /\ UNCHANGED <<me, question, queries, hits, best, candidates, answer>>
      /\ node = "rerank" /\ node' = "ground"
  BY DEF Query!Rerank, Query!progress
<1>2. /\ candidates \in Seq(Hits) /\ Query!RerankLimit \in Nat
      /\ \A i \in 1 .. Query!RerankLimit : i \in DOMAIN candidates
  BY AskAssumption DEF AskInv, Query!RerankLimit
<1>3. PICK n \in Nat : \E f \in [1 .. n -> DOMAIN candidates] :
         reranked' = [i \in 1 .. n |-> candidates[f[i]].chunk]
  <2>1. CASE reranked' \in Query!FirstCandidates
    <3> DEFINE f == [i \in 1 .. Query!RerankLimit |-> i]
    <3>1. f \in [1 .. Query!RerankLimit -> DOMAIN candidates]
      BY <1>2
    <3>2. reranked' = [i \in 1 .. Query!RerankLimit |-> candidates[f[i]].chunk]
      BY <2>1 DEF Query!FirstCandidates
    <3>3. QED
      BY <1>2, <3>1, <3>2
  <2>2. CASE reranked' \in Query!ChosenCandidates
    <3>1. PICK f \in Query!SequencesUpTo(DOMAIN candidates, Query!RerankLimit) :
                 reranked' = [i \in DOMAIN f |-> candidates[f[i]].chunk]
      BY <2>2 DEF Query!ChosenCandidates
    <3>2. PICK n \in 0 .. Query!RerankLimit : f \in [1 .. n -> DOMAIN candidates]
      BY DEF Query!SequencesUpTo
    <3>3. n \in Nat /\ DOMAIN f = 1 .. n
      BY <1>2, <3>2
    <3>4. QED
      BY <3>1, <3>2, <3>3
  <2>3. QED
    BY <2>1, <2>2 DEF Query!Rerank
<1>4. PICK f \in [1 .. n -> DOMAIN candidates] :
         reranked' = [i \in 1 .. n |-> candidates[f[i]].chunk]
  BY <1>3
<1>5. \A i \in DOMAIN candidates :
         candidates[i].chunk \in StoredChunks /\ candidates[i] \in Query!Elements(candidates)
  <2>1. \A i \in DOMAIN candidates : candidates[i] \in Hits
    BY <1>2
  <2>2. QED
    BY <2>1 DEF Hits, Query!Elements
<1>6. reranked' \in [1 .. n -> StoredChunks]
  BY <1>4, <1>5
<1>7. reranked' \in Seq(StoredChunks)
  BY <1>6, SeqDef
<1>8. \A p \in Query!Elements(reranked') :
         \E h \in Query!Elements(candidates) : p = h.chunk
  BY <1>4, <1>5 DEF Query!Elements
<1>9. Seen' \subseteq Seen
  BY <1>1, <1>8 DEF Seen
<1>10. AskInv'
  BY <1>1, <1>7 DEF AskInv, Grounded
<1>11. QED
  BY <1>9, <1>10

(* The echo model's reply marks each passage it was shown: the passage's   *)
(* first line starts a block, which is followed by the passage's number,   *)
(* or is swallowed by the block before, whose sentence it then opens.      *)
LEMMA EchoMarks ==
    ASSUME AskInv, NEW reply, Query!Echoes(reply)
    PROVE  {x.chunk : x \in Query!ParseCitations(reply)} = Query!Elements(reranked)
<1>1. PICK starts \in SUBSET Query!Places :
         /\ Query!StartBlocks(starts)
         /\ Query!Marked(starts) \subseteq Query!Elements(reply.markers)
  BY DEF Query!Echoes
<1>2. ASSUME NEW n \in DOMAIN reranked PROVE n \in Query!Elements(reply.markers)
  <2> DEFINE p == <<n, 0>>
  <2>1. p \in Query!Places /\ p[1] = n /\ p[2] = 0
    BY <1>2 DEF Query!Places
  <2>2. Query!PromptLine(p[1], p[2]).lead = n
    BY <2>1 DEF Query!PromptLine
  <2> HIDE DEF p
  <2>3. n \in Query!Marked(starts)
    <3>1. CASE p \in starts
      BY <2>2, <3>1 DEF Query!Marked
    <3>2. CASE p \notin starts
      <4>1. n # Query!Unnumbered
        BY <1>2 DEF AskInv, Query!Unnumbered
      <4>2. Query!Swallowed(p, starts)
        BY <1>1, <2>1, <2>2, <3>2, <4>1 DEF Query!StartBlocks
      <4>3. QED
        BY <2>1, <4>2 DEF Query!Marked
    <3>3. QED
      BY <3>1, <3>2
  <2>4. QED
    BY <1>1, <2>3
<1>3. Query!ParseCitations(reply) = {[marker |-> n, chunk |-> reranked[n]] : n \in DOMAIN reranked}
  <2>1. Query!Elements(reply.markers) \cap DOMAIN reranked = DOMAIN reranked
    BY <1>2
  <2>2. QED
    BY <2>1 DEF Query!ParseCitations
<1>4. \A x \in Query!ParseCitations(reply) : x.chunk \in Query!Elements(reranked)
  BY <1>3 DEF Query!Elements
<1>5. ASSUME NEW p \in Query!Elements(reranked)
      PROVE  p \in {x.chunk : x \in Query!ParseCitations(reply)}
  <2>1. PICK n \in DOMAIN reranked : p = reranked[n]
    BY <1>5 DEF Query!Elements
  <2> DEFINE x == [marker |-> n, chunk |-> reranked[n]]
  <2>2. x \in Query!ParseCitations(reply) /\ x.chunk = p
    BY <1>3, <2>1
  <2> HIDE DEF x
  <2>3. QED
    BY <2>2
<1>6. QED
  BY <1>4, <1>5

LEMMA GroundSeen ==
    ASSUME AskInv, Query!Ground
    PROVE  AskInv' /\ Seen' = Seen
<1>1. /\ UNCHANGED <<me, question, queries, hits, best, candidates, reranked>>
      /\ node = "ground" /\ node' = "guardrails"
  BY DEF Query!Ground, Query!progress
<1>2. PICK reply \in Replies :
         /\ Llm = "local" => Query!Echoes(reply)
         /\ answer' = [text |-> reply, citations |-> Query!ParseCitations(reply),
                       groundedness |-> NoScore, abstained |-> FALSE]
  BY DEF Query!Ground
<1>3. \A x \in answer'.citations : x.chunk \in Query!Elements(reranked)
  BY <1>2 DEF Query!ParseCitations, Query!Elements
<1>4. Llm = "local" => {x.chunk : x \in answer'.citations} = Query!Elements(reranked)
  BY <1>2, EchoMarks
<1>5. Seen' = Seen
  BY <1>1 DEF Seen
<1>6. \E r, cited : answer' = [text |-> r, citations |-> cited,
                               groundedness |-> NoScore, abstained |-> FALSE]
  BY <1>2
<1>7. AskInv'
  BY <1>1, <1>3, <1>4, <1>5, <1>6 DEF AskInv, Grounded
<1>8. QED
  BY <1>5, <1>7

LEMMA GuardrailsSeen ==
    ASSUME AskInv, Query!Guardrails
    PROVE  AskInv' /\ Seen' = Seen
<1>1. /\ UNCHANGED <<me, question, queries, hits, best, candidates, reranked>>
      /\ node = "guardrails" /\ node' = "audit"
  BY DEF Query!Guardrails, Query!progress
<1>2. PICK reply, cited : answer = [text |-> reply, citations |-> cited,
                                    groundedness |-> NoScore, abstained |-> FALSE]
  BY <1>1 DEF AskInv
<1>3. \/ answer'.citations = {} /\ answer'.abstained
      \/ answer'.citations = answer.citations /\ answer'.abstained = answer.abstained
  BY <1>2 DEF Query!Guardrails
<1>4. Seen' = Seen
  BY <1>1 DEF Seen
<1>5. AskInv'
  BY <1>1, <1>3, <1>4 DEF AskInv, Grounded
<1>6. QED
  BY <1>4, <1>5

LEMMA FanOutSeen ==
    ASSUME AskInv, Query!FanOut
    PROVE  AskInv' /\ Seen' = Seen /\ Seen = {}
<1>1. /\ UNCHANGED <<me, question, hits, best, candidates, reranked, answer>>
      /\ node = "fan_out" /\ node' = "retrieve" /\ queries' = Query!Expand(question)
  BY DEF Query!FanOut
<1>2. queries' \in Seq(Query!Variants)
  <2>1. /\ <<>> \in Seq(Query!Variants) /\ <<"question">> \in Seq(Query!Variants)
        /\ <<"question", "details">> \in Seq(Query!Variants)
        /\ <<"question", "keywords", "details">> \in Seq(Query!Variants)
    BY DEF Query!Variants
  <2>2. question \in Query!QuestionKinds
    BY AskAssumption DEF AskInv
  <2>3. Query!Expand(question) \in {<<>>, <<"question">>, <<"question", "details">>,
                                    <<"question", "keywords", "details">>}
    BY <2>2 DEF Query!Expand, Query!QuestionKinds
  <2>4. QED
    BY <1>1, <2>1, <2>3
<1>3. Seen' = Seen
  BY <1>1 DEF Seen
<1>4. Seen = {}
  BY <1>1 DEF AskInv
<1>5. AskInv'
  BY <1>1, <1>2, <1>3 DEF AskInv, Grounded
<1>6. QED
  BY <1>3, <1>4, <1>5

(* The caller is fixed, and what a step adds to what is shown matches the  *)
(* caller's filter in the index of that moment.                            *)
LEMMA NextAsk ==
    ASSUME WritePath, AskInv, [SystemNext]_<<vars, asking>>
    PROVE  /\ AskInv' /\ me' = me
           /\ \A p \in Seen' : p \in Seen \/ (p \in Query!Matches /\ UNCHANGED doneBefore)
<1>1. CASE UNCHANGED asking
  BY <1>1 DEF asking, AskInv, Seen, Grounded
<1>2. CASE Ask
  <2>1. AskInv' /\ Seen' = Seen
    BY <1>2, FanOutSeen DEF Ask
  <2>2. me' = me
    BY <1>2 DEF Ask, Query!FanOut
  <2>3. QED
    BY <2>1, <2>2
<1>3. CASE GoOn
  <2>1. UNCHANGED doneBefore /\ Query!Node
    BY <1>3 DEF GoOn
  <2>2. CASE Query!FanOut
    BY <2>1, <2>2, FanOutSeen DEF Query!FanOut
  <2>3. CASE Query!Search
    BY <2>1, <2>3, SearchSeen DEF Query!Search
  <2>4. CASE Query!KeepBest
    BY <2>4, KeepBestSeen DEF Query!KeepBest
  <2>5. CASE Query!SortCandidates
    BY <2>5, SortSeen DEF Query!SortCandidates
  <2>6. CASE Query!Rerank
    BY <2>6, RerankSeen DEF Query!Rerank
  <2>7. CASE Query!Ground
    BY <2>7, GroundSeen DEF Query!Ground
  <2>8. CASE Query!Guardrails
    BY <2>8, GuardrailsSeen DEF Query!Guardrails
  <2>9. CASE Query!Audit \/ Query!Return
    <3>1. /\ UNCHANGED <<me, question, queries, hits, best, candidates, reranked, answer>>
          /\ node \in Grounded /\ node' \in {"audited", "answered"}
      BY <2>9 DEF Query!Audit, Query!Return, Query!progress, Grounded
    <3>2. Seen' = Seen
      BY <3>1 DEF Seen
    <3>3. AskInv'
      BY <3>1, <3>2 DEF AskInv, Grounded
    <3>4. QED
      BY <3>1, <3>2, <3>3
  <2>10. QED
    BY <2>1, <2>2, <2>3, <2>4, <2>5, <2>6, <2>7, <2>8, <2>9 DEF Query!Node
<1>4. CASE GiveUp
  <2>1. /\ UNCHANGED <<me, question, queries, hits, best, candidates, reranked, answer>>
        /\ node' = "failed"
    BY <1>4 DEF GiveUp, Query!Fail, Query!progress
  <2>2. Seen' = Seen
    BY <2>1 DEF Seen
  <2>3. AskInv'
    BY <2>1, <2>2 DEF AskInv, Grounded
  <2>4. QED
    BY <2>1, <2>2, <2>3
<1>5. QED
  BY <1>1, <1>2, <1>3, <1>4 DEF SystemNext

LEMMA AlwaysAsk == SystemSpec => [](WritePath /\ AskInv)
<1>1. WritePath /\ AskInv /\ [SystemNext]_<<vars, asking>> => AskInv'
  BY NextAsk
<1>2. QED
  BY <1>1, InitAsk, AlwaysWritePath, PTL DEF SystemSpec

(* With the echo model, an answer that ships cites every passage the model *)
(* was shown, and nothing else.                                            *)
THEOREM EchoAnswersCite == SystemSpec => []EchoesCite
<1>1. AskInv => EchoesCite
  BY DEF AskInv, EchoesCite, Grounded
<1>2. QED
  BY <1>1, AlwaysAsk, PTL

-----------------------------------------------------------------------------
(* Where what is shown comes from.                                         *)

FromCommitted(p) ==
    \E n \in DOMAIN feed :
        /\ Ingested(feed[n])
        /\ \E c \in BatchChunks(feed[n], n) : Retrievable(c) = p /\ Query!MayRead(me, c)

SeenCommitted == \A p \in Seen : FromCommitted(p)

(* What the filter lets through is committed, and the caller may read it.  *)
LEMMA MatchesCommitted ==
    ASSUME WritePath, NEW p \in Query!Matches
    PROVE  FromCommitted(p)
<1>1. PICK c \in index : p = Retrievable(c)
  BY DEF Query!Matches, Stored
<1>2. PICK n \in DOMAIN feed : Ingested(feed[n]) /\ c \in BatchChunks(feed[n], n)
  BY <1>1 DEF WritePath, IndexJustified, Promise!Justified
<1>3. Query!MayRead(me, p)
  BY DEF Query!Matches, Query!PassesFilter, Query!IsVisible, Query!BuildFilter, Query!MayRead
<1>4. p.scope = c.scope /\ p.acl = c.acl
  BY <1>1 DEF Retrievable
<1>5. QED
  BY <1>1, <1>2, <1>3, <1>4 DEF FromCommitted, Query!MayRead

LEMMA NextCommitted ==
    WritePath /\ AskInv /\ SeenCommitted /\ [SystemNext]_<<vars, asking>> => SeenCommitted'
<1> SUFFICES ASSUME WritePath, AskInv, SeenCommitted, [SystemNext]_<<vars, asking>>,
                    NEW p \in Seen'
             PROVE  FromCommitted(p)'
  BY DEF SeenCommitted
<1>1. FromCommitted(p) /\ me' = me
  BY NextAsk, MatchesCommitted DEF SeenCommitted
<1>2. \A n \in DOMAIN feed : n \in DOMAIN feed' /\ feed'[n] = feed[n]
  BY StepOfSystem, PromiseMonotone DEF WritePath
<1>3. QED
  BY <1>1, <1>2 DEF FromCommitted, Query!MayRead

(* Whatever ingestion does meanwhile, each passage a query retrieves,      *)
(* shows the model or cites is of the latest state of a record in a        *)
(* committed batch, and that record's ACL admits the caller.               *)
THEOREM ShownWasCommitted == SystemSpec => []ShownAsCommitted
<1>1. SystemInit => SeenCommitted
  BY InitAsk DEF SystemInit, Query!Init, AskInv, SeenCommitted
<1>2. AskInv /\ SeenCommitted => ShownAsCommitted
  BY ShownIsSeen DEF SeenCommitted, FromCommitted, ShownAsCommitted
<1>3. QED
  BY <1>1, <1>2, NextCommitted, AlwaysAsk, PTL DEF SystemSpec

-----------------------------------------------------------------------------
(* What is shown of what a completed batch has superseded.                 *)

(* A passage that may outlive batch n, which speaks of its record.         *)
Leftover(n, p) == BeyondRewrite(n, p) \/ p.passage.src \in abandoned

SeenCurrent ==
    /\ doneBefore \subseteq done
    /\ InOrder => \A p \in Seen, n \in doneBefore : Supersedes(n, p) => Leftover(n, p)

(* In the loop, only leftovers of what completed batches supersede are in  *)
(* the index.                                                              *)
LEMMA StoredIsCurrent ==
    ASSUME WritePath, InOrder, NEW p \in Stored, NEW n \in done, Supersedes(n, p)
    PROVE  Leftover(n, p)
<1> SUFFICES ASSUME p.passage.src \notin abandoned PROVE BeyondRewrite(n, p)
  BY DEF Leftover
<1>1. PICK c \in index : p = Retrievable(c)
  BY DEF Stored
<1>2. /\ p.passage.src = c.src /\ p.scope = c.scope
      /\ p.id = [doc |-> c.doc, idx |-> c.idx] /\ p.id.doc = c.doc
  BY <1>1 DEF Retrievable
<1>3. /\ n \in DOMAIN feed /\ feed[n] \in Batches /\ n \in Nat /\ c \in Chunk
      /\ c.ns = Namespace[c.scope]
  BY <1>1, FeedEntry, JustifiedNamespace DEF WritePath, TypeOK, IndexJustified
<1>4. c.src < n /\ c.src \notin abandoned
  BY <1>2, <1>3 DEF Supersedes, Chunk
<1>5. Ingested(feed[n]) /\ NamespaceOf(feed[n]) = c.ns
  BY <1>2, <1>3 DEF Supersedes, NamespaceOf
<1>6. /\ c.doc \notin BatchDeletes(feed[n])
      /\ \A d \in BatchChunks(feed[n], n) : Slot(d) # Slot(c)
  BY <1>1, <1>4, <1>5 DEF WritePath, LoopInv, NothingStale
<1>7. ASSUME NEW d \in BatchChunks(feed[n], n), Retrievable(d).id = p.id PROVE FALSE
  <2>1. d.doc = c.doc /\ d.idx = c.idx
    BY <1>2, <1>7 DEF Retrievable
  <2>2. d.ns = NamespaceOf(feed[n])
    BY <1>3, OutputMentioned
  <2>3. QED
    BY <1>5, <1>6, <2>1, <2>2 DEF Slot
<1>8. QED
  BY <1>2, <1>6, <1>7 DEF BeyondRewrite

LEMMA NextCurrent ==
    WritePath /\ AskInv /\ SeenCurrent /\ [SystemNext]_<<vars, asking>> => SeenCurrent'
<1> SUFFICES ASSUME WritePath, AskInv, SeenCurrent, [SystemNext]_<<vars, asking>>
             PROVE  SeenCurrent'
  OBVIOUS
<1>0. [Next]_vars
  BY StepOfSystem
<1>1. done \subseteq done' /\ abandoned \subseteq abandoned'
  <2>1. done \subseteq done'
    BY <1>0 DEF Next, Deliver, Work, vars, busVars, CommitUnrouted, CommitAnnounced,
       CommitRejected, Redeliver, Receive, Skip, ReadAndMerge, DeleteDocument, Embed,
       WriteChunk, Finish, Fail, TimeOut, StrayWrite, StrayDelete
  <2>2. QED
    BY <1>0, <2>1, HistoryGrows
<1>2. CASE Ask
  <2>1. Seen' = {} /\ doneBefore' = done
    BY <1>2, FanOutSeen DEF Ask
  <2>2. QED
    BY <1>1, <2>1 DEF SeenCurrent
<1>3. CASE UNCHANGED doneBefore
  <2> SUFFICES ASSUME InOrder, NEW p \in Seen', NEW n \in doneBefore, Supersedes(n, p)'
               PROVE  Leftover(n, p)'
    BY <1>1, <1>3 DEF SeenCurrent, InOrder
  <2>1. n \in done /\ n \in DOMAIN feed /\ feed'[n] = feed[n]
    BY <1>0, PromiseMonotone DEF SeenCurrent, WritePath, TypeOK
  <2>2. Supersedes(n, p)
    BY <2>1 DEF Supersedes
  <2>3. Leftover(n, p)
    <3>1. CASE p \in Seen
      BY <2>2, <3>1 DEF SeenCurrent
    <3>2. CASE p \in Query!Matches
      BY <2>1, <2>2, <3>2, MatchesStored, StoredIsCurrent
    <3>3. QED
      BY <3>1, <3>2, NextAsk
  <2>4. QED
    BY <1>1, <2>1, <2>3 DEF Leftover, BeyondRewrite
<1>4. QED
  BY <1>2, <1>3 DEF SystemNext, GoOn, GiveUp, asking

(* With the CLI's loop, when no batch is ingested again after a later one, *)
(* a passage that a batch completed before the question was asked has      *)
(* superseded reaches a query in two cases only, although batches go on    *)
(* being ingested while it runs: it lies beyond the end of the record's    *)
(* new version, or a request of its own batch went on without its caller.  *)
(* A deleted record's passages reach it in the second case only.           *)
THEOREM OnlyLeftoversReached ==
    ASSUME MaxRedeliveries = 0
    PROVE  SystemSpec => []OnlyLeftoversShown
<1>1. SystemInit => SeenCurrent
  BY InitAsk DEF SystemInit, Query!Init, AskInv, SeenCurrent
<1>2. AskInv /\ SeenCurrent => OnlyLeftoversShown
  BY ShownIsSeen DEF SeenCurrent, InOrder, Leftover, OnlyLeftoversShown
<1>3. QED
  BY <1>1, <1>2, NextCurrent, AlwaysAsk, PTL DEF SystemSpec

=============================================================================
