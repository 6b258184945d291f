-------------------------- MODULE OpenSearch_proofs --------------------------
(***************************************************************************)
(* Proofs about overlapping calls of one OpenSearch index, for any number  *)
(* of callers, calls, chunks and documents.                                *)
(***************************************************************************)
EXTENDS OpenSearchCalls, SequenceTheorems, TLAPS

-----------------------------------------------------------------------------
(* The inductive invariant, besides the type invariant.                    *)

(* What a call is made of, by its kind.                                    *)
CallsShaped ==
    \A n \in DOMAIN calls :
        /\ calls[n].todo \subseteq calls[n].ids
        /\ calls[n].pc = "exists" => calls[n].todo = {}
        /\ calls[n].before \subseteq {m \in DOMAIN calls : Ended(m)}
        /\ calls[n].kind = "upsert" => calls[n].dim \in Dims /\ calls[n].pc # "deleting"
        /\ calls[n].kind = "delete" =>
             /\ calls[n].pc \notin {"create", "lost"}
             /\ \E doc \in Docs : calls[n].ids = {i \in ChunkIds : DocOf[i] = doc}

(* Upsert n has written chunk i.                                           *)
WrittenBy(n, i) ==
    /\ n \in DOMAIN calls /\ calls[n].kind = "upsert"
    /\ i \in calls[n].ids \ calls[n].todo
    /\ calls[n].pc \in {"request", "done", "failed"}
    /\ dim # 0 /\ calls[n].dim = dim

(* What the index holds, what searches see of it and what a deletion has   *)
(* found are chunks as some upsert wrote them.                             *)
VersionsWritten ==
    \A i \in ChunkIds :
        /\ live[i] # 0 => WrittenBy(live[i], i)
        /\ view[i] # 0 => WrittenBy(view[i], i)
        /\ \A n \in DOMAIN calls :
             calls[n].pc = "deleting" /\ calls[n].hits[i] # 0 => WrittenBy(calls[n].hits[i], i)

(* Past the creation of the index there is a mapping; who still wants to   *)
(* create it came after no call that has seen one.                         *)
MappingKnown ==
    \A n \in DOMAIN calls :
        /\ calls[n].kind = "upsert" /\ calls[n].pc \in {"request", "done", "lost"} => dim # 0
        /\ calls[n].pc \in {"create", "lost"} =>
             \A m \in calls[n].before : calls[m].kind = "delete" \/ calls[m].pc = "failed"

(* Searches may be behind only where a call is under way.                  *)
Refreshed ==
    \A i \in ChunkIds :
        /\ live[i] # 0 /\ Ended(live[i]) => view[i] = live[i]
        /\ live[i] = 0 /\ view[i] # 0 =>
             \E n \in DOMAIN calls : calls[n].pc = "deleting" /\ i \in calls[n].ids

(* A deletion has found, and will delete, what was written before it.      *)
DeletionsFind ==
    \A n \in DOMAIN calls :
        calls[n].kind = "delete" =>
            \A i \in calls[n].ids :
                live[i] \in calls[n].before =>
                    /\ calls[n].pc # "done"
                    /\ calls[n].pc = "deleting" =>
                         i \in calls[n].todo /\ calls[n].hits[i] = live[i]

(* What an upsert has written is there, unless an overlapping call or a    *)
(* later one touches it.                                                   *)
UploadsStay ==
    \A n \in DOMAIN calls :
        calls[n].kind = "upsert" =>
            /\ calls[n].pc = "done" => calls[n].ok
            /\ calls[n].pc \in {"create", "request", "done"} /\ calls[n].ok =>
                 \A i \in calls[n].ids \ calls[n].todo :
                    \/ live[i] = n
                    \/ \E m \in DOMAIN calls \ (calls[n].before \cup {n}) : i \in calls[m].ids

Inv ==
    /\ TypeOK /\ CallsShaped /\ VersionsWritten /\ MappingKnown
    /\ Refreshed /\ DeletionsFind /\ UploadsStay

-----------------------------------------------------------------------------
(* What the steps do to the list of calls.                                 *)

LEMMA CallTypes ==
    ASSUME TypeOK, NEW n \in DOMAIN calls
    PROVE  /\ n \in 1 .. MaxCalls /\ n # 0
           /\ calls \in Seq(Call) /\ DOMAIN calls = 1 .. Len(calls) /\ Len(calls) \in Nat
           /\ calls[n] \in Call
BY CallsAssumption DEF TypeOK

(* A call that begins is the last one, and changes no other.               *)
LEMMA Began ==
    ASSUME TypeOK, NEW kind \in {"upsert", "delete"}, NEW ids \in SUBSET ChunkIds,
           NEW d \in Dims \cup {0}, Begin(kind, ids, d)
    PROVE  /\ calls' \in Seq(Call) /\ Len(calls') <= MaxCalls
           /\ DOMAIN calls' = DOMAIN calls \cup {Len(calls) + 1}
           /\ Len(calls) + 1 \notin DOMAIN calls
           /\ \A m \in DOMAIN calls : calls'[m] = calls[m]
           /\ calls'[Len(calls) + 1] =
                 [kind |-> kind, ids |-> ids, dim |-> d, pc |-> "exists",
                  todo |-> {}, hits |-> NoHits, ok |-> TRUE,
                  before |-> {m \in DOMAIN calls : Ended(m)}]
           /\ UNCHANGED <<dim, live, view, gone>>
<1> DEFINE new == [kind |-> kind, ids |-> ids, dim |-> d, pc |-> "exists",
                   todo |-> {}, hits |-> NoHits, ok |-> TRUE,
                   before |-> {m \in DOMAIN calls : Ended(m)}]
<1>1. calls \in Seq(Call) /\ Len(calls) \in Nat /\ DOMAIN calls = 1 .. Len(calls)
      /\ MaxCalls \in Nat /\ Len(calls) < MaxCalls
  BY CallsAssumption DEF TypeOK, Begin
<1>2. new \in Call
  BY <1>1 DEF Call, Written, NoHits
<1>3. calls' = Append(calls, new)
  BY DEF Begin
<1>4. QED
  BY <1>1, <1>2, <1>3, AppendProperties DEF Begin

(* Call n goes on to pc, with todo, hits and ok; nothing else of it, and    *)
(* no other call, changes.                                                 *)
Moved(n, pc, todo, hits, ok) ==
    /\ calls' \in Seq(Call) /\ Len(calls') = Len(calls)
    /\ DOMAIN calls' = DOMAIN calls
    /\ \A m \in DOMAIN calls \ {n} : calls'[m] = calls[m]
    /\ calls'[n].kind = calls[n].kind /\ calls'[n].ids = calls[n].ids
    /\ calls'[n].dim = calls[n].dim /\ calls'[n].before = calls[n].before
    /\ calls'[n].pc = pc /\ calls'[n].todo = todo
    /\ calls'[n].hits = hits /\ calls'[n].ok = ok

LEMMA Update ==
    ASSUME TypeOK, NEW n \in DOMAIN calls, NEW r \in Call,
           calls' = [calls EXCEPT ![n] = r],
           r.kind = calls[n].kind, r.ids = calls[n].ids,
           r.dim = calls[n].dim, r.before = calls[n].before
    PROVE  Moved(n, r.pc, r.todo, r.hits, r.ok)
<1>1. /\ calls \in Seq(Call) /\ calls[n] \in Call /\ DOMAIN calls = 1 .. Len(calls)
      /\ Len(calls) \in Nat
  BY CallTypes
<1>2. calls' \in Seq(Call) /\ Len(calls') = Len(calls)
  BY <1>1, ExceptSeq
<1>3. calls'[n] = r
  BY <1>1
<1>4. \A m \in DOMAIN calls \ {n} : calls'[m] = calls[m]
  BY <1>1
<1>5. DOMAIN calls' = DOMAIN calls
  OBVIOUS
<1>6. QED
  BY <1>2, <1>3, <1>4, <1>5 DEF Moved

LEMMA ExistsMoves ==
    ASSUME TypeOK, NEW n \in DOMAIN calls, Exists(n)
    PROVE  /\ dim # 0 => Moved(n, "request", calls[n].ids, calls[n].hits, calls[n].ok)
           /\ dim = 0 /\ calls[n].kind = "upsert" =>
                Moved(n, "create", calls[n].ids, calls[n].hits, calls[n].ok)
           /\ dim = 0 /\ calls[n].kind = "delete" =>
                Moved(n, "done", {}, calls[n].hits, calls[n].ok)
<1> DEFINE r == [calls[n] EXCEPT !.pc = IF dim # 0 THEN "request"
                                        ELSE IF calls[n].kind = "upsert" THEN "create"
                                        ELSE "done",
                                 !.todo = IF dim = 0 /\ calls[n].kind = "delete"
                                            THEN {} ELSE calls[n].ids]
<1>1. calls[n] \in Call
  BY CallTypes
<1>2. /\ r \in Call
      /\ r.kind = calls[n].kind /\ r.ids = calls[n].ids
      /\ r.dim = calls[n].dim /\ r.before = calls[n].before
      /\ r.pc = IF dim # 0 THEN "request"
                ELSE IF calls[n].kind = "upsert" THEN "create" ELSE "done"
      /\ r.todo = IF dim = 0 /\ calls[n].kind = "delete" THEN {} ELSE calls[n].ids
      /\ r.hits = calls[n].hits /\ r.ok = calls[n].ok
  BY <1>1 DEF Call
<1>3. calls' = [calls EXCEPT ![n] = r]
  BY DEF Exists
<1> HIDE DEF r
<1>4. Moved(n, r.pc, r.todo, r.hits, r.ok)
  BY <1>2, <1>3, Update
<1>5. calls[n].kind \in {"upsert", "delete"}
  BY <1>1 DEF Call
<1>6. QED
  BY <1>2, <1>4, <1>5

LEMMA CreateMoves ==
    ASSUME TypeOK, NEW n \in DOMAIN calls, Create(n)
    PROVE  /\ dim = 0 /\ n \notin gone =>
                Moved(n, "request", calls[n].todo, calls[n].hits, calls[n].ok)
           /\ dim = 0 /\ n \in gone =>
                Moved(n, "failed", {}, calls[n].hits, calls[n].ok)
           /\ dim # 0 => Moved(n, "lost", {}, calls[n].hits, calls[n].ok)
<1> DEFINE going == [calls[n] EXCEPT !.pc = "request"]
           ended == [calls[n] EXCEPT !.pc = IF dim = 0 THEN "failed" ELSE "lost", !.todo = {}]
<1>1. calls[n] \in Call
  BY CallTypes
<1>2. /\ going \in Call
      /\ going.kind = calls[n].kind /\ going.ids = calls[n].ids
      /\ going.dim = calls[n].dim /\ going.before = calls[n].before
      /\ going.pc = "request" /\ going.todo = calls[n].todo
      /\ going.hits = calls[n].hits /\ going.ok = calls[n].ok
  BY <1>1 DEF Call
<1>3. /\ ended \in Call
      /\ ended.kind = calls[n].kind /\ ended.ids = calls[n].ids
      /\ ended.dim = calls[n].dim /\ ended.before = calls[n].before
      /\ ended.pc = (IF dim = 0 THEN "failed" ELSE "lost") /\ ended.todo = {}
      /\ ended.hits = calls[n].hits /\ ended.ok = calls[n].ok
  BY <1>1 DEF Call
<1>4. calls' = IF dim = 0 /\ n \notin gone THEN [calls EXCEPT ![n] = going]
                                            ELSE [calls EXCEPT ![n] = ended]
  BY DEF Create
<1> HIDE DEF going, ended
<1>5. CASE dim = 0 /\ n \notin gone
  BY <1>2, <1>4, <1>5, Update
<1>6. CASE ~ (dim = 0 /\ n \notin gone)
  <2>1. Moved(n, ended.pc, ended.todo, ended.hits, ended.ok)
    BY <1>3, <1>4, <1>6, Update
  <2>2. QED
    BY <1>3, <1>6, <2>1
<1>7. QED
  BY <1>5, <1>6

LEMMA IndexItemMoves ==
    ASSUME TypeOK, NEW n \in DOMAIN calls, NEW i \in ChunkIds, IndexItem(n, i)
    PROVE  Moved(n, calls[n].pc, calls[n].todo \ {i}, calls[n].hits, calls[n].ok)
<1> DEFINE r == [calls[n] EXCEPT !.todo = @ \ {i}]
<1>1. calls[n] \in Call
  BY CallTypes
<1>2. /\ r \in Call
      /\ r.kind = calls[n].kind /\ r.ids = calls[n].ids
      /\ r.dim = calls[n].dim /\ r.before = calls[n].before
      /\ r.pc = calls[n].pc /\ r.todo = calls[n].todo \ {i}
      /\ r.hits = calls[n].hits /\ r.ok = calls[n].ok
  BY <1>1 DEF Call
<1>3. calls' = [calls EXCEPT ![n] = r]
  BY DEF IndexItem
<1> HIDE DEF r
<1>4. QED
  BY <1>2, <1>3, Update

LEMMA RejectItemMoves ==
    ASSUME TypeOK, NEW n \in DOMAIN calls, NEW i \in ChunkIds, RejectItem(n, i)
    PROVE  Moved(n, calls[n].pc, calls[n].todo \ {i}, calls[n].hits, FALSE)
<1> DEFINE r == [calls[n] EXCEPT !.todo = @ \ {i}, !.ok = FALSE]
<1>1. calls[n] \in Call
  BY CallTypes
<1>2. /\ r \in Call
      /\ r.kind = calls[n].kind /\ r.ids = calls[n].ids
      /\ r.dim = calls[n].dim /\ r.before = calls[n].before
      /\ r.pc = calls[n].pc /\ r.todo = calls[n].todo \ {i}
      /\ r.hits = calls[n].hits /\ r.ok = FALSE
  BY <1>1 DEF Call
<1>3. calls' = [calls EXCEPT ![n] = r]
  BY DEF RejectItem
<1> HIDE DEF r
<1>4. QED
  BY <1>2, <1>3, Update

LEMMA DeleteHitMoves ==
    ASSUME TypeOK, NEW n \in DOMAIN calls, NEW i \in ChunkIds, DeleteHit(n, i)
    PROVE  Moved(n, calls[n].pc, calls[n].todo \ {i}, calls[n].hits, calls[n].ok)
<1> DEFINE r == [calls[n] EXCEPT !.todo = @ \ {i}]
<1>1. calls[n] \in Call
  BY CallTypes
<1>2. /\ r \in Call
      /\ r.kind = calls[n].kind /\ r.ids = calls[n].ids
      /\ r.dim = calls[n].dim /\ r.before = calls[n].before
      /\ r.pc = calls[n].pc /\ r.todo = calls[n].todo \ {i}
      /\ r.hits = calls[n].hits /\ r.ok = calls[n].ok
  BY <1>1 DEF Call
<1>3. calls' = [calls EXCEPT ![n] = r]
  BY DEF DeleteHit
<1> HIDE DEF r
<1>4. QED
  BY <1>2, <1>3, Update

LEMMA BulkDoneMoves ==
    ASSUME TypeOK, NEW n \in DOMAIN calls, BulkDone(n)
    PROVE  Moved(n, IF calls[n].ok THEN "done" ELSE "failed",
                 calls[n].todo, calls[n].hits, calls[n].ok)
<1> DEFINE r == [calls[n] EXCEPT !.pc = IF calls[n].ok THEN "done" ELSE "failed"]
<1>1. calls[n] \in Call
  BY CallTypes
<1>2. /\ r \in Call
      /\ r.kind = calls[n].kind /\ r.ids = calls[n].ids
      /\ r.dim = calls[n].dim /\ r.before = calls[n].before
      /\ r.pc = (IF calls[n].ok THEN "done" ELSE "failed") /\ r.todo = calls[n].todo
      /\ r.hits = calls[n].hits /\ r.ok = calls[n].ok
  BY <1>1 DEF Call
<1>3. calls' = [calls EXCEPT ![n] = r]
  BY DEF BulkDone
<1> HIDE DEF r
<1>4. QED
  BY <1>2, <1>3, Update

LEMMA FindHitsMoves ==
    ASSUME TypeOK, NEW n \in DOMAIN calls, FindHits(n)
    PROVE  Moved(n, "deleting", {i \in calls[n].ids : view[i] # 0}, view, calls[n].ok)
<1> DEFINE r == [calls[n] EXCEPT !.pc = "deleting", !.hits = view,
                                 !.todo = {i \in calls[n].ids : view[i] # 0}]
<1>1. calls[n] \in Call /\ view \in Written
  BY CallTypes DEF TypeOK
<1>2. /\ r \in Call
      /\ r.kind = calls[n].kind /\ r.ids = calls[n].ids
      /\ r.dim = calls[n].dim /\ r.before = calls[n].before
      /\ r.pc = "deleting" /\ r.todo = {i \in calls[n].ids : view[i] # 0}
      /\ r.hits = view /\ r.ok = calls[n].ok
  BY <1>1 DEF Call
<1>3. calls' = [calls EXCEPT ![n] = r]
  BY DEF FindHits
<1> HIDE DEF r
<1>4. QED
  BY <1>2, <1>3, Update

LEMMA NoHitsWritten == NoHits \in Written
BY CallsAssumption DEF NoHits, Written

LEMMA DeleteDoneMoves ==
    ASSUME TypeOK, NEW n \in DOMAIN calls, DeleteDone(n)
    PROVE  Moved(n, "done", calls[n].todo, NoHits, calls[n].ok)
<1> DEFINE r == [calls[n] EXCEPT !.pc = "done", !.hits = NoHits]
<1>1. calls[n] \in Call
  BY CallTypes
<1>2. /\ r \in Call
      /\ r.kind = calls[n].kind /\ r.ids = calls[n].ids
      /\ r.dim = calls[n].dim /\ r.before = calls[n].before
      /\ r.pc = "done" /\ r.todo = calls[n].todo
      /\ r.hits = NoHits /\ r.ok = calls[n].ok
  BY <1>1, NoHitsWritten DEF Call
<1>3. calls' = [calls EXCEPT ![n] = r]
  BY DEF DeleteDone
<1> HIDE DEF r
<1>4. QED
  BY <1>2, <1>3, Update

LEMMA TimeOutMoves ==
    ASSUME TypeOK, NEW n \in DOMAIN calls, TimeOut(n)
    PROVE  Moved(n, IF calls[n].pc = "exists" THEN "failed" ELSE calls[n].pc,
                 calls[n].todo, calls[n].hits, calls[n].ok)
<1> DEFINE r == [calls[n] EXCEPT !.pc = IF @ = "exists" THEN "failed" ELSE @]
<1>1. calls[n] \in Call
  BY CallTypes
<1>2. /\ r \in Call
      /\ r.kind = calls[n].kind /\ r.ids = calls[n].ids
      /\ r.dim = calls[n].dim /\ r.before = calls[n].before
      /\ r.pc = (IF calls[n].pc = "exists" THEN "failed" ELSE calls[n].pc) /\ r.todo = calls[n].todo
      /\ r.hits = calls[n].hits /\ r.ok = calls[n].ok
  BY <1>1 DEF Call
<1>3. calls' = [calls EXCEPT ![n] = r]
  BY DEF TimeOut
<1> HIDE DEF r
<1>4. QED
  BY <1>2, <1>3, Update

(* A call begins: the other calls and the index stay as they are.          *)
LEMMA Begun ==
    ASSUME TypeOK, Upsert \/ DeleteDocument
    PROVE  LET new == calls'[Len(calls) + 1] IN
           /\ calls' \in Seq(Call) /\ Len(calls') <= MaxCalls
           /\ DOMAIN calls' = DOMAIN calls \cup {Len(calls) + 1}
           /\ Len(calls) + 1 \notin DOMAIN calls
           /\ \A m \in DOMAIN calls : calls'[m] = calls[m]
           /\ new.pc = "exists" /\ new.todo = {} /\ new.ok = TRUE
           /\ new.before = {m \in DOMAIN calls : Ended(m)}
           /\ \/ new.kind = "upsert" /\ new.dim \in Dims
              \/ new.kind = "delete" /\ \E doc \in Docs : new.ids = {i \in ChunkIds : DocOf[i] = doc}
           /\ UNCHANGED <<dim, live, view, gone>>
<1>1. CASE Upsert
  <2>1. PICK u \in Upserts : Begin("upsert", u.ids, u.dim)
    BY <1>1 DEF Upsert
  <2>2. u.ids \in SUBSET ChunkIds /\ u.dim \in Dims
    BY <2>1, CallsAssumption
  <2>3. /\ calls' \in Seq(Call) /\ Len(calls') <= MaxCalls
        /\ DOMAIN calls' = DOMAIN calls \cup {Len(calls) + 1}
        /\ Len(calls) + 1 \notin DOMAIN calls
        /\ \A m \in DOMAIN calls : calls'[m] = calls[m]
        /\ calls'[Len(calls) + 1] =
             [kind |-> "upsert", ids |-> u.ids, dim |-> u.dim, pc |-> "exists",
              todo |-> {}, hits |-> NoHits, ok |-> TRUE,
              before |-> {m \in DOMAIN calls : Ended(m)}]
        /\ UNCHANGED <<dim, live, view, gone>>
    BY <2>1, <2>2, Began
  <2>4. QED
    BY <2>2, <2>3
<1>2. CASE DeleteDocument
  <2>1. PICK doc \in Docs : Begin("delete", {i \in ChunkIds : DocOf[i] = doc}, 0)
    BY <1>2 DEF DeleteDocument
  <2>2. {i \in ChunkIds : DocOf[i] = doc} \in SUBSET ChunkIds
    OBVIOUS
  <2>3. /\ calls' \in Seq(Call) /\ Len(calls') <= MaxCalls
        /\ DOMAIN calls' = DOMAIN calls \cup {Len(calls) + 1}
        /\ Len(calls) + 1 \notin DOMAIN calls
        /\ \A m \in DOMAIN calls : calls'[m] = calls[m]
        /\ calls'[Len(calls) + 1] =
             [kind |-> "delete", ids |-> {i \in ChunkIds : DocOf[i] = doc}, dim |-> 0,
              pc |-> "exists", todo |-> {}, hits |-> NoHits, ok |-> TRUE,
              before |-> {m \in DOMAIN calls : Ended(m)}]
        /\ UNCHANGED <<dim, live, view, gone>>
    BY <2>1, <2>2, Began
  <2>4. QED
    BY <2>2, <2>3
<1>3. QED
  BY <1>1, <1>2

(* A step is of a call that has not ended, and changes no other call.      *)
LEMMA Stepped ==
    ASSUME TypeOK, NEW n \in DOMAIN calls, Request(n) \/ TimeOut(n)
    PROVE  /\ ~ Ended(n)
           /\ \E pc, todo, hits, ok : Moved(n, pc, todo, hits, ok)
<1>1. ~ Ended(n)
  BY DEF Request, TimeOut, Ended, Exists, Create, IndexItem, RejectItem, InBulk, BulkDone,
     FindHits, DeleteHit, DeleteDone
<1>2. CASE Exists(n)
  <2>1. calls[n].kind \in {"upsert", "delete"}
    BY CallTypes DEF Call
  <2>2. QED
    BY <1>1, <1>2, <2>1, ExistsMoves
<1>3. CASE Create(n)
  BY <1>1, <1>3, CreateMoves
<1>4. CASE \E i \in ChunkIds : IndexItem(n, i) \/ RejectItem(n, i) \/ DeleteHit(n, i)
  BY <1>1, <1>4, IndexItemMoves, RejectItemMoves, DeleteHitMoves
<1>5. CASE BulkDone(n) \/ FindHits(n) \/ DeleteDone(n) \/ TimeOut(n)
  BY <1>1, <1>5, BulkDoneMoves, FindHitsMoves, DeleteDoneMoves, TimeOutMoves
<1>6. QED
  BY <1>1, <1>2, <1>3, <1>4, <1>5 DEF Request

LEMMA Framed ==
    ASSUME TypeOK, NEW n \in DOMAIN calls, Request(n) \/ TimeOut(n)
    PROVE  /\ ~ Ended(n)
           /\ calls' \in Seq(Call) /\ Len(calls') = Len(calls)
           /\ DOMAIN calls' = DOMAIN calls
           /\ \A m \in DOMAIN calls \ {n} : calls'[m] = calls[m]
           /\ \A m \in DOMAIN calls :
                /\ calls'[m].kind = calls[m].kind /\ calls'[m].ids = calls[m].ids
                /\ calls'[m].dim = calls[m].dim /\ calls'[m].before = calls[m].before
           /\ \A m \in DOMAIN calls : Ended(m) => Ended(m)'
BY Stepped DEF Moved, Ended

-----------------------------------------------------------------------------
(* The invariant holds at first, and every step keeps each part of it.     *)

LEMMA InitInv == Init => Inv
<1> SUFFICES ASSUME Init PROVE Inv
  OBVIOUS
<1>1. calls \in Seq(Call) /\ Len(calls) = 0 /\ DOMAIN calls = {}
  BY EmptySeq DEF Init
<1>2. live = NoHits /\ view = NoHits /\ \A i \in ChunkIds : live[i] = 0 /\ view[i] = 0
  BY DEF Init, NoHits
<1>3. TypeOK
  BY <1>1, <1>2, CallsAssumption, NoHitsWritten DEF Init, TypeOK
<1>4. QED
  BY <1>1, <1>2, <1>3 DEF Inv, CallsShaped, VersionsWritten, MappingKnown, Refreshed,
     DeletionsFind, UploadsStay

LEMMA NextTypes ==
    ASSUME TypeOK, CallsShaped, Next
    PROVE  TypeOK'
<1>1. CASE Upsert \/ DeleteDocument
  <2>1. \A m \in DOMAIN calls : Ended(m) => calls[m].todo = {}
    BY DEF TypeOK
  <2>2. QED
    BY <1>1, <2>1, Begun DEF TypeOK, Ended
<1>2. CASE Refresh
  BY <1>2 DEF TypeOK, Refresh, Ended
<1>3. ASSUME NEW n \in DOMAIN calls, Request(n) \/ TimeOut(n)
      PROVE  TypeOK'
  <2>1. /\ calls' \in Seq(Call) /\ Len(calls') <= MaxCalls /\ DOMAIN calls' = DOMAIN calls
        /\ \A m \in DOMAIN calls \ {n} : Ended(m)' => calls'[m].todo = {}
    BY <1>3, Framed DEF TypeOK, Ended
  <2>2. n \in 0 .. MaxCalls /\ calls[n].dim \in Dims \cup {0}
    BY CallTypes DEF Call
  <2>3. /\ live' \in Written /\ view' \in Written /\ dim' \in Dims \cup {0}
        /\ gone' \subseteq DOMAIN calls
    <3>1. CASE \E i \in ChunkIds : IndexItem(n, i) \/ DeleteHit(n, i)
      <4>1. PICK i \in ChunkIds : IndexItem(n, i) \/ DeleteHit(n, i)
        BY <3>1
      <4>2. live \in [ChunkIds -> 0 .. MaxCalls] /\ 0 \in 0 .. MaxCalls
        BY CallsAssumption DEF TypeOK, Written
      <4>3. live' \in [ChunkIds -> 0 .. MaxCalls]
        BY <2>2, <4>1, <4>2 DEF IndexItem, DeleteHit
      <4>4. QED
        BY <4>1, <4>3 DEF IndexItem, DeleteHit, TypeOK, Written
    <3>2. CASE ~ \E i \in ChunkIds : IndexItem(n, i) \/ DeleteHit(n, i)
      BY <1>3, <2>2, <3>2 DEF Request, TimeOut, Exists, Create, RejectItem, BulkDone,
         FindHits, DeleteDone, TypeOK
    <3>3. QED
      BY <3>1, <3>2
  <2>4. Ended(n)' => calls'[n].todo = {}
    <3>1. CASE Exists(n)
      <4>1. calls[n].kind \in {"upsert", "delete"}
        BY CallTypes DEF Call
      <4>2. QED
        BY <3>1, <4>1, ExistsMoves DEF Moved, Ended
    <3>2. CASE Create(n)
      BY <3>2, CreateMoves DEF Moved, Ended
    <3>3. CASE \E i \in ChunkIds : IndexItem(n, i) \/ RejectItem(n, i) \/ DeleteHit(n, i)
      BY <3>3, IndexItemMoves, RejectItemMoves, DeleteHitMoves
         DEF Moved, Ended, IndexItem, RejectItem, InBulk, DeleteHit
    <3>4. CASE BulkDone(n) \/ FindHits(n) \/ DeleteDone(n)
      BY <3>4, BulkDoneMoves, FindHitsMoves, DeleteDoneMoves
         DEF Moved, Ended, BulkDone, DeleteDone
    <3>5. CASE TimeOut(n)
      BY <3>5, TimeOutMoves DEF Moved, Ended, TimeOut, CallsShaped
    <3>6. QED
      BY <1>3, <3>1, <3>2, <3>3, <3>4, <3>5 DEF Request
  <2>5. QED
    BY <2>1, <2>3, <2>4 DEF TypeOK, Ended
<1>4. QED
  BY <1>1, <1>2, <1>3 DEF Next

LEMMA NextShaped ==
    ASSUME TypeOK, CallsShaped, Next
    PROVE  CallsShaped'
<1>1. CASE Upsert \/ DeleteDocument
  <2> SUFFICES ASSUME NEW m \in DOMAIN calls'
               PROVE  /\ calls'[m].todo \subseteq calls'[m].ids
                      /\ calls'[m].pc = "exists" => calls'[m].todo = {}
                      /\ calls'[m].before \subseteq {k \in DOMAIN calls' : Ended(k)'}
                      /\ calls'[m].kind = "upsert" =>
                           calls'[m].dim \in Dims /\ calls'[m].pc # "deleting"
                      /\ calls'[m].kind = "delete" =>
                           /\ calls'[m].pc \notin {"create", "lost"}
                           /\ \E doc \in Docs : calls'[m].ids = {i \in ChunkIds : DocOf[i] = doc}
    BY DEF CallsShaped
  <2>1. {k \in DOMAIN calls : Ended(k)} \subseteq {k \in DOMAIN calls' : Ended(k)'}
    BY <1>1, Begun DEF Ended
  <2>2. CASE m \in DOMAIN calls
    <3>1. calls'[m] = calls[m]
      BY <1>1, <2>2, Begun
    <3>2. calls[m].before \subseteq {k \in DOMAIN calls : Ended(k)}
      BY <2>2 DEF CallsShaped
    <3>3. QED
      BY <2>1, <2>2, <3>1, <3>2 DEF CallsShaped
  <2>3. CASE m = Len(calls) + 1
    BY <1>1, <2>1, <2>3, Begun
  <2>4. QED
    BY <1>1, <2>2, <2>3, Begun
<1>2. CASE Refresh
  BY <1>2 DEF CallsShaped, Refresh, Ended
<1>3. ASSUME NEW n \in DOMAIN calls, Request(n) \/ TimeOut(n)
      PROVE  CallsShaped'
  <2>1. {k \in DOMAIN calls : Ended(k)} \subseteq {k \in DOMAIN calls' : Ended(k)'}
    BY <1>3, Framed
  <2>2. \A m \in DOMAIN calls : calls'[m].before \subseteq {k \in DOMAIN calls' : Ended(k)'}
    BY <1>3, <2>1, Framed DEF CallsShaped
  <2>3. /\ calls'[n].todo \subseteq calls'[n].ids
        /\ calls'[n].pc = "exists" => calls'[n].todo = {}
        /\ calls[n].kind = "upsert" => calls'[n].pc # "deleting"
        /\ calls[n].kind = "delete" => calls'[n].pc \notin {"create", "lost"}
    <3>0. calls[n].kind \in {"upsert", "delete"} /\ calls'[n].ids = calls[n].ids
      BY <1>3, CallTypes, Framed DEF Call
    <3>1. CASE Exists(n)
      BY <3>0, <3>1, ExistsMoves DEF Moved
    <3>2. CASE Create(n)
      BY <3>0, <3>2, CreateMoves DEF Moved, CallsShaped, Create
    <3>3. CASE \E i \in ChunkIds : IndexItem(n, i) \/ RejectItem(n, i) \/ DeleteHit(n, i)
      <4>1. PICK i \in ChunkIds : IndexItem(n, i) \/ RejectItem(n, i) \/ DeleteHit(n, i)
        BY <3>3
      <4>2. calls'[n].pc = calls[n].pc /\ calls'[n].todo = calls[n].todo \ {i}
        BY <4>1, IndexItemMoves, RejectItemMoves, DeleteHitMoves DEF Moved
      <4>3. QED
        BY <3>0, <4>2 DEF CallsShaped
    <3>4. CASE BulkDone(n) \/ FindHits(n) \/ DeleteDone(n)
      <4>1. CASE BulkDone(n)
        <5>1. calls'[n].pc \in {"done", "failed"} /\ calls'[n].todo = calls[n].todo
              /\ calls[n].kind = "upsert"
          BY <4>1, BulkDoneMoves DEF Moved, BulkDone
        <5>2. QED
          BY <3>0, <5>1 DEF CallsShaped
      <4>2. CASE FindHits(n)
        BY <3>0, <4>2, FindHitsMoves DEF Moved, FindHits
      <4>3. CASE DeleteDone(n)
        BY <3>0, <4>3, DeleteDoneMoves DEF Moved, CallsShaped, DeleteDone
      <4>4. QED
        BY <3>4, <4>1, <4>2, <4>3
    <3>5. CASE TimeOut(n)
      BY <3>0, <3>5, TimeOutMoves DEF Moved, CallsShaped
    <3>6. QED
      BY <1>3, <3>1, <3>2, <3>3, <3>4, <3>5 DEF Request
  <2>4. QED
    BY <1>3, <2>2, <2>3, Framed DEF CallsShaped
<1>4. QED
  BY <1>1, <1>2, <1>3 DEF Next

(* The mapping, once there, stays.                                         *)
LEMMA MappingStays ==
    ASSUME TypeOK, CallsShaped, MappingKnown, Next
    PROVE  dim # 0 => dim' = dim
<1>1. CASE Upsert \/ DeleteDocument
  BY <1>1, Begun
<1>2. CASE Refresh
  BY <1>2 DEF Refresh
<1>3. ASSUME NEW n \in DOMAIN calls, Request(n) \/ TimeOut(n)
      PROVE  dim # 0 => dim' = dim
  BY <1>3 DEF Request, TimeOut, Exists, Create, IndexItem, RejectItem, BulkDone, FindHits,
     DeleteHit, DeleteDone
<1>4. QED
  BY <1>1, <1>2, <1>3 DEF Next

LEMMA NextMapping ==
    ASSUME TypeOK, CallsShaped, MappingKnown, Next
    PROVE  MappingKnown'
<1>0. dim # 0 => dim' # 0
  BY MappingStays
<1>1. CASE Upsert \/ DeleteDocument
  <2> SUFFICES ASSUME NEW m \in DOMAIN calls'
               PROVE  /\ calls'[m].kind = "upsert" /\ calls'[m].pc \in {"request", "done", "lost"} =>
                           dim' # 0
                      /\ calls'[m].pc \in {"create", "lost"} =>
                           \A k \in calls'[m].before :
                              calls'[k].kind = "delete" \/ calls'[k].pc = "failed"
    BY DEF MappingKnown
  <2>1. CASE m \in DOMAIN calls
    <3>1. calls'[m] = calls[m] /\ \A k \in calls[m].before : calls'[k] = calls[k]
      BY <1>1, <2>1, Begun DEF CallsShaped
    <3>2. QED
      BY <1>0, <2>1, <3>1 DEF MappingKnown
  <2>2. CASE m = Len(calls) + 1
    BY <1>1, <2>2, Begun
  <2>3. QED
    BY <1>1, <2>1, <2>2, Begun
<1>2. CASE Refresh
  BY <1>2 DEF MappingKnown, Refresh
<1>3. ASSUME NEW n \in DOMAIN calls, Request(n) \/ TimeOut(n)
      PROVE  MappingKnown'
  <2>1. \A m \in DOMAIN calls \ {n} : calls'[m] = calls[m] /\ calls[m].before \subseteq DOMAIN calls
    BY <1>3, Framed DEF CallsShaped
  <2>2. \A m \in DOMAIN calls : \A k \in calls[m].before :
           k \in DOMAIN calls /\ k # n /\ calls'[k] = calls[k] /\ Ended(k)
    BY <1>3, Framed DEF CallsShaped
  <2>3. /\ calls[n].kind = "upsert" /\ calls'[n].pc \in {"request", "done", "lost"} => dim' # 0
        /\ calls'[n].pc \in {"create", "lost"} =>
             \A k \in calls[n].before : calls[k].kind = "delete" \/ calls[k].pc = "failed"
    <3>0. /\ calls[n].kind \in {"upsert", "delete"}
          /\ calls[n].kind = "upsert" => calls[n].dim # 0
          /\ \A k \in calls[n].before :
               calls[k].kind \in {"upsert", "delete"} /\ calls[k].pc \in {"done", "failed", "lost"}
      BY <2>2, CallTypes, CallsAssumption DEF Call, CallsShaped, Ended
    <3>1. CASE Exists(n)
      <4>1. CASE dim # 0
        BY <1>0, <3>1, <4>1, ExistsMoves DEF Moved
      <4>2. CASE dim = 0 /\ calls[n].kind = "upsert"
        <5>1. \A k \in calls[n].before : calls[k].kind = "delete" \/ calls[k].pc = "failed"
          BY <2>2, <3>0, <4>2 DEF MappingKnown
        <5>2. QED
          BY <3>1, <4>2, <5>1, ExistsMoves DEF Moved
      <4>3. CASE dim = 0 /\ calls[n].kind = "delete"
        BY <3>1, <4>3, ExistsMoves DEF Moved
      <4>4. QED
        BY <3>0, <4>1, <4>2, <4>3
    <3>2. CASE Create(n)
      <4>1. CASE dim # 0
        BY <1>0, <3>2, <4>1, CreateMoves DEF Moved, Create, MappingKnown
      <4>2. CASE dim = 0
        BY <3>0, <3>2, <4>2, CreateMoves DEF Moved, Create, CallsShaped
      <4>3. QED
        BY <4>1, <4>2
    <3>3. CASE \E i \in ChunkIds : IndexItem(n, i) \/ RejectItem(n, i) \/ DeleteHit(n, i)
      BY <1>0, <3>3, IndexItemMoves, RejectItemMoves, DeleteHitMoves
         DEF Moved, MappingKnown, IndexItem, RejectItem, InBulk, DeleteHit
    <3>4. CASE BulkDone(n) \/ FindHits(n) \/ DeleteDone(n)
      BY <1>0, <3>0, <3>4, BulkDoneMoves, FindHitsMoves, DeleteDoneMoves
         DEF Moved, MappingKnown, CallsShaped, BulkDone, FindHits, DeleteDone
    <3>5. CASE TimeOut(n)
      BY <1>0, <3>5, TimeOutMoves DEF Moved, MappingKnown
    <3>6. QED
      BY <1>3, <3>1, <3>2, <3>3, <3>4, <3>5 DEF Request
  <2>4. QED
    BY <1>0, <1>3, <2>1, <2>2, <2>3, Framed DEF MappingKnown
<1>4. QED
  BY <1>1, <1>2, <1>3 DEF Next

(* How a step changes what the index holds, what searches see of it, and   *)
(* what the deletions have found.                                          *)
LEMMA LiveSteps ==
    ASSUME TypeOK, Next, NEW i \in ChunkIds
    PROVE  \/ live'[i] = live[i]
           \/ \E n \in DOMAIN calls : IndexItem(n, i) /\ live'[i] = n
           \/ \E n \in DOMAIN calls :
                DeleteHit(n, i) /\ live[i] = calls[n].hits[i] /\ live'[i] = 0
<1>1. CASE Upsert \/ DeleteDocument
  BY <1>1, Begun
<1>2. CASE Refresh
  BY <1>2 DEF Refresh
<1>3. ASSUME NEW n \in DOMAIN calls, Request(n) \/ TimeOut(n)
      PROVE  \/ live'[i] = live[i]
             \/ IndexItem(n, i) /\ live'[i] = n
             \/ DeleteHit(n, i) /\ live[i] = calls[n].hits[i] /\ live'[i] = 0
  <2>1. live \in [ChunkIds -> 0 .. MaxCalls]
    BY DEF TypeOK, Written
  <2>2. ASSUME NEW j \in ChunkIds, IndexItem(n, j)
        PROVE  live'[i] = live[i] \/ (IndexItem(n, i) /\ live'[i] = n)
    <3>1. CASE j = i
      <4>1. live'[i] = n
        BY <2>1, <2>2, <3>1 DEF IndexItem
      <4>2. QED
        BY <2>2, <3>1, <4>1
    <3>2. CASE j # i
      BY <2>1, <2>2, <3>2 DEF IndexItem
    <3>3. QED
      BY <3>1, <3>2
  <2>3. ASSUME NEW j \in ChunkIds, DeleteHit(n, j)
        PROVE  \/ live'[i] = live[i]
               \/ DeleteHit(n, i) /\ live[i] = calls[n].hits[i] /\ live'[i] = 0
    BY <2>1, <2>3 DEF DeleteHit
  <2>4. CASE ~ \E j \in ChunkIds : IndexItem(n, j) \/ DeleteHit(n, j)
    BY <1>3, <2>4 DEF Request, TimeOut, Exists, Create, RejectItem, BulkDone, FindHits, DeleteDone
  <2>5. QED
    BY <2>2, <2>3, <2>4
<1>4. QED
  BY <1>1, <1>2, <1>3 DEF Next

LEMMA ViewSteps ==
    ASSUME TypeOK, Next
    PROVE  view' = view \/ (view' = live /\ live' = live)
<1>1. CASE Upsert \/ DeleteDocument
  BY <1>1, Begun
<1>2. CASE Refresh
  BY <1>2 DEF Refresh
<1>3. ASSUME NEW n \in DOMAIN calls, Request(n) \/ TimeOut(n)
      PROVE  view' = view \/ (view' = live /\ live' = live)
  <2>1. CASE BulkDone(n) \/ DeleteDone(n)
    BY <2>1 DEF BulkDone, DeleteDone
  <2>2. CASE \E i \in ChunkIds : IndexItem(n, i) \/ RejectItem(n, i) \/ DeleteHit(n, i)
    BY <2>2 DEF IndexItem, RejectItem, DeleteHit
  <2>3. CASE Exists(n) \/ Create(n) \/ FindHits(n) \/ TimeOut(n)
    BY <2>3 DEF Exists, Create, FindHits, TimeOut
  <2>4. QED
    BY <1>3, <2>1, <2>2, <2>3 DEF Request
<1>4. QED
  BY <1>1, <1>2, <1>3 DEF Next

LEMMA HitsSteps ==
    ASSUME TypeOK, Next, NEW m \in DOMAIN calls', calls'[m].pc = "deleting"
    PROVE  /\ m \in DOMAIN calls
           /\ \/ calls[m].pc = "deleting" /\ calls'[m].hits = calls[m].hits
              \/ /\ FindHits(m) /\ calls'[m].hits = view
                 /\ calls'[m].todo = {i \in calls[m].ids : view[i] # 0}
<1>1. CASE Upsert \/ DeleteDocument
  BY <1>1, Begun
<1>2. CASE Refresh
  BY <1>2 DEF Refresh
<1>3. ASSUME NEW n \in DOMAIN calls, Request(n) \/ TimeOut(n)
      PROVE  /\ m \in DOMAIN calls
             /\ \/ calls[m].pc = "deleting" /\ calls'[m].hits = calls[m].hits
                \/ /\ FindHits(m) /\ calls'[m].hits = view
                   /\ calls'[m].todo = {i \in calls[m].ids : view[i] # 0}
  <2>1. CASE m # n
    BY <1>3, <2>1, Framed
  <2>2. CASE m = n
    <3>1. CASE Exists(n)
      <4>1. calls[n].kind \in {"upsert", "delete"}
        BY CallTypes DEF Call
      <4>2. QED
        BY <2>2, <3>1, <4>1, ExistsMoves DEF Moved
    <3>2. CASE Create(n)
      BY <2>2, <3>2, CreateMoves DEF Moved
    <3>3. CASE \E i \in ChunkIds : IndexItem(n, i) \/ RejectItem(n, i) \/ DeleteHit(n, i)
      BY <2>2, <3>3, IndexItemMoves, RejectItemMoves, DeleteHitMoves DEF Moved
    <3>4. CASE BulkDone(n) \/ FindHits(n) \/ DeleteDone(n) \/ TimeOut(n)
      BY <2>2, <3>4, BulkDoneMoves, FindHitsMoves, DeleteDoneMoves, TimeOutMoves DEF Moved
    <3>5. QED
      BY <1>3, <3>1, <3>2, <3>3, <3>4 DEF Request
  <2>3. QED
    BY <2>1, <2>2
<1>4. QED
  BY <1>1, <1>2, <1>3 DEF Next

(* What an upsert has written stays written by it.                         *)
LEMMA WrittenStays ==
    ASSUME TypeOK, CallsShaped, MappingKnown, Next, NEW m, NEW i \in ChunkIds, WrittenBy(m, i)
    PROVE  WrittenBy(m, i)'
<1>0. dim' = dim /\ m \in DOMAIN calls /\ calls[m].kind = "upsert"
  BY MappingStays DEF WrittenBy
<1>1. CASE Upsert \/ DeleteDocument
  BY <1>0, <1>1, Begun DEF WrittenBy
<1>2. CASE Refresh
  BY <1>2 DEF WrittenBy, Refresh
<1>3. ASSUME NEW n \in DOMAIN calls, Request(n) \/ TimeOut(n)
      PROVE  WrittenBy(m, i)'
  <2>1. CASE m # n
    BY <1>0, <1>3, <2>1, Framed DEF WrittenBy
  <2>2. CASE m = n
    <3>1. calls'[n].pc \in {"request", "done", "failed"} /\ calls'[n].todo \subseteq calls[n].todo
      <4>1. calls[n].pc = "request"
        BY <1>3, <2>2, Framed DEF WrittenBy, Ended
      <4>2. CASE \E j \in ChunkIds : IndexItem(n, j) \/ RejectItem(n, j) \/ DeleteHit(n, j)
        BY <4>1, <4>2, IndexItemMoves, RejectItemMoves, DeleteHitMoves DEF Moved
      <4>3. CASE BulkDone(n)
        BY <4>3, BulkDoneMoves DEF Moved
      <4>4. CASE TimeOut(n)
        BY <4>1, <4>4, TimeOutMoves DEF Moved
      <4>5. QED
        BY <1>0, <1>3, <2>2, <4>1, <4>2, <4>3, <4>4
           DEF Request, Exists, Create, FindHits, DeleteDone
    <3>2. QED
      BY <1>0, <1>3, <2>2, <3>1, Framed DEF WrittenBy
  <2>3. QED
    BY <2>1, <2>2
<1>4. QED
  BY <1>1, <1>2, <1>3 DEF Next

LEMMA NextVersions ==
    ASSUME TypeOK, CallsShaped, MappingKnown, VersionsWritten, Next
    PROVE  VersionsWritten'
<1> SUFFICES ASSUME NEW i \in ChunkIds
             PROVE  /\ \A v : v = live'[i] /\ v # 0 => WrittenBy(v, i)'
                    /\ \A v : v = view'[i] /\ v # 0 => WrittenBy(v, i)'
                    /\ \A m \in DOMAIN calls' : \A v :
                         calls'[m].pc = "deleting" /\ v = calls'[m].hits[i] /\ v # 0 =>
                             WrittenBy(v, i)'
  BY DEF VersionsWritten, WrittenBy
<1>1. ASSUME NEW n \in DOMAIN calls, IndexItem(n, i) PROVE WrittenBy(n, i)'
  <2>1. calls'[n].pc = "request" /\ calls'[n].todo = calls[n].todo \ {i}
    BY <1>1, IndexItemMoves DEF Moved, IndexItem, InBulk
  <2>2. i \in calls[n].ids /\ dim # 0 /\ calls[n].dim = dim /\ calls[n].kind = "upsert"
    BY <1>1 DEF IndexItem, InBulk, CallsShaped, MappingKnown
  <2>3. dim' = dim
    BY <1>1 DEF IndexItem
  <2>4. n \in DOMAIN calls' /\ calls'[n].ids = calls[n].ids
        /\ calls'[n].kind = calls[n].kind /\ calls'[n].dim = calls[n].dim
    BY <1>1, IndexItemMoves DEF Moved
  <2>5. QED
    BY <2>1, <2>2, <2>3, <2>4 DEF WrittenBy
<1>2. \A v : (v = live[i] \/ v = view[i]) /\ v # 0 => WrittenBy(v, i)
  BY DEF VersionsWritten
<1>3. \A v : (v = live[i] \/ v = view[i]) /\ v # 0 => WrittenBy(v, i)'
  BY <1>2, WrittenStays
<1>4. \A v : v = live'[i] /\ v # 0 => WrittenBy(v, i)'
  <2>1. \/ live'[i] = live[i]
        \/ \E n \in DOMAIN calls : IndexItem(n, i) /\ live'[i] = n
        \/ live'[i] = 0
    BY LiveSteps
  <2>2. QED
    BY <1>1, <1>3, <2>1
<1>5. \A v : v = view'[i] /\ v # 0 => WrittenBy(v, i)'
  BY <1>3, ViewSteps
<1>6. ASSUME NEW m \in DOMAIN calls', calls'[m].pc = "deleting",
             NEW v, v = calls'[m].hits[i], v # 0
      PROVE  WrittenBy(v, i)'
  <2>1. \/ m \in DOMAIN calls /\ calls[m].pc = "deleting" /\ calls'[m].hits = calls[m].hits
        \/ calls'[m].hits = view
    BY <1>6, HitsSteps
  <2>2. CASE calls'[m].hits = view
    BY <1>3, <1>6, <2>2
  <2>3. CASE m \in DOMAIN calls /\ calls[m].pc = "deleting" /\ calls'[m].hits = calls[m].hits
    <3>1. WrittenBy(v, i)
      BY <1>6, <2>3 DEF VersionsWritten
    <3>2. QED
      BY <3>1, WrittenStays
  <2>4. QED
    BY <2>1, <2>2, <2>3
<1>7. QED
  BY <1>4, <1>5, <1>6

(* A call keeps what it was made with, and does not change once it ended.  *)
LEMMA Kept ==
    ASSUME TypeOK, Next, NEW m \in DOMAIN calls
    PROVE  /\ m \in DOMAIN calls'
           /\ calls'[m].kind = calls[m].kind /\ calls'[m].ids = calls[m].ids
           /\ calls'[m].dim = calls[m].dim /\ calls'[m].before = calls[m].before
           /\ Ended(m) => calls'[m] = calls[m]
<1>1. CASE Upsert \/ DeleteDocument
  BY <1>1, Begun
<1>2. CASE Refresh
  BY <1>2 DEF Refresh
<1>3. ASSUME NEW n \in DOMAIN calls, Request(n) \/ TimeOut(n)
      PROVE  /\ m \in DOMAIN calls'
             /\ calls'[m].kind = calls[m].kind /\ calls'[m].ids = calls[m].ids
             /\ calls'[m].dim = calls[m].dim /\ calls'[m].before = calls[m].before
             /\ Ended(m) => calls'[m] = calls[m]
  BY <1>3, Framed
<1>4. QED
  BY <1>1, <1>2, <1>3 DEF Next

(* A call that is not one of those there are has only just begun.          *)
LEMMA Newcomer ==
    ASSUME TypeOK, Next, NEW m \in DOMAIN calls', m \notin DOMAIN calls
    PROVE  calls'[m].pc = "exists" /\ UNCHANGED <<dim, live, view, gone>>
<1>1. CASE Upsert \/ DeleteDocument
  BY <1>1, Begun
<1>2. CASE Refresh
  BY <1>2 DEF Refresh
<1>3. CASE \E n \in DOMAIN calls : Request(n) \/ TimeOut(n)
  BY <1>3, Framed
<1>4. QED
  BY <1>1, <1>2, <1>3 DEF Next

(* A bulk request that ends, and a deletion that ends, refresh the index.  *)
LEMMA BulkSteps ==
    ASSUME TypeOK, Next, NEW m \in DOMAIN calls,
           calls[m].kind = "upsert", calls[m].pc = "request"
    PROVE  calls'[m].pc = "request" \/ (view' = live /\ live' = live)
<1>1. CASE Upsert \/ DeleteDocument
  BY <1>1, Begun
<1>2. CASE Refresh
  BY <1>2 DEF Refresh
<1>3. ASSUME NEW n \in DOMAIN calls, Request(n) \/ TimeOut(n)
      PROVE  calls'[m].pc = "request" \/ (view' = live /\ live' = live)
  <2>1. CASE m # n
    BY <1>3, <2>1, Framed
  <2>2. CASE m = n
    <3>1. CASE \E i \in ChunkIds : IndexItem(n, i) \/ RejectItem(n, i) \/ DeleteHit(n, i)
      BY <2>2, <3>1, IndexItemMoves, RejectItemMoves, DeleteHitMoves DEF Moved
    <3>2. CASE BulkDone(n)
      BY <3>2 DEF BulkDone
    <3>3. CASE TimeOut(n)
      BY <2>2, <3>3, TimeOutMoves DEF Moved
    <3>4. QED
      BY <1>3, <2>2, <3>1, <3>2, <3>3 DEF Request, Exists, Create, FindHits, DeleteDone
  <2>3. QED
    BY <2>1, <2>2
<1>4. QED
  BY <1>1, <1>2, <1>3 DEF Next

LEMMA DeletingSteps ==
    ASSUME TypeOK, Next, NEW m \in DOMAIN calls, calls[m].pc = "deleting"
    PROVE  \/ /\ calls'[m].pc = "deleting" /\ calls'[m].hits = calls[m].hits
              /\ \A i \in calls[m].todo \ calls'[m].todo : DeleteHit(m, i)
           \/ calls[m].todo = {} /\ view' = live /\ live' = live
<1>1. CASE Upsert \/ DeleteDocument
  BY <1>1, Begun
<1>2. CASE Refresh
  BY <1>2 DEF Refresh
<1>3. ASSUME NEW n \in DOMAIN calls, Request(n) \/ TimeOut(n)
      PROVE  \/ /\ calls'[m].pc = "deleting" /\ calls'[m].hits = calls[m].hits
                /\ \A i \in calls[m].todo \ calls'[m].todo : DeleteHit(m, i)
             \/ calls[m].todo = {} /\ view' = live /\ live' = live
  <2>1. CASE m # n
    BY <1>3, <2>1, Framed
  <2>2. CASE m = n
    <3>1. CASE \E i \in ChunkIds : DeleteHit(n, i)
      BY <2>2, <3>1, DeleteHitMoves DEF Moved
    <3>2. CASE DeleteDone(n)
      BY <2>2, <3>2 DEF DeleteDone
    <3>3. CASE TimeOut(n)
      BY <2>2, <3>3, TimeOutMoves DEF Moved
    <3>4. QED
      BY <1>3, <2>2, <3>1, <3>2, <3>3
         DEF Request, Exists, Create, IndexItem, RejectItem, InBulk, BulkDone, FindHits
  <2>3. QED
    BY <2>1, <2>2
<1>4. QED
  BY <1>1, <1>2, <1>3 DEF Next

LEMMA NextRefreshed ==
    ASSUME TypeOK, CallsShaped, VersionsWritten, Refreshed, Next
    PROVE  Refreshed'
<1>1. CASE view' = live /\ live' = live
  BY <1>1 DEF Refreshed
<1>2. CASE view' = view /\ ~ (view' = live /\ live' = live)
  <2> SUFFICES ASSUME NEW i \in ChunkIds
               PROVE  /\ \A v : v = live'[i] /\ v # 0 /\ Ended(v)' => view'[i] = v
                      /\ live'[i] = 0 /\ view'[i] # 0 =>
                           \E n \in DOMAIN calls' : calls'[n].pc = "deleting" /\ i \in calls'[n].ids
    BY DEF Refreshed, Ended
  <2>1. ASSUME NEW v, v = live'[i], v # 0, Ended(v)'
        PROVE  view'[i] = v
    <3>1. v = live[i]
      <4>1. ASSUME v \in DOMAIN calls, IndexItem(v, i) PROVE FALSE
        BY <2>1, <4>1, IndexItemMoves DEF Moved, Ended, IndexItem, InBulk
      <4>2. QED
        BY <2>1, <4>1, LiveSteps
    <3>2. v \in DOMAIN calls /\ calls[v].kind = "upsert"
          /\ calls[v].pc \in {"request", "done", "failed"}
      BY <2>1, <3>1 DEF VersionsWritten, WrittenBy
    <3>3. calls[v].pc # "request"
      BY <1>2, <2>1, <3>2, BulkSteps DEF Ended
    <3>4. QED
      BY <1>2, <2>1, <3>1, <3>2, <3>3 DEF Refreshed, Ended
  <2>2. ASSUME live'[i] = 0, view'[i] # 0
        PROVE  \E n \in DOMAIN calls' : calls'[n].pc = "deleting" /\ i \in calls'[n].ids
    <3>1. \E n \in DOMAIN calls : calls[n].pc = "deleting" /\ i \in calls[n].ids
      <4>1. \A n \in DOMAIN calls : n # 0
        BY CallTypes
      <4>2. CASE live[i] = 0
        BY <1>2, <2>2, <4>2 DEF Refreshed
      <4>3. CASE \E n \in DOMAIN calls : DeleteHit(n, i)
        BY <4>3 DEF DeleteHit, CallsShaped
      <4>4. QED
        BY <2>2, <4>1, <4>2, <4>3, LiveSteps
    <3>2. PICK n \in DOMAIN calls : calls[n].pc = "deleting" /\ i \in calls[n].ids
      BY <3>1
    <3>3. calls'[n].pc = "deleting"
      BY <1>2, <3>2, DeletingSteps
    <3>4. QED
      BY <3>2, <3>3, Kept
  <2>3. QED
    BY <2>1, <2>2
<1>3. QED
  BY <1>1, <1>2, ViewSteps

(* A deletion that finds something to delete does not return before it has *)
(* searched, and its search finds what it must delete.                     *)
LEMMA DeleteSteps ==
    ASSUME TypeOK, CallsShaped, Next, NEW m \in DOMAIN calls, calls[m].kind = "delete"
    PROVE  /\ calls'[m].pc = "done" =>
                \/ calls[m].pc = "done"
                \/ calls[m].pc = "exists" /\ dim = 0
                \/ calls[m].pc = "deleting" /\ calls[m].todo = {}
<1>1. CASE Upsert \/ DeleteDocument
  BY <1>1, Begun
<1>2. CASE Refresh
  BY <1>2 DEF Refresh
<1>3. ASSUME NEW n \in DOMAIN calls, Request(n) \/ TimeOut(n), calls'[m].pc = "done"
      PROVE  \/ calls[m].pc = "done"
             \/ calls[m].pc = "exists" /\ dim = 0
             \/ calls[m].pc = "deleting" /\ calls[m].todo = {}
  <2>1. CASE m # n
    BY <1>3, <2>1, Framed
  <2>2. CASE m = n
    <3>1. CASE Exists(n)
      BY <1>3, <2>2, <3>1, ExistsMoves DEF Moved, Exists
    <3>2. CASE Create(n)
      BY <2>2, <3>2 DEF Create, CallsShaped
    <3>3. CASE \E i \in ChunkIds : IndexItem(n, i) \/ RejectItem(n, i) \/ DeleteHit(n, i)
      BY <1>3, <2>2, <3>3, IndexItemMoves, RejectItemMoves, DeleteHitMoves DEF Moved
    <3>4. CASE BulkDone(n) \/ DeleteDone(n)
      BY <2>2, <3>4 DEF BulkDone, DeleteDone
    <3>5. CASE FindHits(n) \/ TimeOut(n)
      BY <1>3, <2>2, <3>5, FindHitsMoves, TimeOutMoves DEF Moved
    <3>6. QED
      BY <1>3, <3>1, <3>2, <3>3, <3>4, <3>5 DEF Request
  <2>3. QED
    BY <2>1, <2>2
<1>4. QED
  BY <1>1, <1>2, <1>3 DEF Next

LEMMA NextDeletions ==
    ASSUME TypeOK, CallsShaped, VersionsWritten, Refreshed, DeletionsFind, Next
    PROVE  DeletionsFind'
<1> SUFFICES ASSUME NEW n \in DOMAIN calls', calls'[n].kind = "delete",
                    NEW i \in calls'[n].ids, live'[i] \in calls'[n].before
             PROVE  /\ calls'[n].pc # "done"
                    /\ calls'[n].pc = "deleting" =>
                         i \in calls'[n].todo /\ calls'[n].hits[i] = live'[i]
  BY DEF DeletionsFind
<1>1. CASE n \notin DOMAIN calls
  BY <1>1, Newcomer
<1>2. CASE n \in DOMAIN calls
  <2>1. calls[n].kind = "delete" /\ i \in calls[n].ids /\ live'[i] \in calls[n].before
    BY <1>2, Kept
  <2>2. i \in ChunkIds
    BY <1>2, <2>1, CallTypes DEF Call
  <2>3. live'[i] \in DOMAIN calls /\ Ended(live'[i]) /\ live'[i] # 0
    BY <1>2, <2>1, CallTypes DEF CallsShaped
  <2>4. live'[i] = live[i]
    <3>1. ~ IndexItem(live'[i], i)
      BY <2>3 DEF IndexItem, InBulk, Ended
    <3>2. QED
      BY <2>2, <2>3, <3>1, LiveSteps
  <2>5. /\ calls[n].pc # "done"
        /\ calls[n].pc = "deleting" => i \in calls[n].todo /\ calls[n].hits[i] = live[i]
    BY <1>2, <2>1, <2>4 DEF DeletionsFind
  <2>6. view[i] = live[i] /\ dim # 0
    BY <2>2, <2>3, <2>4 DEF Refreshed, VersionsWritten, WrittenBy
  <2>7. calls'[n].pc # "done"
    BY <1>2, <2>1, <2>5, <2>6, DeleteSteps
  <2>8. ASSUME calls'[n].pc = "deleting"
        PROVE  i \in calls'[n].todo /\ calls'[n].hits[i] = live'[i]
    <3>1. CASE calls[n].pc = "deleting" /\ calls'[n].hits = calls[n].hits
      <4>1. ~ DeleteHit(n, i)
        <5>1. SUFFICES ASSUME DeleteHit(n, i) PROVE live'[i] = 0
          BY <2>3
        <5>2. live \in [ChunkIds -> 0 .. MaxCalls]
          BY DEF TypeOK, Written
        <5>3. QED
          BY <2>2, <2>5, <3>1, <5>1, <5>2 DEF DeleteHit
      <4>2. calls[n].todo # {}
        BY <2>5, <3>1
      <4>3. QED
        BY <1>2, <2>4, <2>5, <3>1, <4>1, <4>2, DeletingSteps
    <3>2. CASE calls'[n].hits = view /\ calls'[n].todo = {j \in calls[n].ids : view[j] # 0}
      BY <2>1, <2>3, <2>4, <2>6, <3>2
    <3>3. QED
      BY <2>8, <3>1, <3>2, HitsSteps
  <2>9. QED
    BY <2>7, <2>8
<1>3. QED
  BY <1>1, <1>2

(* An upsert that has not failed has no item fewer to do than it was       *)
(* called with, but for those it has indexed.                              *)
LEMMA UpsertSteps ==
    ASSUME TypeOK, CallsShaped, Next, NEW m \in DOMAIN calls, calls[m].kind = "upsert"
    PROVE  /\ calls'[m].pc = "done" => calls[m].pc = "done" \/ calls'[m].ok
           /\ calls'[m].pc \in {"create", "request", "done"} /\ calls'[m].ok =>
                \/ calls'[m].todo = calls[m].ids
                \/ /\ calls[m].pc \in {"create", "request", "done"} /\ calls[m].ok
                   /\ \A i \in calls[m].todo \ calls'[m].todo : IndexItem(m, i)
<1> DEFINE Goal ==
      /\ calls'[m].pc = "done" => calls[m].pc = "done" \/ calls'[m].ok
      /\ calls'[m].pc \in {"create", "request", "done"} /\ calls'[m].ok =>
           \/ calls'[m].todo = calls[m].ids
           \/ /\ calls[m].pc \in {"create", "request", "done"} /\ calls[m].ok
              /\ \A i \in calls[m].todo \ calls'[m].todo : IndexItem(m, i)
<1>1. CASE Upsert \/ DeleteDocument
  BY <1>1, Begun
<1>2. CASE Refresh
  BY <1>2 DEF Refresh
<1>3. ASSUME NEW n \in DOMAIN calls, Request(n) \/ TimeOut(n)
      PROVE  Goal
  <2>1. CASE m # n
    BY <1>3, <2>1, Framed
  <2>2. CASE m = n
    <3>1. CASE Exists(n)
      BY <2>2, <3>1, ExistsMoves DEF Moved
    <3>2. CASE Create(n)
      BY <2>2, <3>2, CreateMoves DEF Moved, Create
    <3>3. CASE \E i \in ChunkIds : IndexItem(n, i)
      <4>1. PICK i \in ChunkIds : IndexItem(n, i)
        BY <3>3
      <4>2. /\ calls'[n].pc = calls[n].pc /\ calls'[n].todo = calls[n].todo \ {i}
            /\ calls'[n].ok = calls[n].ok
        BY <4>1, IndexItemMoves DEF Moved
      <4>3. calls[n].pc = "request"
        BY <4>1 DEF IndexItem, InBulk
      <4>4. QED
        BY <2>2, <4>1, <4>2, <4>3
    <3>4. CASE \E i \in ChunkIds : RejectItem(n, i)
      <4>1. calls[n].pc = "request"
        BY <3>4 DEF RejectItem, InBulk
      <4>2. QED
        BY <2>2, <3>4, <4>1, RejectItemMoves DEF Moved
    <3>5. CASE \E i \in ChunkIds : DeleteHit(n, i)
      BY <2>2, <3>5 DEF DeleteHit, CallsShaped
    <3>6. CASE BulkDone(n)
      <4>1. calls[n].pc = "request"
        BY <3>6 DEF BulkDone
      <4>2. /\ calls'[n].pc = IF calls[n].ok THEN "done" ELSE "failed"
            /\ calls'[n].ok = calls[n].ok /\ calls'[n].todo = calls[n].todo
        BY <3>6, BulkDoneMoves DEF Moved
      <4>3. calls[n].ok \in BOOLEAN
        BY CallTypes DEF Call
      <4>4. QED
        BY <2>2, <4>1, <4>2, <4>3
    <3>7. CASE FindHits(n) \/ DeleteDone(n)
      BY <2>2, <3>7 DEF FindHits, DeleteDone, CallsShaped
    <3>8. CASE TimeOut(n)
      BY <2>2, <3>8, TimeOutMoves DEF Moved
    <3>9. QED
      BY <1>3, <3>1, <3>2, <3>3, <3>4, <3>5, <3>6, <3>7, <3>8 DEF Request
  <2>3. QED
    BY <2>1, <2>2
<1>4. QED
  BY <1>1, <1>2, <1>3 DEF Next

LEMMA NextUploads ==
    ASSUME TypeOK, CallsShaped, UploadsStay, Next
    PROVE  UploadsStay'
<1> SUFFICES ASSUME NEW n \in DOMAIN calls', calls'[n].kind = "upsert"
             PROVE  /\ calls'[n].pc = "done" => calls'[n].ok
                    /\ calls'[n].pc \in {"create", "request", "done"} /\ calls'[n].ok =>
                         \A i \in calls'[n].ids \ calls'[n].todo :
                            \/ live'[i] = n
                            \/ \E m \in DOMAIN calls' \ (calls'[n].before \cup {n}) :
                                  i \in calls'[m].ids
  BY DEF UploadsStay
<1>1. CASE n \notin DOMAIN calls
  BY <1>1, Newcomer
<1>2. CASE n \in DOMAIN calls
  <2>1. /\ calls[n].kind = "upsert" /\ calls'[n].ids = calls[n].ids
        /\ calls'[n].before = calls[n].before
        /\ Ended(n) => calls'[n] = calls[n]
    BY <1>2, Kept
  <2>2. calls'[n].pc = "done" => calls'[n].ok
    BY <1>2, <2>1, UpsertSteps DEF UploadsStay, Ended
  <2>3. ASSUME calls'[n].pc \in {"create", "request", "done"}, calls'[n].ok,
               NEW i \in calls[n].ids \ calls'[n].todo
        PROVE  \/ live'[i] = n
               \/ \E m \in DOMAIN calls' \ (calls[n].before \cup {n}) : i \in calls'[m].ids
    <3>1. i \in ChunkIds
      BY <1>2, <2>3, CallTypes DEF Call
    <3>2. CASE i \in calls[n].todo
      <4>1. IndexItem(n, i)
        BY <1>2, <2>1, <2>3, <3>2, UpsertSteps
      <4>2. live \in [ChunkIds -> 0 .. MaxCalls]
        BY DEF TypeOK, Written
      <4>3. QED
        BY <3>1, <4>1, <4>2 DEF IndexItem
    <3>3. CASE i \notin calls[n].todo
      <4>1. \/ live[i] = n
            \/ \E m \in DOMAIN calls \ (calls[n].before \cup {n}) : i \in calls[m].ids
        <5>1. calls[n].pc \in {"create", "request", "done"} /\ calls[n].ok
          BY <1>2, <2>1, <2>3, UpsertSteps
        <5>2. QED
          BY <1>2, <2>1, <2>3, <3>3, <5>1 DEF UploadsStay
      <4>2. ASSUME NEW m \in DOMAIN calls \ (calls[n].before \cup {n}), i \in calls[m].ids
            PROVE  \E k \in DOMAIN calls' \ (calls[n].before \cup {n}) : i \in calls'[k].ids
        BY <4>2, Kept
      <4>3. ASSUME NEW m \in DOMAIN calls, m # n, IndexItem(m, i) \/ DeleteHit(m, i)
            PROVE  m \notin calls[n].before /\ i \in calls[m].ids
        BY <1>2, <4>3 DEF IndexItem, InBulk, DeleteHit, CallsShaped, Ended
      <4>4. ASSUME live[i] = n
            PROVE  \/ live'[i] = n
                   \/ \E m \in DOMAIN calls \ (calls[n].before \cup {n}) : i \in calls[m].ids
        <5>1. ~ DeleteHit(n, i)
          BY <1>2, <2>1 DEF DeleteHit, CallsShaped
        <5>2. QED
          BY <3>1, <4>3, <4>4, <5>1, LiveSteps
      <4>5. QED
        BY <4>1, <4>2, <4>4
    <3>4. QED
      BY <3>2, <3>3
  <2>4. QED
    BY <2>1, <2>2, <2>3
<1>3. QED
  BY <1>1, <1>2

LEMMA InvariantHolds == Spec => []Inv
<1>1. Inv /\ [Next]_vars => Inv'
  <2>1. CASE Next
    BY <2>1, NextTypes, NextShaped, NextMapping, NextVersions, NextRefreshed, NextDeletions,
       NextUploads DEF Inv
  <2>2. CASE UNCHANGED vars
    BY <2>2 DEF vars, Inv, TypeOK, CallsShaped, VersionsWritten, WrittenBy, MappingKnown,
       Refreshed, DeletionsFind, UploadsStay, Ended
  <2>3. QED
    BY <2>1, <2>2
<1>2. QED
  BY <1>1, InitInv, PTL DEF Spec

-----------------------------------------------------------------------------
(* What the requests of overlapping calls keep true of the index.          *)

(* The variables stay in their types, and a call that ended has nothing    *)
(* left to do.                                                             *)
THEOREM CallsTypeCorrect == Spec => []TypeOK
<1>1. Inv => TypeOK
  BY DEF Inv
<1>2. QED
  BY <1>1, InvariantHolds, PTL

(* When delete_document returns, nothing of the document is left that an   *)
(* upsert wrote which had ended before it began.                           *)
THEOREM DeletionsTakeEffect == Spec => []DeleteIsEffective
<1>1. Inv => DeleteIsEffective
  BY DEF Inv, DeletionsFind, DeleteIsEffective
<1>2. QED
  BY <1>1, InvariantHolds, PTL

(* What an upsert that returned wrote is undone only by a call that        *)
(* overlaps it or came later.                                              *)
THEOREM UploadsAreKept == Spec => []NoCallUndone
<1>1. Inv => NoCallUndone
  <2> SUFFICES ASSUME Inv, NEW n \in DOMAIN calls,
                      calls[n].kind = "upsert", calls[n].pc = "done",
                      NEW i \in calls[n].ids
               PROVE  \/ live[i] = n
                      \/ \E m \in DOMAIN calls \ (calls[n].before \cup {n}) : i \in calls[m].ids
    BY DEF NoCallUndone
  <2>1. calls[n].todo = {} /\ calls[n].ok
    BY DEF Inv, TypeOK, Ended, UploadsStay
  <2>2. QED
    BY <2>1 DEF Inv, UploadsStay
<1>2. QED
  BY <1>1, InvariantHolds, PTL

(* When no call touches a chunk any more, searches see it as it is.        *)
THEOREM SearchesCatchUp == Spec => []SearchesSeeFinishedCalls
<1>1. Inv => SearchesSeeFinishedCalls
  <2> SUFFICES ASSUME Inv, NEW i \in ChunkIds,
                      \A n \in DOMAIN calls : i \in calls[n].ids => Ended(n)
               PROVE  view[i] = live[i]
    BY DEF SearchesSeeFinishedCalls
  <2>1. CASE live[i] # 0
    BY <2>1 DEF Inv, VersionsWritten, WrittenBy, Refreshed
  <2>2. CASE live[i] = 0
    BY <2>2 DEF Inv, Refreshed, Ended
  <2>3. QED
    BY <2>1, <2>2
<1>2. QED
  BY <1>1, InvariantHolds, PTL

(* No document is in an index without a mapping, or of another width.      *)
THEOREM IndexStaysSearchable == Spec => []DocumentsSearchable
<1>1. Inv => DocumentsSearchable
  BY DEF Inv, VersionsWritten, WrittenBy, DocumentsSearchable
<1>2. QED
  BY <1>1, InvariantHolds, PTL

(* A call that began after one which returned, or which lost the race to   *)
(* create the index, does not lose it.                                     *)
THEOREM RetryGetsPastTheRace == Spec => []RaceLostOnce
<1>1. Inv => RaceLostOnce
  BY DEF Inv, MappingKnown, RaceLostOnce
<1>2. QED
  BY <1>1, InvariantHolds, PTL

-----------------------------------------------------------------------------
(* Each request acts as if at once: the calls implement StoreCalls.        *)

(* The index as a caller may take it: what a deletion will delete is gone. *)
Index == [i \in ChunkIds |-> IF Doomed(i) THEN 0 ELSE live[i]]

Acts == Atomic!Next \/ UNCHANGED <<Index, OpenUpserts>>

LEMMA OpenUpsertActs ==
    ASSUME NEW n, n \notin OpenUpserts, OpenUpserts' = OpenUpserts \cup {n}, Index' = Index
    PROVE  Acts
<1>1. Atomic!OpenUpsert
  BY DEF Atomic!OpenUpsert, Index
<1>2. QED
  BY <1>1 DEF Acts, Atomic!Next

LEMMA CloseUpsertActs ==
    ASSUME NEW n, n \in OpenUpserts, OpenUpserts' = OpenUpserts \ {n}, Index' = Index
    PROVE  Acts
<1>1. Atomic!CloseUpsert
  BY DEF Atomic!CloseUpsert, Index
<1>2. QED
  BY <1>1 DEF Acts, Atomic!Next

LEMMA PutActs ==
    ASSUME NEW n \in OpenUpserts, NEW i \in ChunkIds,
           OpenUpserts' = OpenUpserts, Index' = [Index EXCEPT ![i] = n]
    PROVE  Acts
<1>1. Atomic!Put
  BY DEF Atomic!Put, Index
<1>2. QED
  BY <1>1 DEF Acts, Atomic!Next

LEMMA EvictActs ==
    ASSUME NEW i \in ChunkIds, NEW spared \in SUBSET {j \in ChunkIds : Index[j] \in OpenUpserts},
           OpenUpserts' = OpenUpserts,
           Index' = [j \in ChunkIds |->
                       IF DocOf[j] = DocOf[i] /\ j \notin spared THEN 0 ELSE Index[j]]
    PROVE  Acts
<1>1. Atomic!Evict
  BY DEF Atomic!Evict, Index
<1>2. QED
  BY <1>1 DEF Acts, Atomic!Next

(* Deletion n has found chunk j and will delete it.                        *)
DoomedBy(n, j) ==
    calls[n].pc = "deleting" /\ j \in calls[n].todo /\ live[j] = calls[n].hits[j]

LEMMA OthersDoom ==
    ASSUME TypeOK, NEW n \in DOMAIN calls, Request(n) \/ TimeOut(n), NEW j \in ChunkIds,
           live'[j] = live[j], DoomedBy(n, j)' <=> DoomedBy(n, j)
    PROVE  Doomed(j)' <=> Doomed(j)
<1>1. /\ DOMAIN calls' = DOMAIN calls
      /\ \A m \in DOMAIN calls \ {n} : calls'[m] = calls[m]
  BY Framed
<1>2. \A m \in DOMAIN calls : DoomedBy(m, j)' <=> DoomedBy(m, j)
  BY <1>1 DEF DoomedBy
<1>3. QED
  BY <1>1, <1>2 DEF Doomed, DoomedBy

(* A step that leaves the chunks alone ends an upsert or shows nothing.    *)
LEMMA QuietActs ==
    ASSUME TypeOK, NEW n \in DOMAIN calls, Request(n) \/ TimeOut(n), live' = live,
           \A j \in ChunkIds : DoomedBy(n, j)' <=> DoomedBy(n, j)
    PROVE  Acts
<1>1. Index' = Index
  <2>1. \A j \in ChunkIds : Doomed(j)' <=> Doomed(j)
    BY OthersDoom
  <2>2. QED
    BY <2>1 DEF Index
<1>2. /\ DOMAIN calls' = DOMAIN calls /\ ~ Ended(n)
      /\ \A m \in DOMAIN calls \ {n} : calls'[m] = calls[m]
      /\ calls'[n].kind = calls[n].kind
  BY Framed
<1>3. CASE calls[n].kind = "upsert" /\ Ended(n)'
  <2>1. n \in OpenUpserts /\ OpenUpserts' = OpenUpserts \ {n}
    BY <1>2, <1>3 DEF OpenUpserts, Ended
  <2>2. QED
    BY <1>1, <2>1, CloseUpsertActs
<1>4. CASE ~ (calls[n].kind = "upsert" /\ Ended(n)')
  <2>1. OpenUpserts' = OpenUpserts
    BY <1>2, <1>4 DEF OpenUpserts, Ended
  <2>2. QED
    BY <1>1, <2>1 DEF Acts
<1>5. QED
  BY <1>3, <1>4

LEMMA BeginActs ==
    ASSUME TypeOK, Upsert \/ DeleteDocument
    PROVE  Acts
<1> DEFINE k == Len(calls) + 1
<1>1. /\ DOMAIN calls' = DOMAIN calls \cup {k} /\ k \notin DOMAIN calls
      /\ \A m \in DOMAIN calls : calls'[m] = calls[m]
      /\ calls'[k].pc = "exists" /\ live' = live
      /\ calls'[k].kind \in {"upsert", "delete"}
  BY Begun
<1> HIDE DEF k
<1>2. Index' = Index
  <2>1. \A j \in ChunkIds : Doomed(j)' <=> Doomed(j)
    BY <1>1 DEF Doomed
  <2>2. QED
    BY <1>1, <2>1 DEF Index
<1>3. CASE calls'[k].kind = "upsert"
  <2>1. k \notin OpenUpserts /\ OpenUpserts' = OpenUpserts \cup {k}
    BY <1>1, <1>3 DEF OpenUpserts, Ended
  <2>2. QED
    BY <1>2, <2>1, OpenUpsertActs
<1>4. CASE calls'[k].kind = "delete"
  <2>1. OpenUpserts' = OpenUpserts
    BY <1>1, <1>4 DEF OpenUpserts, Ended
  <2>2. QED
    BY <1>2, <2>1 DEF Acts
<1>5. QED
  BY <1>1, <1>3, <1>4

(* An item that is indexed appears: no deletion under way has found it.    *)
LEMMA IndexItemActs ==
    ASSUME Inv, NEW n \in DOMAIN calls, NEW i \in ChunkIds, IndexItem(n, i)
    PROVE  Acts
<1>0. TypeOK /\ Request(n)
  BY DEF Inv, Request
<1>1. /\ DOMAIN calls' = DOMAIN calls /\ ~ Ended(n)
      /\ \A m \in DOMAIN calls \ {n} : calls'[m] = calls[m]
      /\ calls'[n].kind = calls[n].kind /\ n # 0
  BY <1>0, Framed, CallTypes
<1>2. /\ calls[n].pc = "request" /\ calls[n].kind = "upsert" /\ i \in calls[n].todo
      /\ calls'[n].pc = "request"
  BY <1>0, IndexItemMoves DEF Moved, IndexItem, InBulk
<1>3. n \in OpenUpserts /\ OpenUpserts' = OpenUpserts
  BY <1>1, <1>2 DEF OpenUpserts, Ended
<1>4. live' = [live EXCEPT ![i] = n] /\ live \in [ChunkIds -> 0 .. MaxCalls]
  BY <1>0 DEF IndexItem, TypeOK, Written
<1>5. ~ Doomed(i)'
  <2>1. SUFFICES ASSUME NEW m \in DOMAIN calls, DoomedBy(m, i)' PROVE FALSE
    BY <1>1 DEF Doomed, DoomedBy
  <2>2. m # n /\ calls'[m] = calls[m]
    BY <1>1, <1>2, <2>1 DEF DoomedBy
  <2>3. calls[m].pc = "deleting" /\ calls[m].hits[i] = n
    BY <1>4, <2>1, <2>2 DEF DoomedBy
  <2>4. WrittenBy(n, i)
    BY <1>1, <2>3 DEF Inv, VersionsWritten
  <2>5. QED
    BY <1>2, <2>4 DEF WrittenBy
<1>6. \A j \in ChunkIds \ {i} : live'[j] = live[j] /\ (Doomed(j)' <=> Doomed(j))
  BY <1>0, <1>2, <1>4, OthersDoom DEF DoomedBy
<1>7. Index' = [Index EXCEPT ![i] = n]
  BY <1>4, <1>5, <1>6 DEF Index
<1>8. QED
  BY <1>3, <1>7, PutActs

(* A deletion acts when its search runs: it spares the chunks that its     *)
(* search does not show yet, and those are of open upserts.                *)
LEMMA FindHitsActs ==
    ASSUME Inv, NEW n \in DOMAIN calls, FindHits(n)
    PROVE  Acts
<1> DEFINE spared == {j \in calls[n].ids : Index[j] # 0 /\ live[j] # view[j]}
<1>0. TypeOK /\ Request(n) /\ CallsShaped
  BY DEF Inv, Request
<1>1. /\ DOMAIN calls' = DOMAIN calls
      /\ \A m \in DOMAIN calls \ {n} : calls'[m] = calls[m]
      /\ calls'[n].kind = calls[n].kind
  BY <1>0, Framed
<1>2. /\ calls[n].pc = "request" /\ calls[n].kind = "delete"
      /\ calls'[n].pc = "deleting" /\ calls'[n].hits = view
      /\ calls'[n].todo = {j \in calls[n].ids : view[j] # 0}
      /\ live' = live
  BY <1>0, FindHitsMoves DEF Moved, FindHits
<1>3. OpenUpserts' = OpenUpserts
  BY <1>1, <1>2 DEF OpenUpserts, Ended
<1>4. PICK i \in ChunkIds : calls[n].ids = {j \in ChunkIds : DocOf[j] = DocOf[i]}
  BY <1>0, <1>2 DEF CallsShaped, Docs
<1>5. spared \in SUBSET {j \in ChunkIds : Index[j] \in OpenUpserts}
  <2>1. SUFFICES ASSUME NEW j \in ChunkIds, Index[j] # 0, live[j] # view[j]
                 PROVE  Index[j] \in OpenUpserts
    BY <1>4
  <2>2. Index[j] = live[j] /\ live[j] # 0
    BY <2>1 DEF Index
  <2>3. live[j] \in DOMAIN calls /\ calls[live[j]].kind = "upsert"
    BY <2>2 DEF Inv, VersionsWritten, WrittenBy
  <2>4. ~ Ended(live[j])
    BY <2>1, <2>2 DEF Inv, Refreshed
  <2>5. QED
    BY <2>2, <2>3, <2>4 DEF OpenUpserts
<1>6. ASSUME NEW j \in ChunkIds
      PROVE  Doomed(j)' <=> Doomed(j) \/ (j \in calls[n].ids /\ view[j] # 0 /\ live[j] = view[j])
  <2>1. ~ DoomedBy(n, j)
    BY <1>2 DEF DoomedBy
  <2>2. DoomedBy(n, j)' <=> j \in calls[n].ids /\ view[j] # 0 /\ live[j] = view[j]
    BY <1>2 DEF DoomedBy
  <2>3. \A m \in DOMAIN calls \ {n} : DoomedBy(m, j)' <=> DoomedBy(m, j)
    BY <1>1, <1>2 DEF DoomedBy
  <2>4. QED
    BY <1>1, <2>1, <2>2, <2>3 DEF Doomed, DoomedBy
<1>7. ASSUME NEW j \in ChunkIds
      PROVE  Index'[j] = IF DocOf[j] = DocOf[i] /\ j \notin spared THEN 0 ELSE Index[j]
  <2>1. /\ Index'[j] = IF Doomed(j)' THEN 0 ELSE live[j]
        /\ Index[j] = IF Doomed(j) THEN 0 ELSE live[j]
    BY <1>2 DEF Index
  <2>2. j \in calls[n].ids <=> DocOf[j] = DocOf[i]
    BY <1>4
  <2>3. QED
    BY <1>6, <2>1, <2>2
<1>8. Index' = [j \in ChunkIds |->
                  IF DocOf[j] = DocOf[i] /\ j \notin spared THEN 0 ELSE Index[j]]
  <2> HIDE DEF spared
  <2> QED
    BY <1>7 DEF Index
<1> HIDE DEF spared
<1>9. QED
  BY <1>3, <1>5, <1>8, EvictActs

(* A hit that is deleted was gone already, and one that is skipped was     *)
(* written again since.                                                    *)
LEMMA DeleteHitActs ==
    ASSUME TypeOK, NEW n \in DOMAIN calls, NEW i \in ChunkIds, DeleteHit(n, i)
    PROVE  Acts
<1>0. Request(n)
  BY DEF Request
<1>1. /\ DOMAIN calls' = DOMAIN calls
      /\ \A m \in DOMAIN calls \ {n} : calls'[m] = calls[m]
      /\ calls'[n].kind = calls[n].kind
  BY <1>0, Framed
<1>2. /\ calls[n].pc = "deleting" /\ i \in calls[n].todo
      /\ calls'[n].pc = "deleting" /\ calls'[n].todo = calls[n].todo \ {i}
      /\ calls'[n].hits = calls[n].hits
  BY DeleteHitMoves DEF Moved, DeleteHit
<1>3. /\ live' = [live EXCEPT ![i] = IF @ = calls[n].hits[i] THEN 0 ELSE @]
      /\ live \in [ChunkIds -> 0 .. MaxCalls]
  BY DEF DeleteHit, TypeOK, Written
<1>4. OpenUpserts' = OpenUpserts
  BY <1>1, <1>2 DEF OpenUpserts, Ended
<1>5. \A j \in ChunkIds \ {i} : live'[j] = live[j] /\ (Doomed(j)' <=> Doomed(j))
  BY <1>0, <1>2, <1>3, OthersDoom DEF DoomedBy
<1>6. CASE live[i] = calls[n].hits[i]
  <2>1. Doomed(i) /\ live'[i] = 0
    BY <1>2, <1>3, <1>6 DEF Doomed
  <2>2. Index' = Index
    BY <1>5, <2>1 DEF Index
  <2>3. QED
    BY <1>4, <2>2 DEF Acts
<1>7. CASE live[i] # calls[n].hits[i]
  <2>1. live' = live /\ \A j \in ChunkIds : DoomedBy(n, j)' <=> DoomedBy(n, j)
    BY <1>2, <1>3, <1>7 DEF DoomedBy
  <2>2. QED
    BY <1>0, <2>1, QuietActs
<1>8. QED
  BY <1>6, <1>7

LEMMA StepActs ==
    ASSUME Inv, NEW n \in DOMAIN calls, Request(n) \/ TimeOut(n)
    PROVE  Acts
<1>0. TypeOK
  BY DEF Inv
<1>1. CASE \E i \in ChunkIds : IndexItem(n, i)
  BY <1>1, IndexItemActs
<1>2. CASE FindHits(n)
  BY <1>2, FindHitsActs
<1>3. CASE \E i \in ChunkIds : DeleteHit(n, i)
  BY <1>0, <1>3, DeleteHitActs
<1>4. CASE Exists(n) \/ Create(n) \/ BulkDone(n) \/ \E i \in ChunkIds : RejectItem(n, i)
  <2>1. live' = live
    BY <1>4 DEF Exists, Create, BulkDone, RejectItem
  <2>2. calls[n].pc # "deleting"
    BY <1>4 DEF Exists, Create, BulkDone, RejectItem, InBulk
  <2>3. calls'[n].pc # "deleting"
    <3>1. CASE Exists(n)
      <4>1. calls[n].kind \in {"upsert", "delete"}
        BY <1>0, CallTypes DEF Call
      <4>2. QED
        BY <1>0, <3>1, <4>1, ExistsMoves DEF Moved
    <3>2. CASE Create(n)
      BY <1>0, <3>2, CreateMoves DEF Moved
    <3>3. CASE BulkDone(n)
      BY <1>0, <3>3, BulkDoneMoves DEF Moved
    <3>4. CASE \E i \in ChunkIds : RejectItem(n, i)
      BY <1>0, <2>2, <3>4, RejectItemMoves DEF Moved
    <3>5. QED
      BY <1>4, <3>1, <3>2, <3>3, <3>4
  <2>4. QED
    BY <1>0, <1>4, <2>1, <2>2, <2>3, QuietActs DEF DoomedBy, Request
<1>5. CASE DeleteDone(n)
  <2>1. live' = live /\ calls[n].todo = {}
    BY <1>5 DEF DeleteDone
  <2>2. calls'[n].pc = "done"
    BY <1>0, <1>5, DeleteDoneMoves DEF Moved
  <2>3. QED
    BY <1>0, <1>5, <2>1, <2>2, QuietActs DEF DoomedBy, Request
<1>6. CASE TimeOut(n)
  <2>1. /\ live' = live
        /\ calls'[n].pc = IF calls[n].pc = "exists" THEN "failed" ELSE calls[n].pc
        /\ calls'[n].todo = calls[n].todo /\ calls'[n].hits = calls[n].hits
    BY <1>0, <1>6, TimeOutMoves DEF Moved, TimeOut
  <2>2. QED
    BY <1>0, <1>6, <2>1, QuietActs DEF DoomedBy
<1>7. QED
  BY <1>1, <1>2, <1>3, <1>4, <1>5, <1>6 DEF Request

(* Overlapping calls act as StoreCalls promises: an upsert's chunks appear *)
(* one at a time while it is open, and a deletion takes effect when its    *)
(* search runs, sparing only what upserts open at that moment wrote.       *)
THEOREM CallsActAtOnce == Spec => ActsAtOnce
<1>1. Init => Atomic!Init
  <2> SUFFICES ASSUME Init PROVE Atomic!Init
    OBVIOUS
  <2>1. DOMAIN calls = {} /\ \A i \in ChunkIds : live[i] = 0
    BY EmptySeq DEF Init, NoHits
  <2>2. OpenUpserts = {} /\ \A i \in ChunkIds : ~ Doomed(i)
    BY <2>1 DEF OpenUpserts, Doomed
  <2>3. QED
    BY <2>1, <2>2 DEF Atomic!Init
<1>2. Inv /\ [Next]_vars => [Atomic!Next]_<<Index, OpenUpserts>>
  <2>1. CASE UNCHANGED vars
    BY <2>1 DEF vars, Index, OpenUpserts, Doomed, Ended
  <2>2. ASSUME Inv, Upsert \/ DeleteDocument PROVE Acts
    BY <2>2, BeginActs DEF Inv
  <2>3. CASE Refresh
    BY <2>3 DEF Refresh, Index, OpenUpserts, Doomed, Ended
  <2>4. ASSUME Inv, NEW n \in DOMAIN calls, Request(n) \/ TimeOut(n) PROVE Acts
    BY <2>4, StepActs
  <2>5. QED
    BY <2>1, <2>2, <2>3, <2>4 DEF Next, Acts
<1>3. QED
  BY <1>1, <1>2, InvariantHolds, PTL DEF Spec, ActsAtOnce, Atomic!Spec, Index

=============================================================================
