--------------------------- MODULE Chunker_proofs ---------------------------
(***************************************************************************)
(* The splitter loses nothing, for every window, overlap and text.         *)
(***************************************************************************)
EXTENDS Chunker, SequenceTheorems, TLAPS

(* Where the slice that begins at position p ends.                         *)
EndOf(p) == IF p + cfg.chunk_size < len THEN p + cfg.chunk_size ELSE len

(* Every position before start is in the first Step characters of a piece. *)
Covered ==
    \A a \in 0 .. len - 1 : a < start =>
        \E n \in DOMAIN chunks : chunks[n].from <= a /\ a < chunks[n].from + Step

(* The pieces are whole slices, Step apart, the last one Step before start.*)
Spaced ==
    /\ idx = Len(chunks)
    /\ \A n \in DOMAIN chunks :
        /\ chunks[n].idx = n - 1
        /\ chunks[n].from < len /\ chunks[n].to = EndOf(chunks[n].from)
    /\ \A n \in 1 .. Len(chunks) - 1 : chunks[n + 1].from = chunks[n].from + Step
    /\ chunks # <<>> => chunks[Len(chunks)].from + Step = start

Inv ==
    /\ TypeOK
    /\ pc \in {"new", "ready", "raised"} => chunks = <<>> /\ start = 0 /\ idx = 0
    /\ pc = "returned" /\ ~ blank => start >= len
    /\ Spaced
    /\ pc \notin {"new", "raised"} => Covered

-----------------------------------------------------------------------------
LEMMA ConfigTypes ==
    ASSUME cfg \in Configs, len \in Lengths
    PROVE  cfg.chunk_size \in Int /\ cfg.overlap \in Int /\ len \in Nat
BY ChunkerAssumption

LEMMA InnerOrLast ==
    ASSUME NEW m \in Nat, NEW n \in Nat, 1 <= n, n <= m
    PROVE  n + 1 \in 1 .. m \/ n = m
<1>1. CASE n = m
  BY <1>1
<1>2. CASE n < m
  BY <1>2
<1>3. QED
  BY <1>1, <1>2

LEMMA InitInv == Init => Inv
BY ChunkerAssumption DEF Init, Inv, TypeOK, Spaced, Covered

(* One more slice.                                                         *)
LEMMA CutInv == Inv /\ Cut => Inv'
<1> SUFFICES ASSUME Inv, Cut PROVE Inv'
  OBVIOUS
<1> DEFINE piece == [idx |-> idx, from |-> start, to |-> SliceEnd]
<1>1. /\ cfg.chunk_size \in Nat /\ cfg.overlap \in Nat /\ len \in Nat /\ start \in Nat
      /\ Step \in Nat \ {0} /\ Step <= cfg.chunk_size /\ start < len
      /\ cfg' = cfg /\ len' = len /\ blank' = blank /\ pc' = pc /\ pc = "splitting"
      /\ start' = start + Step /\ idx' = idx + 1
  BY ConfigTypes DEF Inv, TypeOK, Cut, ValidConfig, Step
<1>2. SliceEnd = EndOf(start) /\ SliceEnd \in Nat /\ EndOf(start)' = EndOf(start)'
  BY <1>1 DEF SliceEnd, EndOf
<1>3. piece \in Piece
  BY <1>1, <1>2 DEF Inv, TypeOK, Piece
<1>4. /\ chunks \in Seq(Piece) /\ chunks' \in Seq(Piece) /\ Len(chunks) \in Nat
      /\ Len(chunks') = Len(chunks) + 1
      /\ DOMAIN chunks = 1 .. Len(chunks) /\ DOMAIN chunks' = 1 .. Len(chunks) + 1
      /\ \A n \in DOMAIN chunks : chunks'[n] = chunks[n]
      /\ chunks'[Len(chunks) + 1] = piece
  <2>1. chunks \in Seq(Piece) /\ chunks' = Append(chunks, piece)
    BY DEF Inv, TypeOK, Cut
  <2>2. QED
    BY <1>3, <2>1, AppendProperties
<1>5. TypeOK'
  BY <1>1, <1>4 DEF Inv, TypeOK, ValidConfig
<1>6. Spaced'
  <2>1. ASSUME NEW n \in DOMAIN chunks'
        PROVE  /\ chunks'[n].idx = n - 1 /\ chunks'[n].from < len
               /\ chunks'[n].to = EndOf(chunks'[n].from)
    <3>1. CASE n \in DOMAIN chunks
      BY <1>4, <3>1 DEF Inv, Spaced
    <3>2. CASE n = Len(chunks) + 1
      BY <1>1, <1>2, <1>4, <3>2 DEF Inv, Spaced
    <3>3. QED
      BY <1>4, <2>1, <3>1, <3>2
  <2>2. ASSUME NEW n \in 1 .. Len(chunks') - 1
        PROVE  chunks'[n + 1].from = chunks'[n].from + Step
    <3>1. CASE n + 1 \in DOMAIN chunks
      BY <1>4, <3>1 DEF Inv, Spaced
    <3>2. CASE n = Len(chunks)
      BY <1>4, <2>2, <3>2, EmptySeq DEF Inv, Spaced
    <3>3. n + 1 \in DOMAIN chunks \/ n = Len(chunks)
      <4>1. n \in Nat /\ 1 <= n /\ n <= Len(chunks)
        BY <1>4, <2>2
      <4>2. Len(chunks) \in Nat /\ DOMAIN chunks = 1 .. Len(chunks)
        BY <1>4
      <4>3. n + 1 \in 1 .. Len(chunks) \/ n = Len(chunks)
        BY <4>1, <4>2, InnerOrLast
      <4>4. QED
        BY <4>2, <4>3
    <3>4. QED
      BY <3>1, <3>2, <3>3
  <2>3. chunks'[Len(chunks')].from + Step = start'
    BY <1>1, <1>4
  <2>4. \A p : EndOf(p)' = EndOf(p') /\ Step' = Step
    BY <1>1 DEF EndOf, Step
  <2>5. idx' = Len(chunks')
    BY <1>1, <1>4 DEF Inv, Spaced
  <2>6. QED
    BY <1>1, <1>4, <2>1, <2>2, <2>3, <2>5 DEF Spaced, EndOf, Step
<1>7. Covered'
  <2> SUFFICES ASSUME NEW a \in 0 .. len - 1, a < start + Step
               PROVE  \E n \in DOMAIN chunks' :
                        chunks'[n].from <= a /\ a < chunks'[n].from + Step
    BY <1>1 DEF Covered, Step
  <2>1. CASE a < start
    BY <1>1, <1>4, <2>1 DEF Inv, Covered
  <2>2. CASE start <= a
    BY <1>1, <1>4, <2>2
  <2>3. QED
    BY <1>1, <2>1, <2>2
<1>8. QED
  BY <1>1, <1>5, <1>6, <1>7 DEF Inv

LEMMA NextInv == Inv /\ [Next]_vars => Inv'
<1> SUFFICES ASSUME Inv, [Next]_vars PROVE Inv'
  OBVIOUS
<1>1. CASE Construct
  BY <1>1, ConfigTypes
     DEF Inv, TypeOK, Construct, ValidConfig, Spaced, Covered, Step, EndOf
<1>2. CASE SplitBlank \/ BeginSplit
  BY <1>2 DEF Inv, TypeOK, SplitBlank, BeginSplit, ValidConfig, Spaced, Covered, Step, EndOf
<1>3. CASE Return
  BY <1>3 DEF Inv, TypeOK, Return, ValidConfig, Spaced, Covered, Step, EndOf
<1>4. CASE UNCHANGED vars
  BY <1>4 DEF Inv, TypeOK, vars, ValidConfig, Spaced, Covered, Step, EndOf
<1>5. QED
  BY <1>1, <1>2, <1>3, <1>4, CutInv DEF Next

LEMMA ChunkerInvariant == Spec => []Inv
BY InitInv, NextInv, PTL DEF Spec

-----------------------------------------------------------------------------
LEMMA InvFacts == Inv => FactsLandWhole
<1> SUFFICES ASSUME Inv, pc = "returned", ~ blank,
                    NEW a \in 0 .. len - 1, NEW b \in 0 .. len - 1,
                    a <= b, b - a <= cfg.overlap
             PROVE  \E n \in DOMAIN chunks : chunks[n].from <= a /\ b < chunks[n].to
  BY DEF FactsLandWhole
<1>1. cfg.chunk_size \in Int /\ cfg.overlap \in Int /\ len \in Nat /\ start \in Nat /\ start >= len
  BY ConfigTypes DEF Inv, TypeOK
<1>2. PICK n \in DOMAIN chunks : chunks[n].from <= a /\ a < chunks[n].from + Step
  BY <1>1 DEF Inv, Covered
<1>3. chunks[n].from \in Nat /\ chunks[n].to = EndOf(chunks[n].from)
  <2>1. chunks[n] \in Piece
    BY DEF Inv, TypeOK
  <2>2. QED
    BY <2>1 DEF Inv, Spaced, Piece
<1>4. b < chunks[n].to
  BY <1>1, <1>2, <1>3 DEF EndOf, Step
<1>5. QED
  BY <1>2, <1>4

LEMMA InvNeighbours == Inv => PiecesNumbered /\ NeighboursOverlap
<1> SUFFICES ASSUME Inv PROVE PiecesNumbered /\ NeighboursOverlap
  OBVIOUS
<1>1. CASE chunks = <<>>
  BY <1>1 DEF PiecesNumbered, NeighboursOverlap
<1>2. CASE chunks # <<>>
  <2>1. /\ cfg.chunk_size \in Nat /\ cfg.overlap \in Nat /\ len \in Nat
        /\ Step \in Nat \ {0} /\ Step <= cfg.chunk_size
        /\ cfg.chunk_size - Step = cfg.overlap
    BY <1>2, ConfigTypes DEF Inv, TypeOK, ValidConfig, Step
  <2>2. \A n \in DOMAIN chunks : chunks[n] \in Piece /\ chunks[n].from \in Nat
    <3>1. \A n \in DOMAIN chunks : chunks[n] \in Piece
      BY DEF Inv, TypeOK
    <3>2. QED
      BY <3>1 DEF Piece
  <2>3. PiecesNumbered
    BY <2>1, <2>2 DEF Inv, Spaced, EndOf, PiecesNumbered
  <2>4. NeighboursOverlap
    <3> SUFFICES ASSUME NEW n \in 1 .. Len(chunks) - 1
                 PROVE  /\ chunks[n].from < chunks[n + 1].from
                        /\ chunks[n + 1].from <= chunks[n].to
                        /\ chunks[n].to - chunks[n + 1].from <= cfg.overlap
      BY DEF NeighboursOverlap
    <3>1. n \in DOMAIN chunks /\ n + 1 \in DOMAIN chunks
      BY DEF Inv, TypeOK
    <3>2. /\ chunks[n + 1].from = chunks[n].from + Step /\ chunks[n + 1].from < len
          /\ chunks[n].to = EndOf(chunks[n].from)
      BY <3>1 DEF Inv, Spaced
    <3>3. QED
      BY <2>1, <2>2, <3>1, <3>2 DEF EndOf
  <2>5. QED
    BY <2>3, <2>4
<1>3. QED
  BY <1>1, <1>2

(* For every window and text the constructor accepts: what is shorter than *)
(* the overlap is never cut in every piece it appears in.                  *)
THEOREM FactsWhole == Spec => []FactsLandWhole
BY ChunkerInvariant, InvFacts, PTL

(* Only a window the constructor accepts is ever used, on any text.        *)
THEOREM ChunkerTypes == Spec => []TypeOK
<1>1. Inv => TypeOK
  BY DEF Inv
<1>2. QED
  BY <1>1, ChunkerInvariant, PTL

(* Pieces are numbered without gaps, never empty and never longer than the *)
(* window, and neighbours overlap by no more than the overlap.             *)
THEOREM PiecesInOrder == Spec => [](PiecesNumbered /\ NeighboursOverlap)
BY ChunkerInvariant, InvNeighbours, PTL

=============================================================================
