------------------------------ MODULE Chunker ------------------------------
(***************************************************************************)
(* NaiveChunker.split (pipeline/nodes/chunk.py): a window of chunk_size    *)
(* characters slides over a document's text in steps of chunk_size minus   *)
(* overlap.  A text is reduced to its length, a piece to the positions it  *)
(* covers (from up to, not including, to) and the number in its chunk_id.  *)
(***************************************************************************)
EXTENDS Integers, Sequences

CONSTANTS
    Configs,     \* [chunk_size, overlap] pairs the constructor is called with
    Lengths      \* lengths of the texts that are split

ASSUME ChunkerAssumption ==
    /\ Configs \subseteq [chunk_size : Int, overlap : Int]
    /\ Lengths \subseteq Nat

VARIABLES
    cfg,        \* the constructor's arguments
    len,        \* length of doc.text
    blank,      \* doc.text has no other character than white space
    pc,         \* "new", "ready", "splitting", "returned" or "raised"
    start, idx,
    chunks      \* pieces cut so far

vars == <<cfg, len, blank, pc, start, idx, chunks>>

Piece == [idx : Nat, from : Nat, to : Nat]

Init ==
    /\ cfg \in Configs
    /\ len \in Lengths
    /\ blank \in BOOLEAN /\ (len = 0 => blank)
    /\ pc = "new"
    /\ start = 0 /\ idx = 0
    /\ chunks = <<>>

(* The constructor's two checks.                                           *)
ValidConfig == cfg.chunk_size > 0 /\ 0 <= cfg.overlap /\ cfg.overlap < cfg.chunk_size

Construct ==
    /\ pc = "new"
    /\ pc' = IF ValidConfig THEN "ready" ELSE "raised"
    /\ UNCHANGED <<cfg, len, blank, start, idx, chunks>>

(* A document without text has no chunks.                                  *)
SplitBlank ==
    /\ pc = "ready"
    /\ blank
    /\ pc' = "returned"
    /\ UNCHANGED <<cfg, len, blank, start, idx, chunks>>

BeginSplit ==
    /\ pc = "ready"
    /\ ~ blank
    /\ pc' = "splitting"
    /\ UNCHANGED <<cfg, len, blank, start, idx, chunks>>

(* Slip: the overlap forgotten.                                            *)
StepWithoutOverlap == cfg.chunk_size

Step == cfg.chunk_size - cfg.overlap

(* Slip: a slice that runs over the end.                                   *)
SliceEndUnclipped == start + cfg.chunk_size

(* text[start : start + chunk_size] stops at the end of the text.          *)
SliceEnd == IF start + cfg.chunk_size < len THEN start + cfg.chunk_size ELSE len

Cut ==
    /\ pc = "splitting"
    /\ start < len
    /\ chunks' = Append(chunks, [idx |-> idx, from |-> start, to |-> SliceEnd])
    /\ idx' = idx + 1
    /\ start' = start + Step
    /\ UNCHANGED <<cfg, len, blank, pc>>

(* Slip: the loop's condition is start # len.                              *)
ReturnAtLength ==
    /\ pc = "splitting"
    /\ start = len
    /\ pc' = "returned"
    /\ UNCHANGED <<cfg, len, blank, start, idx, chunks>>

Return ==
    /\ pc = "splitting"
    /\ start >= len
    /\ pc' = "returned"
    /\ UNCHANGED <<cfg, len, blank, start, idx, chunks>>

Next == Construct \/ SplitBlank \/ BeginSplit \/ Cut \/ Return

Spec == Init /\ [][Next]_vars /\ WF_vars(Next)

-----------------------------------------------------------------------------
(* The variables stay in their types, and only a valid window gets to work.*)
TypeOK ==
    /\ cfg \in Configs /\ len \in Lengths /\ blank \in BOOLEAN
    /\ pc \in {"new", "ready", "splitting", "returned", "raised"}
    /\ pc \notin {"new", "raised"} => ValidConfig
    /\ start \in Nat /\ idx \in Nat
    /\ chunks \in Seq(Piece)

(* "a fact spanning a boundary still lands whole in at least one chunk"    *)
(* (chunk.py 6): every run of up to overlap + 1 characters of the text is  *)
(* inside one piece; for runs of one character, nothing is left out.       *)
FactsLandWhole ==
    pc = "returned" /\ ~ blank =>
        \A a, b \in 0 .. len - 1 : a <= b /\ b - a <= cfg.overlap =>
            \E n \in DOMAIN chunks : chunks[n].from <= a /\ b < chunks[n].to

(* chunk_ids number the pieces from 0 without gaps, so that the chunks of  *)
(* a document have distinct slots and re-splitting a text that is no       *)
(* shorter overwrites every one of them; and no piece is empty.            *)
PiecesNumbered ==
    \A n \in DOMAIN chunks :
        /\ chunks[n].idx = n - 1
        /\ chunks[n].from < chunks[n].to /\ chunks[n].to <= len
        /\ chunks[n].to - chunks[n].from <= cfg.chunk_size

(* Two pieces of a document share at most the overlap when they are next   *)
(* to each other and never swap order, so joining them gives the text back.*)
NeighboursOverlap ==
    \A n \in 1 .. Len(chunks) - 1 :
        /\ chunks[n].from < chunks[n + 1].from
        /\ chunks[n + 1].from <= chunks[n].to
        /\ chunks[n].to - chunks[n + 1].from <= cfg.overlap

(* The window moves on: an accepted configuration never loops for ever,    *)
(* which is what the check `overlap < chunk_size` is for.                  *)
SplitReturns == <>(pc \in {"returned", "raised"})

=============================================================================
