----------------------------- MODULE StoreCalls -----------------------------
(***************************************************************************)
(* What callers may rely on when upserts and deletions of one index        *)
(* overlap: an upsert's chunks appear one at a time while it is open, and  *)
(* a deletion takes effect at one moment, on every chunk of its document   *)
(* but some that the upserts open at that moment wrote.                    *)
(***************************************************************************)
EXTENDS Naturals

CONSTANTS
    ChunkIds,
    DocOf        \* the document of each chunk id

VARIABLES
    index,       \* the upsert call that wrote each chunk; 0: no such chunk
    open         \* the upsert calls that have not ended

Init == index = [i \in ChunkIds |-> 0] /\ open = {}

OpenUpsert ==
    /\ \E n \in open' \ open : open' = open \cup {n}
    /\ UNCHANGED index

CloseUpsert ==
    /\ \E n \in open : open' = open \ {n}
    /\ UNCHANGED index

Put ==
    /\ \E i \in ChunkIds, n \in open : index' = [index EXCEPT ![i] = n]
    /\ UNCHANGED open

Evict ==
    /\ \E i \in ChunkIds : \E spared \in SUBSET {j \in ChunkIds : index[j] \in open} :
         index' = [j \in ChunkIds |->
                     IF DocOf[j] = DocOf[i] /\ j \notin spared THEN 0 ELSE index[j]]
    /\ UNCHANGED open

Next == OpenUpsert \/ CloseUpsert \/ Put \/ Evict

Spec == Init /\ [][Next]_<<index, open>>

=============================================================================
