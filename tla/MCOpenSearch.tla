---------------------------- MODULE MCOpenSearch ----------------------------
(* A document of two chunks and one of a single chunk.                     *)
EXTENDS OpenSearchCalls

MCDocOf == [i \in ChunkIds |-> IF i = "b#0" THEN "b" ELSE "a"]

MCUpserts == {[ids |-> {"a#0", "a#1"}, dim |-> 1], [ids |-> {"a#0", "b#0"}, dim |-> 2]}

=============================================================================
