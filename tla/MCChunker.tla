----------------------------- MODULE MCChunker -----------------------------
(* Every window of up to five characters, with the configurations the      *)
(* constructor refuses, on every text of up to twelve characters.          *)
EXTENDS Chunker

MCConfigs == [chunk_size : 0 .. 5, overlap : -1 .. 5]

=============================================================================
