------------------------------ MODULE MCCliRuns ------------------------------
(* Two batches: the first deletes a record an earlier corpus had, and the  *)
(* second replaces one of the first.                                       *)
EXTENDS CliRuns

MCDocOf == [c \in Chunks |-> CASE c = "a#0" -> "a" [] c = "z#0" -> "z" [] OTHER -> "b"]

MCCorpus == <<[deletes |-> {"a"}, chunks |-> {"b#0"}], [deletes |-> {}, chunks |-> {"b#0", "b#1"}]>>

MCOlder == {{"a#0", "z#0"}}

=============================================================================
