------------------------------ MODULE MCSystem ------------------------------
(* The loop over the batches of two records, while a caller who may read   *)
(* only what the table's default ACL lets through asks a question.         *)
EXTENDS System

CONSTANTS k1, k2, r1, r2

prod == [tenant |-> "acme", env |-> "prod"]

MCNamespace == [s \in Scopes |-> "acme__prod"]
MCScopes == {prod}
MCDefaultAcl == [t \in ConfiguredTables |-> {r1}]

Change(k, s, o, a, z) == [key |-> k, seq |-> s, op |-> o, acl |-> a, size |-> z]

Stream(rows) ==
    [scope |-> prod, table |-> "claim", type |-> "streamingBatchCompleted", rows |-> rows]

Long(k) == Change(k, 1, "U", NoAcl, 2)
Closed(k) == Change(k, 2, "none", {r2}, 1)
Gone(k) == Change(k, 3, "D", NoAcl, 1)

SchemaChange == [Stream(<<Gone(k1)>>) EXCEPT !.type = "tableSchemaChanged"]

MCBatches == {Stream(<<Long(k1)>>), Stream(<<Closed(k1)>>), Stream(<<Gone(k1), Long(k1), Long(k2)>>)}

MCCallers == {[scope |-> prod, roles |-> {r1}]}

MCSimilarity ==
    [q \in {"question", "keywords", "details"} |->
        [p \in Passages |->
            LET rank == 2 * p.idx + (IF p.doc.key = k1 THEN 1 ELSE 0) IN
            IF q = "question" THEN rank ELSE 3 - rank]]

(* The first record's passages end in a line that is a number and nothing  *)
(* else, which EchoLLM takes for a marker.                                 *)
MCLines == [p \in Passages |-> IF p.doc.key = k1 THEN <<[lead |-> 3, bare |-> TRUE]>> ELSE <<>>]

(* What EchoLLM makes of up to two passages, and its markers: a copied     *)
(* sentence holds up; a last marker that follows a full stop is a sentence *)
(* of its own, and does not.  Which of these replies EchoLLM gives is      *)
(* QueryPipeline's Echoes.                                                 *)
Says(drawn) == [checked |-> TRUE, drawn |-> drawn]

Versions == [doc : DocIds, idx : 0 .. MaxChunks - 1, src : 1 .. MaxBatches]

MCReplies ==
    {[sentences |-> s, markers |-> m] :
        s \in {<<Says(Versions)>>, <<Says(Versions), Says({})>>},
        m \in {<<>>, <<0, 1>>, <<1>>, <<1, 2>>, <<1, 3>>, <<1, 3, 2>>}}

=============================================================================
