---------------------------- MODULE MCIngestion ----------------------------
(* Batches for the ingestion runs: two records of one configured table in  *)
(* two environments of a tenant, a table without a TableConfig, and events *)
(* of the other types.                                                     *)
EXTENDS Ingestion

CONSTANTS k1, k2, r1

prod == [tenant |-> "acme", env |-> "prod"]
dev == [tenant |-> "acme", env |-> "dev"]

MCNamespace == [s \in Scopes |-> IF s = prod THEN "acme__prod" ELSE "acme__dev"]

OneScope == {prod}
TwoScopes == {prod, dev}

MCDefaultAcl == [t \in ConfiguredTables |-> {r1}]

Change(k, s, o, a, z) == [key |-> k, seq |-> s, op |-> o, acl |-> a, size |-> z]

Stream(scope, rows) ==
    [scope |-> scope, table |-> "claim", type |-> "streamingBatchCompleted", rows |-> rows]

Long(k) == Change(k, 1, "U", NoAcl, 2)
Short(k) == Change(k, 2, "none", {}, 1)
Gone(k) == Change(k, 3, "D", NoAcl, 1)

(* Two passages, one passage with an ACL of its own, a tombstone.          *)
K1Changes == {Stream(prod, <<Long(k1)>>), Stream(prod, <<Short(k1)>>), Stream(prod, <<Gone(k1)>>)}

(* What ingest_batch skips, what the handler skips, and what no rule       *)
(* routes.                                                                 *)
Unconfigured == [scope |-> prod, table |-> "notes", type |-> "batchModeTableWrittenOut", rows |-> <<Long(k1)>>]
SchemaChange == [scope |-> prod, table |-> "claim", type |-> "tableSchemaChanged", rows |-> <<Gone(k1)>>]
Unrouted == [scope |-> prod, table |-> "claim", type |-> "batchModeCompleted", rows |-> <<Gone(k1)>>]

(* A batch of one record, one that deletes it and adds another, and a      *)
(* tombstone for the same record in another environment.                   *)
EventBatches == {Stream(prod, <<Short(k1)>>), Stream(prod, <<Gone(k1), Long(k1), Short(k2)>>),
                 Stream(dev, <<Gone(k1)>>), Unconfigured, SchemaChange, Unrouted}

=============================================================================
