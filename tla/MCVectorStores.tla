--------------------------- MODULE MCVectorStores ---------------------------
(* Three scopes, two of which share a namespace: "a" / "b__c" and          *)
(* "a__b" / "c".  The other scopes a tenant and an environment make up     *)
(* have a namespace of their own.                                          *)
EXTENDS VectorStores

Joined(s) == CASE s = [tenant |-> "a", env |-> "b__c"] -> "a__b__c"
               [] s = [tenant |-> "a__b", env |-> "c"] -> "a__b__c"
               [] s = [tenant |-> "a", env |-> "c"] -> "a__c"
               [] OTHER -> "a__b__b__c"

MCNamespace == [s \in Scope |-> Joined(s)]

Stored(t, e, id, dt, acl) ==
    [chunk_id |-> id, doc_id |-> dt, doc_type |-> dt,
     scope |-> [tenant |-> t, env |-> e], acl |-> acl]

MCUpserts ==
    {{Stored("a", "b__c", "claim#0", "claim", {"adjuster"}),
      Stored("a", "b__c", "memo#0", "memo", {"underwriter", "adjuster"})},
     {Stored("a", "b__c", "claim#0", "claim", {"underwriter"})},
     {Stored("a__b", "c", "claim#0", "claim", {"adjuster"})},
     {Stored("a__b", "c", "memo#0", "memo", {})},
     {Stored("a", "c", "claim#0", "claim", {"underwriter"}),
      Stored("a", "c", "claim#1", "claim", {"adjuster"})},
     {Stored("a", "c", "memo#0", "memo", {"adjuster", "underwriter"})},
     {Stored("a", "b__c", "claim#1", "claim", {"adjuster"})},
     {}}

=============================================================================
