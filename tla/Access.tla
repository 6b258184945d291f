------------------------------- MODULE Access -------------------------------
(***************************************************************************)
(* The permission filter of a query: how it is built from the caller's     *)
(* identity and which chunks it lets through (security/access.py).         *)
(***************************************************************************)
EXTENDS Naturals

CONSTANTS
    Tenants, Envs,   \* TenantScope's two parts
    Roles,
    DocTypes,
    NoNarrowing      \* doc_types is None

ASSUME NoNarrowingAssumption == \A D \in SUBSET DocTypes : NoNarrowing # D

Scope == [tenant : Tenants, env : Envs]

Identity == [scope : Scope, roles : SUBSET Roles]

Narrowing == (SUBSET DocTypes) \cup {NoNarrowing}

RetrievalFilter == [scope : Scope, roles : SUBSET Roles, doc_types : Narrowing]

(* Slip: no roles means no restriction.                                    *)
BuildFilterOpen(identity, doc_types) ==
    [scope |-> identity.scope,
     roles |-> IF identity.roles = {} THEN Roles ELSE identity.roles,
     doc_types |-> IF doc_types = {} THEN NoNarrowing ELSE doc_types]

(* No roles: a filter nothing passes.  An empty set of doc_types is falsy, *)
(* so it narrows nothing.                                                  *)
BuildFilter(identity, doc_types) ==
    IF identity.roles = {}
      THEN [scope |-> identity.scope, roles |-> {}, doc_types |-> {}]
      ELSE [scope |-> identity.scope,
            roles |-> identity.roles,
            doc_types |-> IF doc_types = {} THEN NoNarrowing ELSE doc_types]

IsVisible(scope, roles, flt) ==
    /\ scope = flt.scope
    /\ roles \cap flt.roles # {}

(* What LocalVectorStore.search asks of a chunk before it scores it.       *)
PassesFilter(c, flt) ==
    /\ IsVisible(c.scope, c.acl, flt)
    /\ flt.doc_types # NoNarrowing => c.doc_type \in flt.doc_types

(* What the caller may read: the rule the filter is there to enforce.      *)
MayRead(identity, c) ==
    /\ c.scope = identity.scope
    /\ \E r \in c.acl : r \in identity.roles

=============================================================================
