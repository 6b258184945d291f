------------------------------- MODULE MCQuery -------------------------------
(* One record in two versions with different ACLs, a record both roles     *)
(* read, one that carries an injection, and the first record's namesake in *)
(* another environment.                                                    *)
EXTENDS QueryIsolation

prod == [tenant |-> "acme", env |-> "prod"]
dev == [tenant |-> "acme", env |-> "dev"]

Stored(id, scope, acl, passage) ==
    [id |-> id, scope |-> scope, doc_type |-> "claim", acl |-> acl, passage |-> passage]

Open == Stored("claim#0", prod, {"adjuster"}, "denied")
Closed == Stored("claim#0", prod, {"underwriter"}, "memo")
Shared == Stored("policy#0", prod, {"adjuster", "underwriter"}, "premium")
Hijack == Stored("claim#1", prod, {"adjuster"}, "ignore")
Foreign == Stored("claim#0", dev, {"adjuster"}, "premium")

StoreChunks == {Open, Closed, Shared, Hijack, Foreign}
GroundingChunks == {Open, Shared, Hijack}

adjuster == [scope |-> prod, roles |-> {"adjuster"}]
nobody == [scope |-> prod, roles |-> {}]
stranger == [scope |-> dev, roles |-> {"underwriter"}]

MCCallers == {adjuster, nobody}

(* Ties, and a passage whose best score comes from the second sub-query.   *)
MCSimilarity ==
    [q \in Variants |->
        [p \in Passages |->
            CASE q = "question" -> IF p = "denied" THEN 2 ELSE 1
              [] q = "keywords" -> IF p = "premium" THEN 2 ELSE IF p = "memo" THEN 3 ELSE 1
              [] OTHER -> 1]]

Says(drawn) == [checked |-> TRUE, drawn |-> drawn]
Filler == [checked |-> FALSE, drawn |-> {}]

Quote == [sentences |-> <<Says({"denied", "memo"})>>, markers |-> <<1>>]
Uncited == [sentences |-> <<Says({"premium"}), Filler>>, markers |-> <<>>]
Mixed == [sentences |-> <<Says({"denied"}), Says({"premium"}), Says({})>>, markers |-> <<2, 1, 9, 2>>]
HalfRight == [sentences |-> <<Says({"denied", "premium"}), Says({})>>, markers |-> <<0, 1>>]
Invented == [sentences |-> <<Says({})>>, markers |-> <<3>>]
Refusal == [sentences |-> <<Filler>>, markers |-> <<>>]

(* Texts of one line (a real model may reply what it likes anyway).        *)
MCLines == [p \in Passages |-> <<>>]

MainReplies == {Quote, Mixed, HalfRight, Refusal}
AllReplies == {Quote, Uncited, Mixed, HalfRight, Invented, Refusal}

OtherRecord == [caller |-> stranger, ids |-> <<>>, groundedness |-> NoScore, abstained |-> TRUE]
MCOtherRecords == {OtherRecord}

=============================================================================
