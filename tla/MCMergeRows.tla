---------------------------- MODULE MCMergeRows ----------------------------
(* merge_rows on every batch of up to four rows over two records and two   *)
(* change numbers, of different lengths without their zeros, or none.      *)
EXTENDS SeqValues, TLC

MaxRows == 4

(* Two records, two numbers or none, and rows told apart by their          *)
(* operation; the ACL column and the text only travel with the row.        *)
SmallRows == {[key |-> k, seq |-> s, op |-> o, acl |-> NoAcl, size |-> 1] :
                k \in Keys, s \in {0} \cup {SeqOf[n] : n \in Numbers}, o \in {"U", "D"}}
             \cup {[key |-> k, seq |-> SeqOf[9], op |-> "none", acl |-> {}, size |-> 1] : k \in Keys}

(* merge_rows treats all keys alike.                                       *)
KeySymmetry == Permutations(Keys)

MCInputs == UNION {[1 .. n -> SmallRows] : n \in 0 .. MaxRows}

=============================================================================
