----------------------------- MODULE SeqValues -----------------------------
(***************************************************************************)
(* From the number of a change, by which CDA orders changes, to the place  *)
(* in the order that merge_rows compares by: the simulator prints the      *)
(* number in hex digits (ingestion/cda/simulator.py), and the merge        *)
(* compares what it printed as strings.                                    *)
(***************************************************************************)
EXTENDS MergeRows, FiniteSets

CONSTANT Numbers      \* change numbers that rows may carry

Width == 16

(* n without its last k hex digits.                                        *)
Shifted(n) ==
    LET s[k \in Nat] == IF k = 0 THEN n ELSE s[k - 1] \div 16 IN s

ASSUME NumbersAssumption ==
    /\ Numbers \subseteq Nat
    /\ \A n \in Numbers : Shifted(n)[Width] = 0

Digits(n, w) == [d \in 1 .. w |-> Shifted(n)[w - d] % 16]

(* Slip: no leading zeros.                                                 *)
PrintedBare(n) ==
    Digits(n, CHOOSE w \in 1 .. Width :
                Shifted(n)[w] = 0 /\ \A v \in 1 .. w - 1 : Shifted(n)[v] # 0)

(* f"{n:016x}"                                                             *)
Printed(n) == Digits(n, Width)

(* String order: the first character that differs decides, and a prefix    *)
(* comes first.                                                            *)
Precedes(s, t) ==
    \E d \in DOMAIN t :
        /\ \A e \in 1 .. d - 1 : e \in DOMAIN s /\ s[e] = t[e]
        /\ d \in DOMAIN s => s[d] < t[d]

(* The value of row.seq that stands for a change number.                   *)
SeqOf ==
    [n \in Numbers |-> Cardinality({m \in Numbers : Precedes(Printed(m), Printed(n))}) + 1]

-----------------------------------------------------------------------------
(* "monotonic ordering key (hex; sorts lexically)" (simulator.py 15): the  *)
(* row the merge keeps of a record is, by its number and not only by the   *)
(* string, the last change the batch has of it, wherever in the batch it   *)
(* stands and whatever other rows carry no number.                         *)
NewestNumberWins ==
    Returned =>
        \A n \in DOMAIN rows, x \in Numbers : rows[n].seq = SeqOf[x] =>
            \E y \in Numbers : rows[latest[rows[n].key]].seq = SeqOf[y] /\ y >= x

=============================================================================
