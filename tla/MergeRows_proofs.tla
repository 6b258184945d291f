-------------------------- MODULE MergeRows_proofs --------------------------
(***************************************************************************)
(* merge_rows returns the latest state of its batch, for every batch.      *)
(***************************************************************************)
EXTENDS MergeRows, SequenceTheorems, TLAPS

(* Rows of a batch are rows.                                               *)
LEMMA RowTypes ==
    ASSUME rows \in Inputs, NEW n \in 1 .. Len(rows)
    PROVE  /\ rows \in Seq(Row) /\ Len(rows) \in Nat /\ DOMAIN rows = 1 .. Len(rows)
           /\ rows[n] \in Row /\ rows[n].key \in Keys /\ rows[n].seq \in Nat
<1>1. rows \in Seq(Row)
  BY InputsAssumption
<1>2. rows[n] \in Row /\ Len(rows) \in Nat /\ DOMAIN rows = 1 .. Len(rows)
  BY <1>1
<1>3. QED
  BY <1>1, <1>2 DEF Row

(* Appending adds one element, and keeps a sequence free of duplicates if  *)
(* the element is new.                                                     *)
LEMMA AppendElements ==
    ASSUME NEW S, NEW s \in Seq(S), NEW e \in S
    PROVE  /\ Append(s, e) \in Seq(S)
           /\ Elements(Append(s, e)) = Elements(s) \cup {e}
           /\ NoDuplicates(s) /\ e \notin Elements(s) => NoDuplicates(Append(s, e))
<1>1. /\ Append(s, e) \in Seq(S)
      /\ DOMAIN Append(s, e) = DOMAIN s \cup {Len(s) + 1}
      /\ \A n \in DOMAIN s : Append(s, e)[n] = s[n]
      /\ Append(s, e)[Len(s) + 1] = e
      /\ Len(s) + 1 \notin DOMAIN s
  BY AppendProperties
<1>2. QED
  BY <1>1 DEF Elements, NoDuplicates

-----------------------------------------------------------------------------
(* The inductive invariant.                                                *)

KeysHeld ==
    /\ NoDuplicates(keys)
    /\ Elements(keys) = {k \in Keys : latest[k] # 0}

(* What the second loop has put out for the first j keys.                  *)
Emitted(n) == rows[latest[keys[n]]]

Output ==
    /\ j > 0 => i = Len(rows)
    /\ NoDuplicates(deletes)
    /\ Elements(deletes) = {keys[n] : n \in {m \in 1 .. j : Op(Emitted(m)) = "D"}}
    /\ NoDuplicates([n \in DOMAIN upserts |-> rows[upserts[n]].key])
    /\ Elements(upserts) = {latest[keys[n]] : n \in {m \in 1 .. j : Op(Emitted(m)) # "D"}}

Inv == TypeOK /\ HoldsLatest /\ KeysHeld /\ Output

-----------------------------------------------------------------------------

LEMMA InitInv == Init => Inv
<1> SUFFICES ASSUME Init PROVE Inv
  OBVIOUS
<1>1. rows \in Inputs /\ rows \in Seq(Row) /\ Len(rows) \in Nat
  BY InputsAssumption DEF Init
<1>2. TypeOK
  BY <1>1 DEF Init, TypeOK
<1>3. HoldsLatest
  <2>1. i = 0 /\ \A k \in Keys : latest[k] = 0
    BY DEF Init
  <2>2. \A n \in 1 .. 0 : FALSE
    OBVIOUS
  <2>3. QED
    BY <2>1, <2>2 DEF HoldsLatest
<1>4. KeysHeld
  BY DEF Init, KeysHeld, NoDuplicates, Elements
<1>5. Output
  BY DEF Init, Output, NoDuplicates, Elements
<1>6. QED
  BY <1>2, <1>3, <1>4, <1>5 DEF Inv

(* The first loop keeps each key's latest row among those it has read.     *)
LEMMA CollapseInv == Inv /\ Collapse => Inv'
<1> SUFFICES ASSUME Inv, Collapse PROVE Inv'
  OBVIOUS
<1> DEFINE row == rows[i + 1]
<1>1. /\ rows \in Inputs /\ rows \in Seq(Row) /\ Len(rows) \in Nat /\ i \in Nat
      /\ i + 1 \in 1 .. Len(rows) /\ i' = i + 1 /\ rows' = rows /\ j = 0
      /\ row \in Row /\ row.key \in Keys /\ row.seq \in Nat
  BY RowTypes DEF Inv, TypeOK, Output, Collapse
<1>2. TypeOK'
  <2>1. CASE Replaces(row)
    <3>1. /\ latest' = [latest EXCEPT ![row.key] = i + 1]
          /\ order' = [order EXCEPT ![row.key] = row.seq]
          /\ keys' = IF latest[row.key] = 0 THEN Append(keys, row.key) ELSE keys
          /\ UNCHANGED <<rows, j, upserts, deletes>>
      BY <2>1 DEF Collapse
    <3>2. /\ latest' \in [Keys -> 0 .. Len(rows)] /\ order' \in [Keys -> Nat]
          /\ i' \in 0 .. Len(rows)
      <4>1. /\ latest \in [Keys -> 0 .. Len(rows)] /\ order \in [Keys -> Nat]
            /\ i + 1 \in 0 .. Len(rows)
        BY <1>1 DEF Inv, TypeOK
      <4> HIDE DEF row
      <4>2. QED
        BY <1>1, <3>1, <4>1
    <3>3. keys' \in Seq(Keys)
      BY <1>1, <3>1, AppendElements DEF Inv, TypeOK
    <3>4. j \in 0 .. Len(keys')
      BY <1>1, <3>3
    <3>5. QED
      BY <1>1, <3>1, <3>2, <3>3, <3>4 DEF Inv, TypeOK
  <2>2. CASE ~ Replaces(row)
    BY <1>1, <2>2 DEF Inv, TypeOK, Collapse
  <2>3. QED
    BY <2>1, <2>2
<1>3. HoldsLatest'
  <2> SUFFICES ASSUME NEW k \in Keys
               PROVE  IF latest'[k] = 0
                        THEN \A n \in 1 .. i + 1 : rows[n].key # k
                        ELSE /\ rows[latest'[k]].key = k
                             /\ IsLatestOf(rows, i + 1, latest'[k])
                             /\ order'[k] = rows[latest'[k]].seq
    BY <1>1 DEF HoldsLatest
  <2>0. /\ \A n \in 1 .. i : rows[n].seq \in Nat
        /\ 1 .. i + 1 = (1 .. i) \cup {i + 1}
        /\ latest[k] \in Nat
    BY <1>1, RowTypes DEF Inv, TypeOK
  <2>1. CASE k # row.key
    <3>1. latest'[k] = latest[k] /\ order'[k] = order[k]
      BY <1>1, <2>1 DEF Inv, TypeOK, Collapse
    <3>2. QED
      BY <1>1, <2>0, <2>1, <3>1 DEF Inv, HoldsLatest, IsLatestOf, Beats
  <2>2. CASE k = row.key /\ Replaces(row)
    <3>1. latest'[k] = i + 1 /\ order'[k] = row.seq
      BY <1>1, <2>2 DEF Inv, TypeOK, Collapse
    <3>2. \A n \in 1 .. i : rows[n].key = k => rows[n].seq <= row.seq
      BY <1>1, <2>0, <2>2 DEF Inv, HoldsLatest, IsLatestOf, Beats, Replaces
    <3>3. IsLatestOf(rows, i + 1, i + 1)
      BY <1>1, <2>0, <2>2, <3>2 DEF IsLatestOf, Beats
    <3>4. QED
      BY <1>1, <2>2, <3>1, <3>3
  <2>3. CASE k = row.key /\ ~ Replaces(row)
    <3>1. latest'[k] = latest[k] /\ order'[k] = order[k] /\ latest[k] # 0
      BY <1>1, <2>3 DEF Collapse, Replaces
    <3>2. /\ rows[latest[k]].key = k /\ IsLatestOf(rows, i, latest[k])
          /\ order[k] = rows[latest[k]].seq /\ latest[k] \in 1 .. i
      BY <3>1 DEF Inv, HoldsLatest, IsLatestOf
    <3>3. ~ (row.seq >= rows[latest[k]].seq) /\ rows[latest[k]].seq \in Nat
      BY <1>1, <2>0, <2>3, <3>2 DEF Replaces
    <3>4. ~ Beats(rows, i + 1, latest[k])
      BY <1>1, <3>3 DEF Beats
    <3>5. IsLatestOf(rows, i + 1, latest[k])
      BY <2>0, <3>2, <3>4 DEF IsLatestOf
    <3>6. QED
      BY <3>1, <3>2, <3>5
  <2>4. QED
    BY <2>1, <2>2, <2>3
<1>4. KeysHeld'
  <2>1. CASE Replaces(row) /\ latest[row.key] = 0
    <3>1. /\ keys' = Append(keys, row.key)
          /\ latest' = [latest EXCEPT ![row.key] = i + 1]
          /\ row.key \notin Elements(keys)
      BY <2>1 DEF Inv, KeysHeld, Collapse
    <3>2. NoDuplicates(keys') /\ Elements(keys') = Elements(keys) \cup {row.key}
      BY <1>1, <3>1, AppendElements DEF Inv, TypeOK, KeysHeld
    <3>3. {k \in Keys : latest'[k] # 0} = {k \in Keys : latest[k] # 0} \cup {row.key}
      BY <1>1, <3>1 DEF Inv, TypeOK
    <3>4. QED
      BY <3>2, <3>3 DEF Inv, KeysHeld
  <2>2. CASE ~ (Replaces(row) /\ latest[row.key] = 0)
    <3>1. keys' = keys
      BY <2>2 DEF Collapse
    <3>2. \A k \in Keys : latest'[k] = 0 <=> latest[k] = 0
      BY <1>1, <2>2 DEF Inv, TypeOK, Collapse
    <3>3. QED
      BY <3>1, <3>2 DEF Inv, KeysHeld
  <2>3. QED
    BY <2>1, <2>2
<1>5. Output'
  BY <1>1 DEF Inv, Output, Collapse, Emitted
<1>6. QED
  BY <1>2, <1>3, <1>4, <1>5 DEF Inv

(* The second loop gives each key of `latest` one outcome.                 *)
LEMMA EmitInv == Inv /\ Emit => Inv'
<1> SUFFICES ASSUME Inv, Emit PROVE Inv'
  OBVIOUS
<1> DEFINE key == keys[j + 1]
<1>1. /\ rows \in Inputs /\ Len(rows) \in Nat /\ i = Len(rows) /\ j \in Nat
      /\ j + 1 \in DOMAIN keys /\ Len(keys) \in Nat /\ DOMAIN keys = 1 .. Len(keys)
      /\ 1 .. j + 1 = (1 .. j) \cup {j + 1} /\ 1 .. j \subseteq DOMAIN keys
      /\ j' = j + 1 /\ UNCHANGED <<rows, i, latest, order, keys>>
      /\ key \in Keys
  <2>1. rows \in Inputs /\ rows \in Seq(Row) /\ keys \in Seq(Keys) /\ j \in 0 .. Len(keys)
    BY InputsAssumption DEF Inv, TypeOK
  <2>2. i = Len(rows) /\ j < Len(keys) /\ j' = j + 1 /\ UNCHANGED <<rows, i, latest, order, keys>>
    BY DEF Emit
  <2>3. Len(rows) \in Nat /\ Len(keys) \in Nat /\ DOMAIN keys = 1 .. Len(keys)
    BY <2>1
  <2>4. QED
    BY <2>1, <2>2, <2>3
<1>2. \A k \in Elements(keys) :
        k \in Keys /\ latest[k] \in 1 .. Len(rows) /\ rows[latest[k]].key = k
  BY <1>1 DEF Inv, TypeOK, HoldsLatest, KeysHeld
<1>3. /\ \A n \in DOMAIN keys : keys[n] \in Elements(keys)
      /\ \A n \in 1 .. j : keys[n] # key
  BY <1>1 DEF Inv, KeysHeld, NoDuplicates, Elements
<1>4. latest[key] \in 1 .. Len(rows) /\ rows[latest[key]].key = key
  BY <1>1, <1>2, <1>3
<1>5. HoldsLatest' /\ KeysHeld'
  BY <1>1 DEF Inv, HoldsLatest, KeysHeld
<1>6. CASE Op(Emitted(j + 1)) = "D"
  <2>1. deletes' = Append(deletes, key) /\ upserts' = upserts
    BY <1>6 DEF Emit, Emitted
  <2>2. key \notin Elements(deletes)
    BY <1>3 DEF Inv, Output
  <2>3. /\ deletes' \in Seq(Keys) /\ NoDuplicates(deletes')
        /\ Elements(deletes') = Elements(deletes) \cup {key}
    BY <1>1, <2>1, <2>2, AppendElements DEF Inv, TypeOK, Output
  <2>4. TypeOK'
    BY <1>1, <2>1, <2>3 DEF Inv, TypeOK
  <2>5. Elements(deletes') =
          {keys[n] : n \in {m \in 1 .. j + 1 : Op(Emitted(m)) = "D"}}
    BY <1>1, <1>6, <2>3 DEF Inv, Output
  <2>6. Elements(upserts) =
          {latest[keys[n]] : n \in {m \in 1 .. j + 1 : Op(Emitted(m)) # "D"}}
    BY <1>1, <1>6 DEF Inv, Output
  <2>7. Output'
    BY <1>1, <2>1, <2>3, <2>5, <2>6 DEF Inv, Output, Emitted
  <2>8. QED
    BY <1>5, <2>4, <2>7 DEF Inv
<1>7. CASE Op(Emitted(j + 1)) # "D"
  <2>1. upserts' = Append(upserts, latest[key]) /\ deletes' = deletes
    BY <1>7 DEF Emit, Emitted
  <2>2. /\ upserts' \in Seq(1 .. Len(rows))
        /\ Elements(upserts') = Elements(upserts) \cup {latest[key]}
    <3>1. upserts \in Seq(1 .. Len(rows))
      BY DEF Inv, TypeOK
    <3>2. QED
      BY <1>4, <2>1, <3>1, AppendElements
  <2>3. TypeOK'
    BY <1>1, <2>1, <2>2 DEF Inv, TypeOK
  <2>4. Elements(upserts') =
          {latest[keys[n]] : n \in {m \in 1 .. j + 1 : Op(Emitted(m)) # "D"}}
    BY <1>1, <1>7, <2>2 DEF Inv, Output
  <2>5. Elements(deletes) =
          {keys[n] : n \in {m \in 1 .. j + 1 : Op(Emitted(m)) = "D"}}
    BY <1>1, <1>7 DEF Inv, Output
  <2>6. NoDuplicates([n \in DOMAIN upserts' |-> rows[upserts'[n]].key])
    <3>1. \A n \in DOMAIN upserts : rows[upserts[n]].key # key
      <4>1. SUFFICES ASSUME NEW n \in DOMAIN upserts PROVE rows[upserts[n]].key # key
        OBVIOUS
      <4>2. upserts[n] \in Elements(upserts)
        BY DEF Elements
      <4>3. PICK m \in 1 .. j : upserts[n] = latest[keys[m]]
        BY <4>2 DEF Inv, Output
      <4>4. QED
        BY <1>1, <1>2, <1>3, <4>3
    <3>2. /\ DOMAIN upserts' = DOMAIN upserts \cup {Len(upserts) + 1}
          /\ \A n \in DOMAIN upserts : upserts'[n] = upserts[n]
          /\ upserts'[Len(upserts) + 1] = latest[key]
          /\ Len(upserts) + 1 \notin DOMAIN upserts
      <4>1. upserts \in Seq(1 .. Len(rows))
        BY DEF Inv, TypeOK
      <4>2. QED
        BY <1>4, <2>1, <4>1, AppendProperties
    <3>3. QED
      BY <1>4, <3>1, <3>2 DEF Inv, Output, NoDuplicates
  <2>7. Output'
    BY <1>1, <2>1, <2>4, <2>5, <2>6 DEF Inv, Output, Emitted
  <2>8. QED
    BY <1>5, <2>3, <2>7 DEF Inv
<1>8. QED
  BY <1>6, <1>7

LEMMA NextInv == Inv /\ [Next]_vars => Inv'
<1>1. Inv /\ UNCHANGED vars => Inv'
  BY DEF Inv, vars, TypeOK, HoldsLatest, KeysHeld, Output, Emitted
<1>2. QED
  BY <1>1, CollapseInv, EmitInv DEF Next

(* The invariant, for every batch.                                         *)
LEMMA MergeInvariant == Spec => []Inv
BY InitInv, NextInv, PTL DEF Spec

-----------------------------------------------------------------------------
(* What merge_rows returns.                                                *)

(* A key has one latest row.                                               *)
LEMMA OneWinner ==
    ASSUME rows \in Inputs, NEW a, NEW b,
           IsLatest(rows, a), IsLatest(rows, b), rows[a].key = rows[b].key
    PROVE  a = b
<1>1. a \in 1 .. Len(rows) /\ b \in 1 .. Len(rows) /\ ~ Beats(rows, a, b) /\ ~ Beats(rows, b, a)
  BY DEF IsLatest, IsLatestOf
<1>2. rows[a].seq \in Nat /\ rows[b].seq \in Nat /\ Len(rows) \in Nat
  BY <1>1, RowTypes
<1>3. QED
  BY <1>1, <1>2 DEF Beats

(* When the loops are over, `latest` lists the winners of the batch.       *)
LEMMA LatestIsWinners ==
    ASSUME Inv, Returned
    PROVE  /\ \A k \in Elements(keys) :
                 k \in Keys /\ latest[k] \in Winners(rows) /\ rows[latest[k]].key = k
           /\ \A w \in Winners(rows) : rows[w].key \in Elements(keys) /\ w = latest[rows[w].key]
           /\ Elements(keys) = MentionedKeys(rows)
<1>1. /\ rows \in Inputs /\ i = Len(rows) /\ DOMAIN rows = 1 .. Len(rows)
      /\ \A n \in DOMAIN rows : rows[n].key \in Keys
  <2>1. rows \in Inputs /\ i = Len(rows) /\ rows \in Seq(Row)
    BY InputsAssumption DEF Inv, TypeOK, Returned
  <2>2. QED
    BY <2>1, RowTypes
<1>2. ASSUME NEW k \in Elements(keys)
      PROVE  k \in Keys /\ latest[k] \in Winners(rows) /\ rows[latest[k]].key = k
  <2>1. k \in Keys /\ latest[k] # 0
    BY <1>2 DEF Inv, KeysHeld
  <2>2. rows[latest[k]].key = k /\ IsLatest(rows, latest[k])
    BY <1>1, <2>1 DEF Inv, HoldsLatest, IsLatest
  <2>3. latest[k] \in DOMAIN rows
    BY <1>1, <2>2 DEF IsLatest, IsLatestOf
  <2>4. QED
    BY <2>1, <2>2, <2>3 DEF Winners
<1>3. \A n \in DOMAIN rows : rows[n].key \in Elements(keys)
  BY <1>1 DEF Inv, HoldsLatest, KeysHeld
<1>4. ASSUME NEW w \in Winners(rows)
      PROVE  rows[w].key \in Elements(keys) /\ w = latest[rows[w].key]
  <2>1. w \in DOMAIN rows /\ IsLatest(rows, w)
    BY <1>4 DEF Winners
  <2>2. rows[w].key \in Elements(keys)
    BY <1>3, <2>1
  <2>3. IsLatest(rows, latest[rows[w].key]) /\ rows[latest[rows[w].key]].key = rows[w].key
    BY <1>2, <2>2 DEF Winners
  <2>4. QED
    BY <1>1, <2>1, <2>2, <2>3, OneWinner
<1>5. Elements(keys) = MentionedKeys(rows)
  <2>1. Elements(keys) \subseteq MentionedKeys(rows)
    BY <1>2 DEF MentionedKeys, Winners
  <2>2. QED
    BY <1>3, <2>1 DEF MentionedKeys
<1>6. QED
  BY <1>2, <1>4, <1>5

(* The rows put out as deletes and upserts, by key.                        *)
LEMMA OutputByKey ==
    ASSUME Inv, Returned
    PROVE  /\ Elements(deletes) = {k \in Elements(keys) : Op(rows[latest[k]]) = "D"}
           /\ Elements(upserts) =
                {latest[k] : k \in {h \in Elements(keys) : Op(rows[latest[h]]) # "D"}}
<1>1. j = Len(keys) /\ DOMAIN keys = 1 .. j
  BY DEF Inv, TypeOK, Returned
<1>2. /\ Elements(deletes) =
           {keys[n] : n \in {m \in DOMAIN keys : Op(rows[latest[keys[m]]]) = "D"}}
      /\ Elements(upserts) =
           {latest[keys[n]] : n \in {m \in DOMAIN keys : Op(rows[latest[keys[m]]]) # "D"}}
  BY <1>1 DEF Inv, Output, Emitted
<1>3. \A k : k \in Elements(keys) <=> \E n \in DOMAIN keys : k = keys[n]
  BY DEF Elements
<1>4. Elements(deletes) = {k \in Elements(keys) : Op(rows[latest[k]]) = "D"}
  BY <1>2, <1>3
<1>5. Elements(upserts) =
        {latest[k] : k \in {h \in Elements(keys) : Op(rows[latest[h]]) # "D"}}
  BY <1>2, <1>3
<1>6. QED
  BY <1>4, <1>5

LEMMA InvReturnsLatest == Inv => ReturnsLatestState
<1> SUFFICES ASSUME Inv, Returned
             PROVE  /\ Elements(deletes) = DeletedKeys(rows)
                    /\ {rows[n] : n \in Elements(upserts)} = UpsertRows(rows)
  BY DEF ReturnsLatestState
<1>1. Elements(deletes) = DeletedKeys(rows)
  BY LatestIsWinners, OutputByKey DEF DeletedKeys
<1>2. Elements(upserts) = {w \in Winners(rows) : Op(rows[w]) # "D"}
  BY LatestIsWinners, OutputByKey
<1>3. QED
  BY <1>1, <1>2 DEF UpsertRows

LEMMA InvOneOutcome == Inv => OneOutcomePerRecord
<1> DEFINE indexed == [n \in DOMAIN upserts |-> rows[upserts[n]].key]
<1> SUFFICES ASSUME Inv, Returned
             PROVE  /\ NoDuplicates(deletes) /\ NoDuplicates(indexed)
                    /\ Elements(deletes) \cap Elements(indexed) = {}
                    /\ Elements(deletes) \cup Elements(indexed) = MentionedKeys(rows)
  BY DEF OneOutcomePerRecord
<1>1. NoDuplicates(deletes) /\ NoDuplicates(indexed)
  BY DEF Inv, Output
<1>2. Elements(indexed) = {rows[n].key : n \in Elements(upserts)}
  BY DEF Elements
<1>3. Elements(indexed) = {k \in Elements(keys) : Op(rows[latest[k]]) # "D"}
  BY <1>2, LatestIsWinners, OutputByKey
<1>4. Elements(keys) = MentionedKeys(rows)
  BY LatestIsWinners
<1>5. QED
  BY <1>1, <1>3, <1>4, OutputByKey

-----------------------------------------------------------------------------
(* The variables of the loops stay in their types.                         *)
THEOREM MergeTypeCorrect == Spec => []TypeOK
BY MergeInvariant, PTL DEF Inv

(* After each row, the dicts hold each key's latest row among those read,  *)
(* whatever order a batch lists them in.                                   *)
THEOREM MergeHoldsLatest == Spec => []HoldsLatest
BY MergeInvariant, PTL DEF Inv

(* For every batch, merge_rows deletes exactly the records whose latest    *)
(* row is a tombstone and indexes exactly the latest row of every other:   *)
(* the loops compute DeletedKeys and UpsertRows, which the write path is   *)
(* modelled with.                                                          *)
THEOREM MergeReturnsLatest == Spec => []ReturnsLatestState
BY MergeInvariant, InvReturnsLatest, PTL

(* For every batch, each record it mentions is either deleted or indexed,  *)
(* once.                                                                   *)
THEOREM MergeOneOutcome == Spec => []OneOutcomePerRecord
BY MergeInvariant, InvOneOutcome, PTL

=============================================================================
