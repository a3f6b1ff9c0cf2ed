----------------------------- MODULE ListProofs -----------------------------
(***************************************************************************)
(* A list of any first size stays in its array and behaves as the sequence *)
(* that list.h promises, whatever is called and with elements of any kind. *)
(***************************************************************************)
EXTENDS List, SequenceTheorems, TLAPS

-----------------------------------------------------------------------------
(***************************************************************************)
(* The inductive invariant                                                 *)
(***************************************************************************)
\* The array never gets smaller than it was at first, which is more than the
\* distance after the end at which an element may be set: doubling once is
\* enough.
Cells ==
  /\ allocated_length \in Nat /\ allocated_length >= Capacity
  /\ cell \in [0 .. allocated_length - 1 -> Value]
  /\ length \in Nat /\ length <= allocated_length

\* The search looks past the lower one of its bounds, half of the way to the
\* upper one, and these are in the list.
Searching ==
  /\ op \in {"idle", "search", "insertion"}
  /\ op = "idle" => element = Null
  /\ op # "idle" => element \in Elem
  /\ left_bound \in Nat /\ right_bound \in Nat /\ insert_index \in Nat
  /\ op = "search" =>
       /\ left_bound < right_bound /\ right_bound < length
       /\ left_bound < insert_index /\ insert_index <= right_bound
       /\ insert_index = Middle(left_bound, right_bound)

ListInv == Cells /\ Searching /\ touched \in Int /\ touched < allocated_length

LEMMA ListInvImplies == ListInv => TypeOK /\ InBounds
BY ListAssumption DEF ListInv, Cells, Searching, TypeOK, InBounds, Value

-----------------------------------------------------------------------------
(***************************************************************************)
(* Growth                                                                  *)
(***************************************************************************)
\* An insertion asks for one cell more than the length, and uses the last.
LEMMA GrowsEnough ==
  ASSUME Cells, NEW n \in Nat, n <= length + Gap \/ n = length + 1
  PROVE  /\ Grown(n) \in Nat
         /\ length < Grown(n) \/ n < length
         /\ n <= length + Gap => n < Grown(n)
         /\ allocated_length <= Grown(n)
<1>1. ~(2 * allocated_length < n) /\ length < 2 * allocated_length
  BY ListAssumption, GapAssumption DEF Cells
<1>2. n <= length + Gap => n < 2 * allocated_length
  BY ListAssumption, GapAssumption DEF Cells
<1>3. Doubled(allocated_length, n) = 2 * allocated_length
  BY <1>1 DEF Doubled
<1>4. /\ allocated_length \in Nat /\ length \in Nat /\ allocated_length <= 2 * allocated_length
      /\ 2 * allocated_length \in Nat
  BY DEF Cells
<1>5. CASE n >= allocated_length
  BY <1>1, <1>2, <1>3, <1>4, <1>5 DEF Grown
<1>6. CASE ~(n >= allocated_length)
  BY <1>4, <1>6 DEF Grown
<1> QED
  BY <1>5, <1>6

\* Growing keeps the elements.
LEMMA GrownKeeps ==
  ASSUME Cells, NEW n \in Nat, n <= length + Gap \/ n = length + 1
  PROVE  /\ GrownCells(n) \in [0 .. Grown(n) - 1 -> Value]
         /\ \A m \in 0 .. length - 1 : GrownCells(n)[m] = cell[m]
<1>1. /\ Grown(n) \in Nat /\ allocated_length <= Grown(n)
  BY GrowsEnough
<1>2. length <= Grown(n) /\ length \in Nat /\ allocated_length \in Nat
  BY <1>1 DEF Cells
<1>3. ASSUME NEW m \in 0 .. Grown(n) - 1
      PROVE  (IF m < length \/ (Grown(n) = allocated_length /\ m < allocated_length)
              THEN cell[m] ELSE Null) \in Value
  BY <1>1, <1>2, <1>3 DEF Cells, Value
<1>4. ASSUME NEW m \in 0 .. length - 1
      PROVE  m \in 0 .. Grown(n) - 1 /\ m < length
  BY <1>1, <1>2, <1>4
<1> HIDE DEF Grown
<1> QED
  BY <1>3, <1>4 DEF GrownCells

-----------------------------------------------------------------------------
(***************************************************************************)
(* The content                                                             *)
(***************************************************************************)
LEMMA ContentSeq ==
  ASSUME Cells
  PROVE  /\ Content \in Seq(Value) /\ Len(Content) = length
         /\ Content \in [1 .. length -> Value]
         /\ \A n \in 1 .. length : Content[n] = cell[n - 1]
<1>1. ASSUME NEW n \in 1 .. length PROVE cell[n - 1] \in Value
  <2>1. n - 1 \in 0 .. allocated_length - 1
    BY DEF Cells
  <2> QED
    BY <2>1 DEF Cells
<1>2. length \in Nat
  BY DEF Cells
<1>3. Content \in Seq(Value)
  BY <1>1, <1>2, IsASeq DEF Content
<1>4. Content \in [1 .. length -> Value]
  BY <1>1 DEF Content
<1>5. Len(Content) = length
  BY <1>2, <1>3, <1>4, LenProperties
<1> QED
  BY <1>3, <1>4, <1>5 DEF Content

\* Content of the next state, from what is known of the cells.
LEMMA ContentNext ==
  ASSUME Cells', NEW s, NEW n \in Nat, length' = n,
         s \in [1 .. n -> Value], \A m \in 1 .. n : cell'[m - 1] = s[m]
  PROVE  Content' = s
BY DEF Content

-----------------------------------------------------------------------------
(***************************************************************************)
(* The operations that change the cells.  Each keeps them well formed and  *)
(* does to the content what list.h says.                                   *)
(***************************************************************************)
LEMMA SetStep ==
  ASSUME ListInv, NEW i \in 0 .. MaxLength, NEW e \in Elem, Set(i, e)
  PROVE  Cells' /\ touched' \in Int /\ touched' < allocated_length'
<1>1. i \in Nat /\ i <= length + Gap /\ e \in Value
  BY ListAssumption DEF Set, Value
<1>2. Grown(i) \in Nat /\ allocated_length <= Grown(i)
  BY <1>1, GrowsEnough DEF ListInv
<1>3. GrownCells(i) \in [0 .. Grown(i) - 1 -> Value]
  BY <1>1, GrownKeeps DEF ListInv
<1>4. /\ allocated_length' = Grown(i) /\ touched' = i
      /\ cell' = [GrownCells(i) EXCEPT ![i] = e]
      /\ length' = IF length <= i THEN i + 1 ELSE length
  BY DEF Set
<1>5. length \in Nat /\ length <= allocated_length /\ allocated_length \in Nat
      /\ allocated_length >= Capacity /\ Capacity \in Nat
  BY ListAssumption DEF ListInv, Cells
<1>6. i < Grown(i)
  BY <1>1, GrowsEnough DEF ListInv
<1>7. cell' \in [0 .. Grown(i) - 1 -> Value]
  BY <1>1, <1>3, <1>4
<1> HIDE DEF Grown, GrownCells
<1>8. length' \in Nat /\ length' <= Grown(i)
  BY <1>1, <1>2, <1>4, <1>5, <1>6
<1>9. Grown(i) >= Capacity
  BY <1>2, <1>5
<1>10. Cells'
  BY <1>2, <1>4, <1>7, <1>8, <1>9 DEF Cells
<1> QED
  BY <1>1, <1>4, <1>6, <1>10

LEMMA SetContent ==
  ASSUME ListInv, NEW i \in 0 .. MaxLength, NEW e \in Elem, Set(i, e)
  PROVE  ListService!Set(i, e) /\ i \in 0 .. Len(Content) + Gap
<1>1. i \in Nat /\ i <= length + Gap /\ e \in Value
  BY ListAssumption DEF Set, Value
<1>2. length \in Nat /\ Gap \in Nat
  BY ListAssumption DEF ListInv, Cells
<1>3. /\ GrownCells(i) \in [0 .. Grown(i) - 1 -> Value]
      /\ \A m \in 0 .. length - 1 : GrownCells(i)[m] = cell[m]
  BY <1>1, GrownKeeps DEF ListInv
<1>4. i < Grown(i) /\ Grown(i) \in Nat
  BY <1>1, GrowsEnough DEF ListInv
<1>5. /\ Content \in Seq(Value) /\ Len(Content) = length
      /\ Content \in [1 .. length -> Value]
      /\ \A n \in 1 .. length : Content[n] = cell[n - 1]
  BY ContentSeq DEF ListInv
<1>6. Cells'
  BY SetStep
<1>7. ret' = <<GrownCells(i)[i]>> /\ GrownCells(i)[i] \in Value
  <2>1. i \in DOMAIN GrownCells(i)
    BY <1>1, <1>3, <1>4
  <2>2. Reading(GrownCells(i), i) = {GrownCells(i)[i]}
    BY <2>1 DEF Reading
  <2> QED
    BY <1>3, <2>1, <2>2 DEF Set
<1>8. /\ cell' = [GrownCells(i) EXCEPT ![i] = e]
      /\ length' = IF length <= i THEN i + 1 ELSE length
  BY DEF Set
<1>9. cell'[i] = e /\ \A m \in 0 .. length - 1 : m # i => cell'[m] = cell[m]
  BY <1>1, <1>3, <1>4, <1>8
<1>10. CASE i < length
  <2>1. length' = length
    BY <1>1, <1>2, <1>8, <1>10
  <2>2. [Content EXCEPT ![i + 1] = e] \in [1 .. length -> Value]
    BY <1>1, <1>2, <1>5, <1>10
  <2>3. ASSUME NEW m \in 1 .. length
        PROVE  cell'[m - 1] = [Content EXCEPT ![i + 1] = e][m]
    BY <1>1, <1>2, <1>5, <1>9, <1>10, <2>3
  <2>4. Content' = [Content EXCEPT ![i + 1] = e]
    BY <1>2, <1>6, <2>1, <2>2, <2>3, ContentNext
  <2>5. GrownCells(i)[i] = Content[i + 1]
    BY <1>1, <1>2, <1>3, <1>5, <1>10
  <2> QED
    BY <1>1, <1>2, <1>5, <1>7, <1>10, <2>4, <2>5 DEF ListService!Set
<1>11. CASE ~(i < length)
  <2>1. length' = i + 1
    BY <1>1, <1>2, <1>8, <1>11
  <2>2. /\ Content' \in [1 .. i + 1 -> Value]
        /\ \A n \in 1 .. i + 1 : Content'[n] = cell'[n - 1]
    <3>1. ASSUME NEW n \in 1 .. i + 1 PROVE cell'[n - 1] \in Value
      <4>1. n - 1 \in 0 .. allocated_length' - 1
        BY <1>1, <1>4, <2>1 DEF Set
      <4> QED
        BY <1>6, <4>1 DEF Cells
    <3> QED
      BY <2>1, <3>1 DEF Content
  <2>3. Content'[i + 1] = e
    BY <1>1, <1>9, <2>2
  <2>4. ASSUME NEW n \in 1 .. Len(Content) PROVE Content'[n] = Content[n]
    <3>1. n \in 1 .. length /\ n \in 1 .. i + 1 /\ n - 1 \in 0 .. length - 1 /\ n - 1 # i
      BY <1>1, <1>2, <1>5, <1>11, <2>4
    <3> QED
      BY <1>5, <1>9, <2>2, <3>1
  <2>5. ~(i < Len(Content)) /\ i \in 0 .. Len(Content) + Gap
    BY <1>1, <1>2, <1>5, <1>11
  <2> QED
    BY <1>7, <2>2, <2>3, <2>4, <2>5 DEF ListService!Set, ListService!Value, Value
<1> QED
  BY <1>10, <1>11

\* list_insert, and the last part of list_insert_sorted.
LEMMA MoveInStep ==
  ASSUME ListInv, NEW i \in Nat, i < length, NEW e \in Value, MoveIn(i, e)
  PROVE  /\ Cells' /\ touched' \in Int /\ touched' < allocated_length'
         /\ length' = length + 1
         /\ Content' = ListService!Inserted(i, e)
<1> DEFINE size == Grown(length + 1)
           old == GrownCells(length + 1)
<1>1. length \in Nat /\ length + 1 \in Nat /\ allocated_length \in Nat
      /\ allocated_length >= Capacity /\ Capacity \in Nat
  BY ListAssumption DEF ListInv, Cells
<1>2. size \in Nat /\ length < size /\ allocated_length <= size
  BY <1>1, GrowsEnough DEF ListInv
<1>3. /\ old \in [0 .. size - 1 -> Value]
      /\ \A m \in 0 .. length - 1 : old[m] = cell[m]
  BY <1>1, GrownKeeps DEF ListInv
<1>4. /\ allocated_length' = size /\ length' = length + 1 /\ touched' = length
      /\ cell' = [n \in 0 .. size - 1 |->
                    IF n = i THEN e
                    ELSE IF n > i /\ n <= length THEN old[n - 1] ELSE old[n]]
  BY DEF MoveIn
<1> HIDE DEF size, old
<1>5. cell' \in [0 .. size - 1 -> Value]
  <2>1. ASSUME NEW n \in 0 .. size - 1
        PROVE  (IF n = i THEN e
                ELSE IF n > i /\ n <= length THEN old[n - 1] ELSE old[n]) \in Value
    BY <1>1, <1>2, <1>3, <2>1
  <2> QED
    BY <1>4, <2>1
<1>6. Cells'
  <2>1. size >= Capacity /\ length + 1 <= size
    BY <1>1, <1>2
  <2> QED
    BY <1>1, <1>2, <1>4, <1>5, <2>1 DEF Cells
<1>7. /\ Content \in Seq(Value) /\ Len(Content) = length
      /\ Content \in [1 .. length -> Value]
      /\ \A n \in 1 .. length : Content[n] = cell[n - 1]
  BY ContentSeq DEF ListInv
<1>8. Content' = ListService!Inserted(i, e)
  <2>1. ASSUME NEW n \in 1 .. length + 1
        PROVE  cell'[n - 1] = IF n <= i THEN Content[n]
                              ELSE IF n = i + 1 THEN e ELSE Content[n - 1]
    <3>1. n - 1 \in 0 .. size - 1
      BY <1>1, <1>2
    <3>2. CASE n <= i
      <4>1. cell'[n - 1] = old[n - 1]
        BY <1>1, <1>4, <3>1, <3>2
      <4>2. n \in 1 .. length /\ n - 1 \in 0 .. length - 1
        BY <1>1, <3>2
      <4> QED
        BY <1>3, <1>7, <3>2, <4>1, <4>2
    <3>3. CASE n = i + 1
      BY <1>1, <1>4, <3>1, <3>3
    <3>4. CASE ~(n <= i) /\ n # i + 1
      <4>1. cell'[n - 1] = old[n - 2]
        BY <1>1, <1>4, <3>1, <3>4
      <4>2. n - 1 \in 1 .. length /\ n - 2 \in 0 .. length - 1
        BY <1>1, <3>4
      <4>3. Content[n - 1] = cell[n - 2]
        BY <1>7, <4>2
      <4> QED
        BY <1>3, <3>4, <4>1, <4>2, <4>3
    <3> QED
      BY <3>2, <3>3, <3>4
  <2>2. Content' = [n \in 1 .. length + 1 |-> cell'[n - 1]]
    BY <1>4 DEF Content
  <2> QED
    BY <1>7, <2>1, <2>2 DEF ListService!Inserted
<1>9. length \in Int /\ length < size
  BY <1>1, <1>2
<1> QED
  BY <1>4, <1>6, <1>8, <1>9

\* The push at the end of list_insert_sorted.
LEMMA AppendStep ==
  ASSUME ListInv, op = "insertion", insert_index >= length, Insertion
  PROVE  /\ Cells' /\ touched' \in Int /\ touched' < allocated_length'
         /\ Content' = ListService!Inserted(length, element)
<1> DEFINE size == Grown(length)
           old == GrownCells(length)
<1>1. length \in Nat /\ allocated_length \in Nat /\ element \in Value
      /\ allocated_length >= Capacity /\ Capacity \in Nat /\ Gap \in Nat
  BY ListAssumption DEF ListInv, Cells, Searching, Value
<1>2. size \in Nat /\ length < size /\ allocated_length <= size
  BY <1>1, GrowsEnough DEF ListInv
<1>3. /\ old \in [0 .. size - 1 -> Value]
      /\ \A m \in 0 .. length - 1 : old[m] = cell[m]
  BY <1>1, GrownKeeps DEF ListInv
<1>4. /\ allocated_length' = size /\ length' = length + 1 /\ touched' = length
      /\ cell' = [old EXCEPT ![length] = element]
  BY DEF Insertion
<1> HIDE DEF size, old
<1>5. cell' \in [0 .. size - 1 -> Value]
  BY <1>1, <1>2, <1>3, <1>4
<1>6. Cells'
  <2>1. size >= Capacity /\ length + 1 <= size
    BY <1>1, <1>2
  <2> QED
    BY <1>1, <1>2, <1>4, <1>5, <2>1 DEF Cells
<1>7. /\ Len(Content) = length
      /\ \A n \in 1 .. length : Content[n] = cell[n - 1]
  BY ContentSeq DEF ListInv
<1>8. Content' = ListService!Inserted(length, element)
  <2>1. ASSUME NEW n \in 1 .. length + 1
        PROVE  cell'[n - 1] = IF n <= length THEN Content[n]
                              ELSE IF n = length + 1 THEN element ELSE Content[n - 1]
    <3>1. CASE n <= length
      <4>1. n \in 1 .. length /\ n - 1 \in 0 .. length - 1 /\ n - 1 # length
            /\ n - 1 \in 0 .. size - 1
        BY <1>1, <1>2, <3>1
      <4> QED
        BY <1>3, <1>4, <1>7, <3>1, <4>1
    <3>2. CASE n = length + 1
      BY <1>1, <1>2, <1>3, <1>4, <3>2
    <3> QED
      BY <1>1, <3>1, <3>2
  <2>2. Content' = [n \in 1 .. length + 1 |-> cell'[n - 1]]
    BY <1>4 DEF Content
  <2> QED
    BY <1>7, <2>1, <2>2 DEF ListService!Inserted
<1> QED
  BY <1>1, <1>2, <1>4, <1>6, <1>8

LEMMA RemoveStep ==
  ASSUME ListInv, NEW i \in -1 .. MaxLength, Remove(i)
  PROVE  /\ Cells' /\ touched' \in Int /\ touched' < allocated_length'
         /\ \E j \in -1 .. Len(Content) - 1 : ListService!Remove(j)
<1>1. length \in Nat /\ allocated_length \in Nat /\ length <= allocated_length
      /\ allocated_length >= Capacity /\ Capacity \in Nat
      /\ cell \in [0 .. allocated_length - 1 -> Value]
  BY ListAssumption DEF ListInv, Cells
<1>2. /\ Content \in [1 .. length -> Value] /\ Len(Content) = length
      /\ \A n \in 1 .. length : Content[n] = cell[n - 1]
  BY ContentSeq DEF ListInv
<1>3. allocated_length' = allocated_length
  BY DEF Remove
<1>4. CASE i < 0 \/ i >= length
  <2>1. ret' = <<Null>> /\ UNCHANGED <<cell, length, touched>>
    BY <1>4 DEF Remove
  <2>2. Cells' /\ touched' \in Int /\ touched' < allocated_length'
    BY <1>3, <2>1 DEF ListInv, Cells
  <2>3. Content' = Content
    BY <2>1 DEF Content
  <2>4. -1 \in -1 .. Len(Content) - 1 /\ -1 \notin 0 .. Len(Content) - 1
    BY <1>1, <1>2
  <2>5. ListService!Remove(-1)
    BY <2>1, <2>3, <2>4 DEF ListService!Remove
  <2> QED
    BY <2>2, <2>4, <2>5
<1>5. CASE ~(i < 0 \/ i >= length)
  <2>1. /\ ret' = <<cell[i]>>
        /\ cell' = [n \in 0 .. allocated_length - 1 |->
                      IF n >= i /\ n < length - 1 THEN cell[n + 1] ELSE cell[n]]
        /\ length' = length - 1 /\ touched' = length - 1
    BY <1>5 DEF Remove
  <2>2. i \in 0 .. length - 1 /\ i \in Nat /\ i < length
    BY <1>1, <1>5, ListAssumption
  <2>3. length - 1 \in Nat /\ length - 1 < allocated_length
    BY <1>1, <2>2
  <2>4. cell' \in [0 .. allocated_length - 1 -> Value]
    BY <1>1, <2>1, <2>2
  <2>5. Cells'
    BY <1>1, <1>3, <2>1, <2>3, <2>4 DEF Cells
  <2>6. ASSUME NEW n \in 1 .. length - 1
        PROVE  cell'[n - 1] = IF n <= i THEN Content[n] ELSE Content[n + 1]
    <3>1. n - 1 \in 0 .. allocated_length - 1 /\ n \in 1 .. length /\ n + 1 \in 1 .. length
      BY <1>1, <2>3
    <3>2. CASE n <= i
      BY <1>2, <2>1, <2>2, <3>1, <3>2
    <3>3. CASE ~(n <= i)
      <4>1. cell'[n - 1] = cell[n]
        BY <1>1, <2>1, <2>2, <3>1, <3>3
      <4>2. Content[n + 1] = cell[n]
        BY <1>2, <3>1
      <4> QED
        BY <3>3, <4>1, <4>2
    <3> QED
      BY <3>2, <3>3
  <2>7. Content' = [n \in 1 .. length - 1 |->
                      IF n <= i THEN Content[n] ELSE Content[n + 1]]
    BY <2>1, <2>6 DEF Content
  <2>8. Content[i + 1] = cell[i]
    BY <1>1, <1>2, <2>2
  <2>9. ListService!Remove(i)
    BY <1>2, <2>1, <2>2, <2>7, <2>8 DEF ListService!Remove
  <2>10. i \in -1 .. Len(Content) - 1
    BY <1>1, <1>2, <2>2
  <2> QED
    BY <1>3, <2>1, <2>3, <2>5, <2>9, <2>10
<1> QED
  BY <1>4, <1>5

LEMMA PopStep ==
  ASSUME ListInv, Pop
  PROVE  /\ Cells' /\ touched' \in Int /\ touched' < allocated_length'
         /\ ListService!Pop
<1>1. length \in Nat /\ allocated_length \in Nat /\ length <= allocated_length
  BY DEF ListInv, Cells
<1>2. /\ Content \in [1 .. length -> Value] /\ Len(Content) = length
      /\ \A n \in 1 .. length : Content[n] = cell[n - 1]
      /\ Content \in Seq(Value)
  BY ContentSeq DEF ListInv
<1>3. UNCHANGED <<cell, allocated_length>>
  BY DEF Pop
<1>4. CASE length = 0
  <2>1. ret' = <<Null>> /\ UNCHANGED <<length, touched>>
    BY <1>4 DEF Pop
  <2>2. Content' = Content /\ Content = <<>>
    BY <1>2, <1>3, <1>4, <2>1 DEF Content
  <2> QED
    BY <1>3, <2>1, <2>2 DEF ListInv, Cells, ListService!Pop
<1>5. CASE length # 0
  <2>1. length' = length - 1 /\ ret' = <<cell[length - 1]>> /\ touched' = length - 1
    BY <1>5 DEF Pop
  <2>2. length - 1 \in Nat /\ length - 1 < allocated_length
    BY <1>1, <1>5
  <2>3. Cells'
    BY <1>3, <2>1, <2>2 DEF ListInv, Cells
  <2>4. Content' = [n \in 1 .. length - 1 |-> Content[n]]
    <3>1. ASSUME NEW n \in 1 .. length - 1 PROVE Content[n] = cell[n - 1]
      <4>1. n \in 1 .. length
        BY <1>1, <3>1
      <4> QED
        BY <1>2, <4>1
    <3> QED
      BY <1>3, <2>1, <3>1 DEF Content
  <2>5. Content[length] = cell[length - 1] /\ Content # <<>>
    BY <1>1, <1>2, <1>5
  <2> QED
    BY <1>2, <1>3, <2>1, <2>2, <2>3, <2>4, <2>5 DEF ListService!Pop
<1> QED
  BY <1>4, <1>5

LEMMA EmptyStep ==
  ASSUME ListInv, Empty
  PROVE  /\ Cells' /\ touched' \in Int /\ touched' < allocated_length'
         /\ ListService!Empty
<1>1. Cells' /\ touched' \in Int /\ touched' < allocated_length'
  BY DEF ListInv, Cells, Empty
<1>2. Content' = <<>>
  <2>1. Content' \in Seq(Value) /\ Len(Content') = 0
    <3>1. length' = 0
      BY DEF Empty
    <3>2. Content' = [n \in 1 .. 0 |-> cell'[n - 1]]
      BY <3>1 DEF Content
    <3> QED
      BY <3>2
  <2> QED
    BY <2>1
<1> QED
  BY <1>1, <1>2 DEF Empty, ListService!Empty

\* FiniteSets is instanced with the service: its operators are the same.
LEMMA SameCardinality ==
  ASSUME NEW S PROVE ListService!Cardinality(S) = Cardinality(S)
BY DEF ListService!Cardinality, Cardinality

\* Sorted cells are sorted elements, numbered from 1.
LEMMA SortStep ==
  ASSUME ListInv, Sort
  PROVE  /\ Cells' /\ touched' \in Int /\ touched' < allocated_length'
         /\ ListService!Sort
<1>1. length \in Nat /\ allocated_length \in Nat /\ length <= allocated_length
      /\ cell \in [0 .. allocated_length - 1 -> Value]
  BY DEF ListInv, Cells
<1>2. /\ Content \in [1 .. length -> Value] /\ Len(Content) = length
      /\ \A n \in 1 .. length : Content[n] = cell[n - 1]
  BY ContentSeq DEF ListInv
<1>3. UNCHANGED <<length, allocated_length, ret, touched>>
  BY DEF Sort
<1>4. PICK sorted \in [0 .. length - 1 -> Elem] :
        /\ \A m, n \in 0 .. length - 1 : m < n => sorted[m] <= sorted[n]
        /\ \A e \in Elem :
             Cardinality({i \in 0 .. length - 1 : sorted[i] = e}) = Cardinality(Places(e))
        /\ cell' = [n \in 0 .. allocated_length - 1 |->
                      IF n < length THEN sorted[n] ELSE cell[n]]
  BY DEF Sort
<1>5. cell' \in [0 .. allocated_length - 1 -> Value]
  <2>1. ASSUME NEW n \in 0 .. allocated_length - 1
        PROVE  (IF n < length THEN sorted[n] ELSE cell[n]) \in Value
    BY <1>1, <1>4, <2>1 DEF Value
  <2> QED
    BY <1>4, <2>1
<1>6. Cells'
  BY <1>3, <1>5 DEF ListInv, Cells
<1>7. ASSUME NEW n \in 1 .. length
       PROVE  n - 1 \in 0 .. length - 1 /\ Content'[n] = sorted[n - 1]
  <2>1. n - 1 \in 0 .. length - 1 /\ n - 1 \in 0 .. allocated_length - 1 /\ n - 1 < length
    BY <1>1
  <2> QED
    BY <1>3, <1>4, <2>1 DEF Content
<1>8. Content' \in [1 .. length -> Elem]
  <2>1. Content' = [n \in 1 .. length |-> Content'[n]]
    BY <1>3 DEF Content
  <2> QED
    BY <1>4, <1>7, <2>1
<1>9. ASSUME NEW m \in 1 .. length, NEW n \in 1 .. length, m < n
       PROVE  Content'[m] <= Content'[n]
  <2>1. m - 1 < n - 1
    BY ONLY <1>1, <1>9, m \in 1 .. length, n \in 1 .. length
  <2> QED
    BY <1>4, <1>7, <2>1
<1>10. ASSUME NEW e \in Elem
      PROVE  Cardinality(ListService!Positions(e))' = Cardinality(ListService!Positions(e))
  <2>1. ASSUME NEW i \in 0 .. length - 1
        PROVE  Content'[i + 1] = sorted[i] /\ Content[i + 1] = cell[i]
    <3>1. i + 1 \in 1 .. length /\ (i + 1) - 1 = i
      BY <1>1
    <3> QED
      BY <1>2, <1>7, <3>1
  <2>2. Len(Content') = length
    <3>1. Content' = [n \in 1 .. length |-> Content'[n]]
      BY <1>3 DEF Content
    <3> QED
      BY <1>1, <1>8, <3>1, LenProperties
  <2>3. ListService!Positions(e) = Places(e)
    BY <1>2, <2>1 DEF ListService!Positions, Places
  <2>4. ListService!Positions(e)' = {i \in 0 .. length - 1 : sorted[i] = e}
    BY <2>1, <2>2 DEF ListService!Positions
  <2> QED
    BY <1>4, <2>3, <2>4
<1>11. ASSUME NEW n \in 1 .. length PROVE Content[n] # Null
  <2>1. n - 1 \in 0 .. length - 1
    BY <1>1
  <2> QED
    BY <1>2, <2>1 DEF Sort, AllSet
<1>12. ListService!Sort
  <2>1. \A e \in Elem :
          ListService!Cardinality(ListService!Positions(e))'
            = ListService!Cardinality(ListService!Positions(e))
    BY <1>10, SameCardinality
  <2>2. /\ \A n \in 1 .. Len(Content) : Content[n] # Null
        /\ Content' \in [1 .. Len(Content) -> Elem]
        /\ \A m, n \in 1 .. Len(Content) : m < n => Content'[m] <= Content'[n]
    BY <1>2, <1>8, <1>9, <1>11
  <2> QED
    BY <1>3, <2>1, <2>2 DEF ListService!Sort
<1> QED
  BY <1>3, <1>6, <1>12 DEF ListInv

\* list_dup does not show.
LEMMA DuplicateStep ==
  ASSUME ListInv, Duplicate
  PROVE  /\ Cells' /\ touched' \in Int /\ touched' < allocated_length'
         /\ Content' = Content /\ ret' = ret
<1>1. length \in Nat /\ allocated_length \in Nat /\ length <= allocated_length
      /\ cell \in [0 .. allocated_length - 1 -> Value]
  BY DEF ListInv, Cells
<1>2. /\ UNCHANGED <<length, allocated_length, ret, touched>>
      /\ cell' = [n \in 0 .. allocated_length - 1 |->
                    IF n < length THEN cell[n] ELSE Null]
  BY DEF Duplicate
<1>3. cell' \in [0 .. allocated_length - 1 -> Value]
  BY <1>1, <1>2 DEF Value
<1>4. Cells'
  BY <1>2, <1>3 DEF ListInv, Cells
<1>5. ASSUME NEW n \in 1 .. length PROVE cell'[n - 1] = cell[n - 1]
  <2>1. n - 1 \in 0 .. allocated_length - 1 /\ n - 1 < length
    BY <1>1
  <2> QED
    BY <1>2, <2>1
<1>6. Content' = Content
  BY <1>2, <1>5 DEF Content
<1> QED
  BY <1>2, <1>4, <1>6 DEF ListInv

-----------------------------------------------------------------------------
(***************************************************************************)
(* The operations that read                                                *)
(***************************************************************************)
LEMMA GetStep ==
  ASSUME ListInv, NEW i \in 0 .. MaxLength, Get(i)
  PROVE  \E j \in 0 .. Len(Content) : ListService!Get(j)
<1>1. length \in Nat
  BY DEF ListInv, Cells
<1>2. /\ Len(Content) = length
      /\ \A n \in 1 .. length : Content[n] = cell[n - 1]
  BY ContentSeq DEF ListInv
<1>3. Content' = Content /\ ret' = <<IF i >= length THEN Null ELSE cell[i]>>
  BY DEF Get, Content
<1>4. CASE i >= length
  <2>1. ret' = <<Null>>
    BY <1>3, <1>4
  <2>2. ListService!Get(length)
    BY <1>1, <1>2, <1>3, <2>1 DEF ListService!Get
  <2> QED
    BY <1>1, <1>2, <2>2
<1>5. CASE ~(i >= length)
  <2>1. i \in 0 .. length /\ i + 1 \in 1 .. length /\ i < length /\ i + 1 - 1 = i
    BY <1>1, <1>5, ListAssumption
  <2>2. ret' = <<Content[i + 1]>>
    BY <1>2, <1>3, <1>5, <2>1
  <2>3. ListService!Get(i)
    BY <1>2, <1>3, <2>1, <2>2 DEF ListService!Get
  <2> QED
    BY <1>2, <2>1, <2>3
<1> QED
  BY <1>4, <1>5

LEMMA FindStep ==
  ASSUME ListInv, NEW e \in Elem, Find(e) \/ FindUnsorted(e)
  PROVE  ListService!Find(e)
<1>1. length \in Nat
  BY DEF ListInv, Cells
<1>2. /\ Len(Content) = length
      /\ \A n \in 1 .. length : Content[n] = cell[n - 1]
  BY ContentSeq DEF ListInv
<1>3. ASSUME NEW i \in 0 .. length - 1 PROVE Content[i + 1] = cell[i]
  <2>1. i + 1 \in 1 .. length /\ i + 1 - 1 = i
    BY <1>1
  <2> QED
    BY <1>2, <2>1
<1>4. ListService!Positions(e) = Places(e)
  BY <1>2, <1>3 DEF ListService!Positions, Places
<1>5. /\ Content' = Content
      /\ IF Places(e) = {} THEN ret' = <<-1>> ELSE \E i \in Places(e) : ret' = <<i>>
  BY DEF Find, FindUnsorted, Content
<1> QED
  BY <1>4, <1>5 DEF ListService!Find

-----------------------------------------------------------------------------
(***************************************************************************)
(* list_insert_sorted                                                      *)
(***************************************************************************)
\* Half of the way between the bounds is between them.
LEMMA MiddleBetween ==
  ASSUME NEW left \in Nat, NEW right \in Nat, left <= right
  PROVE  /\ Middle(left, right) \in Nat
         /\ left < Middle(left, right)
         /\ left < right => Middle(left, right) <= right
<1>1. (right - left) \div 2 \in Nat /\ 2 * ((right - left) \div 2) <= right - left
  OBVIOUS
<1> QED
  BY <1>1 DEF Middle

LEMMA BeginInsertStep ==
  ASSUME ListInv, NEW e \in Elem, BeginInsert(e)
  PROVE  Searching'
<1>1. length \in Nat /\ right_bound \in Nat
  BY DEF ListInv, Cells, Searching
<1>2. element' = e /\ left_bound' = 0 /\ length' = length
  BY DEF BeginInsert
<1>3. CASE length <= 1
  BY <1>1, <1>2, <1>3, ListAssumption DEF BeginInsert, Searching
<1>4. CASE ~(length <= 1)
  <2>1. right_bound' = length - 1 /\ insert_index' = Middle(0, length - 1) /\ op' = "search"
    BY <1>4 DEF BeginInsert
  <2>2. length - 1 \in Nat /\ 0 < length - 1 /\ 0 \in Nat /\ 0 <= length - 1
    BY <1>1, <1>4
  <2>3. /\ Middle(0, length - 1) \in Nat /\ 0 < Middle(0, length - 1)
        /\ Middle(0, length - 1) <= length - 1
    BY <2>2, MiddleBetween
  <2> QED
    BY <1>1, <1>2, <2>1, <2>2, <2>3, ListAssumption DEF Searching
<1> QED
  BY <1>3, <1>4

LEMMA SearchStep ==
  ASSUME ListInv, Search
  PROVE  /\ Searching' /\ Cells' /\ touched' \in Int /\ touched' < allocated_length'
         /\ Content' = Content /\ ret' = ret
<1>1. /\ length \in Nat /\ left_bound \in Nat /\ right_bound \in Nat
      /\ insert_index \in Nat /\ left_bound < right_bound
      /\ left_bound < insert_index /\ right_bound < length /\ insert_index <= right_bound
      /\ allocated_length \in Nat /\ length <= allocated_length
      /\ op = "search" /\ element \in Elem
  BY DEF ListInv, Cells, Searching, Search
<1>2. UNCHANGED <<cell, length, allocated_length, ret, element>> /\ touched' = insert_index
  BY DEF Search
<1>3. Cells' /\ touched' \in Int /\ touched' < allocated_length'
  BY <1>1, <1>2 DEF ListInv, Cells
<1>4. CASE element = cell[insert_index]
  <2>1. op' = "insertion" /\ UNCHANGED <<left_bound, right_bound, insert_index>>
    BY <1>4 DEF Search
  <2> QED
    BY <1>1, <1>2, <1>3, <2>1, ListAssumption DEF Searching, Content
<1>5. CASE element # cell[insert_index]
  <2>1. /\ left_bound' \in Nat /\ right_bound' \in Nat /\ left_bound' <= right_bound'
        /\ right_bound' < length
        /\ insert_index' = Middle(left_bound', right_bound')
        /\ op' = IF insert_index' < right_bound' THEN "search" ELSE "insertion"
    <3>1. CASE element > cell[insert_index]
      BY <1>1, <1>5, <3>1 DEF Search
    <3>2. CASE ~(element > cell[insert_index])
      BY <1>1, <1>5, <3>2 DEF Search
    <3> QED
      BY <3>1, <3>2
  <2>2. insert_index' \in Nat /\ left_bound' < insert_index'
    BY <2>1, MiddleBetween
  <2> QED
    BY <1>1, <1>2, <1>3, <2>1, <2>2, ListAssumption DEF Searching, Content
<1> QED
  BY <1>2, <1>3, <1>4, <1>5 DEF Content

\* A turn that is not the last did not look at the upper bound: it moves one of
\* the bounds to a place strictly between them.
LEMMA SearchCloses ==
  ASSUME ListInv, Search, op' = "search"
  PROVE  right_bound' - left_bound' < right_bound - left_bound
<1>1. /\ left_bound \in Nat /\ right_bound \in Nat /\ insert_index \in Nat
      /\ left_bound < insert_index /\ insert_index <= right_bound
      /\ insert_index = Middle(left_bound, right_bound)
  BY DEF ListInv, Searching, Search
<1>2. /\ insert_index' = Middle(left_bound', right_bound')
      /\ insert_index' < right_bound'
      /\ \/ left_bound' = insert_index /\ right_bound' = right_bound
         \/ right_bound' = insert_index /\ left_bound' = left_bound
  BY DEF Search
<1>3. CASE left_bound' = insert_index /\ right_bound' = right_bound
  BY <1>1, <1>3
<1>4. CASE right_bound' = insert_index /\ left_bound' = left_bound
  <2>1. insert_index # right_bound
    BY <1>1, <1>2, <1>4
  <2> QED
    BY <1>1, <1>4, <2>1
<1> QED
  BY <1>2, <1>3, <1>4

LEMMA InsertionStep ==
  ASSUME ListInv, Insertion
  PROVE  /\ Searching' /\ Cells' /\ touched' \in Int /\ touched' < allocated_length'
         /\ ListService!InsertSomewhere(element) /\ element \in Elem
<1>1. /\ length \in Nat /\ insert_index \in Nat /\ op = "insertion"
      /\ element \in Elem /\ element \in Value
  BY DEF ListInv, Cells, Searching, Insertion, Value
<1>2. Searching'
  BY DEF Insertion, Searching
<1>3. Len(Content) = length
  BY ContentSeq DEF ListInv
<1>4. CASE insert_index >= length
  <2>1. ret' = <<length>> /\ length \in 0 .. Len(Content)
    BY <1>1, <1>3, <1>4 DEF Insertion
  <2>2. /\ Cells' /\ touched' \in Int /\ touched' < allocated_length'
        /\ Content' = ListService!Inserted(length, element)
    BY <1>1, <1>4, AppendStep
  <2>3. ListService!InsertSomewhere(element)
    BY <2>1, <2>2 DEF ListService!InsertSomewhere
  <2> QED
    BY <1>1, <1>2, <2>2, <2>3
<1>5. CASE ~(insert_index >= length)
  <2>1. MoveIn(insert_index, element) /\ ret' = <<insert_index>>
    BY <1>5 DEF Insertion
  <2>2. insert_index < length /\ insert_index \in 0 .. Len(Content)
    BY <1>1, <1>3, <1>5
  <2>3. /\ Cells' /\ touched' \in Int /\ touched' < allocated_length'
        /\ Content' = ListService!Inserted(insert_index, element)
    BY <1>1, <2>1, <2>2, MoveInStep
  <2>4. ListService!InsertSomewhere(element)
    BY <2>1, <2>2, <2>3 DEF ListService!InsertSomewhere
  <2> QED
    BY <1>1, <1>2, <2>3, <2>4
<1> QED
  BY <1>4, <1>5

LEMMA InsertStep ==
  ASSUME ListInv, NEW i \in 0 .. MaxLength, NEW e \in Elem, Insert(i, e)
  PROVE  /\ Cells' /\ touched' \in Int /\ touched' < allocated_length'
         /\ \E j \in 0 .. Len(Content) : ListService!Insert(j, e)
<1>1. length \in Nat /\ i \in Nat /\ e \in Value
  BY ListAssumption DEF ListInv, Cells, Value
<1>2. Len(Content) = length
  BY ContentSeq DEF ListInv
<1>3. ret' = ret
  BY DEF Insert
<1>4. CASE i >= length
  <2>1. UNCHANGED <<cell, length, allocated_length, touched>>
    BY <1>4 DEF Insert
  <2>2. Cells' /\ touched' \in Int /\ touched' < allocated_length'
    BY <2>1 DEF ListInv, Cells
  <2>3. Content' = Content
    BY <2>1 DEF Content
  <2>4. length \in 0 .. Len(Content) /\ ~(length < Len(Content))
    BY <1>1, <1>2
  <2>5. ListService!Insert(length, e)
    BY <1>3, <2>3, <2>4 DEF ListService!Insert
  <2> QED
    BY <2>2, <2>4, <2>5
<1>5. CASE ~(i >= length)
  <2>1. MoveIn(i, e)
    BY <1>5 DEF Insert
  <2>2. i < length /\ i \in 0 .. Len(Content)
    BY <1>1, <1>2, <1>5
  <2>3. /\ Cells' /\ touched' \in Int /\ touched' < allocated_length'
        /\ Content' = ListService!Inserted(i, e)
    BY <1>1, <2>1, <2>2, MoveInStep
  <2>4. ListService!Insert(i, e)
    BY <1>2, <1>3, <2>2, <2>3 DEF ListService!Insert
  <2> QED
    BY <2>2, <2>3, <2>4
<1> QED
  BY <1>4, <1>5

-----------------------------------------------------------------------------
(***************************************************************************)
(* The theorems                                                            *)
(***************************************************************************)
LEMMA InitList == Init => ListInv
<1> SUFFICES ASSUME Init PROVE ListInv
  OBVIOUS
<1>1. Cells
  BY ListAssumption DEF Init, Cells, Value
<1>2. Searching
  BY DEF Init, Searching
<1> QED
  BY <1>1, <1>2, ListAssumption DEF Init, ListInv

\* Between calls, and when a call only reads.
LEMMA IdleSearching ==
  ASSUME ListInv, UNCHANGED <<op, searchVars>>, op = "idle"
  PROVE  Searching'
BY DEF ListInv, Searching, searchVars

LEMMA ReadOnly ==
  ASSUME ListInv, UNCHANGED <<cell, length, allocated_length, touched>>
  PROVE  /\ Cells' /\ touched' \in Int /\ touched' < allocated_length'
         /\ Content' = Content
BY DEF ListInv, Cells, Content

LEMMA StepList ==
  ListInv /\ [Next]_vars => ListInv' /\ [ListService!Next]_(ListService!listVars)
<1> SUFFICES ASSUME ListInv, [Next]_vars
             PROVE  ListInv' /\ [ListService!Next]_(ListService!listVars)
  OBVIOUS
<1> USE DEF ListService!listVars
<1>1. ASSUME NEW i \in 0 .. MaxLength, NEW e \in Elem, Set(i, e)
      PROVE  ListInv' /\ ListService!Next
  <2>1. Searching'
    BY <1>1, IdleSearching DEF Set, Idle
  <2>2. ListService!Next
    BY <1>1, SetContent DEF ListService!Next
  <2> QED
    BY <1>1, <2>1, <2>2, SetStep DEF ListInv
<1>2. ASSUME NEW i \in 0 .. MaxLength, NEW e \in Elem, Insert(i, e)
      PROVE  ListInv' /\ ListService!Next
  <2>1. Searching'
    BY <1>2, IdleSearching DEF Insert, Idle
  <2>2. ListService!Next
    BY <1>2, InsertStep DEF ListService!Next
  <2> QED
    BY <1>2, <2>1, <2>2, InsertStep DEF ListInv
<1>3. ASSUME NEW i \in -1 .. MaxLength, Remove(i)
      PROVE  ListInv' /\ ListService!Next
  <2>1. Searching'
    BY <1>3, IdleSearching DEF Remove, Idle
  <2>2. ListService!Next
    BY <1>3, RemoveStep DEF ListService!Next
  <2> QED
    BY <1>3, <2>1, <2>2, RemoveStep DEF ListInv
<1>4. ASSUME NEW i \in 0 .. MaxLength, Get(i)
      PROVE  ListInv' /\ ListService!Next
  <2>1. Searching' /\ UNCHANGED <<cell, length, allocated_length, touched>>
    BY <1>4, IdleSearching DEF Get, Idle
  <2>2. ListService!Next
    BY <1>4, GetStep DEF ListService!Next
  <2> QED
    BY <2>1, <2>2, ReadOnly DEF ListInv
<1>5. ASSUME NEW e \in Elem, Find(e) \/ FindUnsorted(e)
      PROVE  ListInv' /\ ListService!Next
  <2>1. Searching' /\ UNCHANGED <<cell, length, allocated_length, touched>>
    BY <1>5, IdleSearching DEF Find, FindUnsorted, Idle
  <2>2. ListService!Next
    BY <1>5, FindStep DEF ListService!Next
  <2> QED
    BY <2>1, <2>2, ReadOnly DEF ListInv
<1>6. ASSUME NEW e \in Elem, BeginInsert(e)
      PROVE  ListInv' /\ UNCHANGED <<Content, ret>>
  <2>1. UNCHANGED <<cell, length, allocated_length, ret, touched>>
    BY <1>6 DEF BeginInsert
  <2> QED
    BY <1>6, <2>1, BeginInsertStep, ReadOnly DEF ListInv
<1>7. CASE Pop
  <2>1. Searching'
    BY <1>7, IdleSearching DEF Pop, Idle
  <2> QED
    BY <1>7, <2>1, PopStep DEF ListInv, ListService!Next
<1>8. CASE Empty
  <2>1. Searching'
    BY <1>8, IdleSearching DEF Empty, Idle
  <2> QED
    BY <1>8, <2>1, EmptyStep DEF ListInv, ListService!Next
<1>9. CASE Sort
  <2>1. Searching'
    BY <1>9, IdleSearching DEF Sort, Idle
  <2> QED
    BY <1>9, <2>1, SortStep DEF ListInv, ListService!Next
<1>10. CASE Duplicate
  <2>1. Searching'
    BY <1>10, IdleSearching DEF Duplicate, Idle
  <2> QED
    BY <1>10, <2>1, DuplicateStep DEF ListInv
<1>11. CASE ToChar
  <2>1. Searching' /\ UNCHANGED <<cell, length, allocated_length, touched>>
    BY <1>11, IdleSearching DEF ToChar, Idle
  <2>2. ListService!ToChar
    BY <1>11, <2>1, ReadOnly DEF ToChar, ListService!ToChar
  <2> QED
    BY <2>1, <2>2, ReadOnly DEF ListInv, ListService!Next
<1>12. CASE Search
  BY <1>12, SearchStep DEF ListInv
<1>13. CASE Insertion
  BY <1>13, InsertionStep DEF ListInv, ListService!Next
<1>14. CASE UNCHANGED vars
  BY <1>14 DEF vars, searchVars, ListInv, Cells, Searching, Content
<1> QED
  BY <1>1, <1>2, <1>3, <1>4, <1>5, <1>6, <1>7, <1>8, <1>9, <1>10, <1>11,
     <1>12, <1>13, <1>14
  DEF Next

LEMMA ListInvAlways == Spec => []ListInv
BY InitList, StepList, PTL DEF Spec

\* The state of a list keeps its types for elements of any kind, any first size
\* and any bound.
THEOREM ListTypeCorrect == Spec => []TypeOK
BY ListInvAlways, ListInvImplies, PTL

\* No call touches a cell after the end of the array, if an element is never
\* set further after the end than the first size.
THEOREM StaysInBounds == Spec => []InBounds
BY ListInvAlways, ListInvImplies, PTL

\* The search of list_insert_sorted narrows at each turn, in a list of any length
\* and whatever the elements: it takes fewer turns than there are elements.
THEOREM SearchNarrowsCorrect == Spec => SearchNarrows
<1>1. ListInv /\ [Next]_vars =>
        [(op = "search" /\ op' = "search")
           => right_bound' - left_bound' < right_bound - left_bound]_vars
  <2> SUFFICES ASSUME ListInv, [Next]_vars, op = "search", op' = "search", vars' # vars
               PROVE  right_bound' - left_bound' < right_bound - left_bound
    OBVIOUS
  <2>1. Search
    BY DEF Next, Set, Pop, Insert, Remove, Empty, Sort, Duplicate, Get, Find,
           FindUnsorted, ToChar, BeginInsert, Insertion, Idle
  <2> QED
    BY <2>1, SearchCloses
<1> QED
  BY <1>1, ListInvAlways, PTL DEF Spec, SearchNarrows

\* A list is the sequence that list.h promises, under the same assumption.
THEOREM ListImplements == Spec => ImplementsService
<1>1. Init => ListService!Init
  <2> SUFFICES ASSUME Init PROVE Content = <<>> /\ ret = <<Null>>
    BY DEF ListService!Init
  <2>2. ListInv /\ length = 0 /\ ret = <<Null>>
    BY InitList DEF Init
  <2>3. Content \in Seq(Value) /\ Len(Content) = 0
    BY <2>2, ContentSeq DEF ListInv
  <2> QED
    BY <2>2, <2>3
<1> QED
  BY <1>1, InitList, StepList, PTL DEF Spec, ImplementsService, ListService!Spec
=============================================================================
