-------------------------------- MODULE List --------------------------------
(***************************************************************************)
(* The list of list.c: an array of cells, the first length of which are    *)
(* its elements, that doubles when it is full.  The freeing of elements is *)
(* left out, and so are sublists, which share the array of a list that     *)
(* does not grow any more.                                                 *)
(***************************************************************************)
EXTENDS Integers, Sequences, FiniteSets

CONSTANTS
  Elem,       \* elements, ordered as the comparison of the caller does
  Null,       \* NULL, what cells hold before they are set
  Capacity,   \* max_elem of new_list
  Gap,        \* how far after the end list_set is called; the program pushes
  MaxLength   \* bound on the length

ASSUME ListAssumption ==
  /\ Elem \subseteq Int /\ Null \notin Elem
  /\ Capacity \in Nat \ {0} /\ Gap \in Nat /\ MaxLength \in Nat
\* A list grows enough for a push in any case, and for an element set after the
\* end when the distance is less than its first size.
ASSUME GapAssumption == Gap < Capacity

VARIABLES
  cell, length, allocated_length,
  ret,          \* what was returned last, as a sequence
  touched,      \* the last cell that a call touches
  op,           \* "idle", or where list_insert_sorted is
  element, left_bound, right_bound, insert_index

searchVars == <<element, left_bound, right_bound, insert_index>>
vars == <<cell, length, allocated_length, ret, touched, op, searchVars>>

Value == Elem \union {Null}
Content == [n \in 1 .. length |-> cell[n - 1]]

\* Comparisons look at what elements point to.
AllSet == \A n \in 0 .. length - 1 : cell[n] # Null

-----------------------------------------------------------------------------
(***************************************************************************)
(* list_chk_length                                                         *)
(***************************************************************************)
\* Mutant: adds a cell.
DoubledByOne(a, n) == a + 1

\* The loop that doubles, once in any case.
Doubled(a, n) ==
  LET more[b \in Nat] == IF b < n THEN more[2 * b] ELSE b
  IN  IF 2 * a < n THEN more[2 * a] ELSE 2 * a

\* Mutant: grows when the cell asked for is already after the end.
GrownLate(n) ==
  IF n > allocated_length THEN Doubled(allocated_length, n) ELSE allocated_length

Grown(n) ==
  IF n >= allocated_length THEN Doubled(allocated_length, n) ELSE allocated_length

\* Cells after the elements are cleared when the array grows, and only then.
GrownCells(n) ==
  [m \in 0 .. Grown(n) - 1 |->
     IF m < length \/ (Grown(n) = allocated_length /\ m < allocated_length)
     THEN cell[m] ELSE Null]

\* Cell n of the array; after its end, anything.
Reading(cells, n) == IF n \in DOMAIN cells THEN {cells[n]} ELSE Value

-----------------------------------------------------------------------------
(***************************************************************************)
(* Operations                                                              *)
(***************************************************************************)
Init ==
  /\ cell = [n \in 0 .. Capacity - 1 |-> Null]
  /\ length = 0 /\ allocated_length = Capacity
  /\ ret = <<Null>> /\ touched = -1
  /\ op = "idle"
  /\ element = Null /\ left_bound = 0 /\ right_bound = 0 /\ insert_index = 0

Idle == op = "idle" /\ UNCHANGED <<op, searchVars>>

\* list_set; list_push sets the cell at length.
Set(i, e) ==
  /\ Idle
  /\ i <= length + Gap /\ i < MaxLength
  /\ allocated_length' = Grown(i)
  /\ \E old \in Reading(GrownCells(i), i) : ret' = <<old>>
  /\ cell' = [GrownCells(i) EXCEPT ![i] = e]
  /\ length' = IF length <= i THEN i + 1 ELSE length
  /\ touched' = i

Pop ==
  /\ Idle
  /\ IF length = 0 THEN ret' = <<Null>> /\ UNCHANGED <<length, touched>>
     ELSE length' = length - 1 /\ ret' = <<cell[length - 1]>> /\ touched' = length - 1
  /\ UNCHANGED <<cell, allocated_length>>

\* The cells from i on move by one.
MoveIn(i, e) ==
  LET old == GrownCells(length + 1)
  IN  /\ allocated_length' = Grown(length + 1)
      /\ cell' = [n \in 0 .. Grown(length + 1) - 1 |->
                    IF n = i THEN e
                    ELSE IF n > i /\ n <= length THEN old[n - 1] ELSE old[n]]
      /\ length' = length + 1
      /\ touched' = length

Insert(i, e) ==
  /\ Idle
  /\ length < MaxLength
  /\ IF i >= length THEN UNCHANGED <<cell, length, allocated_length, touched>>
     ELSE MoveIn(i, e)
  /\ UNCHANGED ret

\* Mutant: the cells are moved from the wrong side.
RemoveNext(i) ==
  /\ Idle
  /\ IF i < 0 \/ i >= length
     THEN ret' = <<Null>> /\ UNCHANGED <<cell, length, touched>>
     ELSE /\ ret' = <<cell[i]>>
          /\ cell' = [n \in 0 .. allocated_length - 1 |->
                        IF n > i /\ n < length - 1 THEN cell[n + 1] ELSE cell[n]]
          /\ length' = length - 1 /\ touched' = length - 1
  /\ UNCHANGED allocated_length

Remove(i) ==
  /\ Idle
  /\ IF i < 0 \/ i >= length
     THEN ret' = <<Null>> /\ UNCHANGED <<cell, length, touched>>
     ELSE /\ ret' = <<cell[i]>>
          /\ cell' = [n \in 0 .. allocated_length - 1 |->
                        IF n >= i /\ n < length - 1 THEN cell[n + 1] ELSE cell[n]]
          /\ length' = length - 1 /\ touched' = length - 1
  /\ UNCHANGED allocated_length

\* empty_list keeps the cells.
Empty ==
  /\ Idle
  /\ length' = 0
  /\ UNCHANGED <<cell, allocated_length, ret, touched>>

\* Where an element is.
Places(e) == {i \in 0 .. length - 1 : cell[i] = e}

\* list_sort, that is qsort: as many of each element, in order.
Sort ==
  /\ Idle /\ AllSet
  /\ \E sorted \in [0 .. length - 1 -> Elem] :
       /\ \A m, n \in 0 .. length - 1 : m < n => sorted[m] <= sorted[n]
       /\ \A e \in Elem :
            Cardinality({i \in 0 .. length - 1 : sorted[i] = e}) = Cardinality(Places(e))
       /\ cell' = [n \in 0 .. allocated_length - 1 |->
                     IF n < length THEN sorted[n] ELSE cell[n]]
  /\ UNCHANGED <<length, allocated_length, ret, touched>>

\* list_dup; the list is then used in place of the first one.
Duplicate ==
  /\ Idle
  /\ cell' = [n \in 0 .. allocated_length - 1 |->
                IF n < length THEN cell[n] ELSE Null]
  /\ UNCHANGED <<length, allocated_length, ret, touched>>

Get(i) ==
  /\ Idle
  /\ ret' = <<IF i >= length THEN Null ELSE cell[i]>>
  /\ UNCHANGED <<cell, length, allocated_length, touched>>

\* list_find is bsearch, which finds any of the elements that are equal.
Find(e) ==
  /\ Idle /\ AllSet
  /\ \A m, n \in 0 .. length - 1 : m < n => cell[m] <= cell[n]
  /\ IF Places(e) = {} THEN ret' = <<-1>> ELSE \E i \in Places(e) : ret' = <<i>>
  /\ UNCHANGED <<cell, length, allocated_length, touched>>

FindUnsorted(e) ==
  /\ Idle
  /\ IF Places(e) = {} THEN ret' = <<-1>>
     ELSE \E i \in Places(e) : ret' = <<i>> /\ \A j \in Places(e) : i <= j
  /\ UNCHANGED <<cell, length, allocated_length, touched>>

\* list_to_char, the cells that list_reduce goes through too.
ToChar ==
  /\ Idle
  /\ ret' = Content
  /\ UNCHANGED <<cell, length, allocated_length, touched>>

(***************************************************************************)
(* list_insert_sorted                                                      *)
(***************************************************************************)
\* Mutant: the element at the lower bound may be looked at again.
MiddleLow(left, right) == left + (right - left) \div 2

Middle(left, right) == 1 + left + (right - left) \div 2

\* Where it goes is known at once in a list of one element at most.
BeginInsert(e) ==
  /\ op = "idle" /\ length < MaxLength /\ AllSet
  /\ element' = e
  /\ left_bound' = 0
  /\ IF length <= 1
     THEN /\ insert_index' = IF length = 1 /\ e > cell[0] THEN 1 ELSE 0
          /\ op' = "insertion" /\ UNCHANGED right_bound
     ELSE /\ right_bound' = length - 1
          /\ insert_index' = Middle(0, length - 1)
          /\ op' = "search"
  /\ UNCHANGED <<cell, length, allocated_length, ret, touched>>

\* Mutant: one turn more, at the upper bound.
SearchAtBound ==
  /\ op = "search"
  /\ touched' = insert_index
  /\ IF element = cell[insert_index]
     THEN op' = "insertion" /\ UNCHANGED <<left_bound, right_bound, insert_index>>
     ELSE /\ IF element > cell[insert_index]
             THEN left_bound' = insert_index /\ UNCHANGED right_bound
             ELSE right_bound' = insert_index /\ UNCHANGED left_bound
          /\ insert_index' = Middle(left_bound', right_bound')
          /\ op' = IF insert_index' <= right_bound' THEN "search" ELSE "insertion"
  /\ UNCHANGED <<cell, length, allocated_length, ret, element>>

\* One turn of the loop, which never looks at the first element.
Search ==
  /\ op = "search"
  /\ touched' = insert_index
  /\ IF element = cell[insert_index]
     THEN op' = "insertion" /\ UNCHANGED <<left_bound, right_bound, insert_index>>
     ELSE /\ IF element > cell[insert_index]
             THEN left_bound' = insert_index /\ UNCHANGED right_bound
             ELSE right_bound' = insert_index /\ UNCHANGED left_bound
          /\ insert_index' = Middle(left_bound', right_bound')
          /\ op' = IF insert_index' < right_bound' THEN "search" ELSE "insertion"
  /\ UNCHANGED <<cell, length, allocated_length, ret, element>>

Insertion ==
  /\ op = "insertion"
  /\ IF insert_index >= length
     THEN /\ allocated_length' = Grown(length)
          /\ cell' = [GrownCells(length) EXCEPT ![length] = element]
          /\ length' = length + 1
          /\ touched' = length
          /\ ret' = <<length>>
     ELSE MoveIn(insert_index, element) /\ ret' = <<insert_index>>
  /\ op' = "idle"
  /\ element' = Null /\ left_bound' = 0 /\ right_bound' = 0 /\ insert_index' = 0

Next ==
  \/ \E i \in 0 .. MaxLength, e \in Elem : Set(i, e) \/ Insert(i, e)
  \/ \E i \in -1 .. MaxLength : Remove(i)
  \/ \E i \in 0 .. MaxLength : Get(i)
  \/ \E e \in Elem : Find(e) \/ FindUnsorted(e) \/ BeginInsert(e)
  \/ Pop \/ Empty \/ Sort \/ Duplicate \/ ToChar
  \/ Search \/ Insertion

Spec == Init /\ [][Next]_vars

\* A call that searches goes on.
FairSpec == Spec /\ WF_vars(Search \/ Insertion)

-----------------------------------------------------------------------------
(***************************************************************************)
(* Properties                                                              *)
(***************************************************************************)
TypeOK ==
  /\ allocated_length \in Nat \ {0}
  /\ cell \in [0 .. allocated_length - 1 -> Value]
  /\ length \in 0 .. allocated_length
  /\ op \in {"idle", "search", "insertion"}
  /\ element \in Value
  /\ {left_bound, right_bound, insert_index} \subseteq Nat
  /\ touched \in Int

\* No cell is read or written after the end of the array, which grows in time:
\* the index asked for, or one more than the length, decides, and not both lead
\* to the same growth.
InBounds == touched < allocated_length

\* Seen from outside each call is one operation on a sequence; growing, moving
\* cells and searching do not show.
ListService == INSTANCE ListService WITH content <- Content
ImplementsService == ListService!Spec

\* Each turn of the search that is not the last brings its bounds (list.c:186-187)
\* nearer to each other: no element is compared with twice.
SearchNarrows ==
  [][(op = "search" /\ op' = "search")
       => right_bound' - left_bound' < right_bound - left_bound]_vars

\* The search for the place to insert at ends, whatever is compared with.
SearchEnds == op = "search" ~> op = "idle"
=============================================================================
