---------------------------- MODULE ListService ----------------------------
(* What list.h promises: a sequence of elements, addressed from 0, and what *)
(* each operation returns.                                                  *)
EXTENDS Integers, Sequences, FiniteSets

CONSTANTS
  Elem,  \* elements, ordered as the comparison of the caller does
  Null,
  Gap    \* how far after the end an element is set

VARIABLES
  content,
  ret       \* what was returned last, as a sequence

Value == Elem \union {Null}

listVars == <<content, ret>>

Init == content = <<>> /\ ret = <<Null>>

\* After the end the cells that come to exist hold anything.
Set(i, e) ==
  IF i < Len(content)
  THEN ret' = <<content[i + 1]>> /\ content' = [content EXCEPT ![i + 1] = e]
  ELSE /\ \E old \in Value : ret' = <<old>>
       /\ content' \in [1 .. i + 1 -> Value]
       /\ content'[i + 1] = e
       /\ \A n \in 1 .. Len(content) : content'[n] = content[n]

Pop ==
  IF content = <<>> THEN ret' = <<Null>> /\ UNCHANGED content
  ELSE /\ ret' = <<content[Len(content)]>>
       /\ content' = [n \in 1 .. Len(content) - 1 |-> content[n]]

\* e comes before what was at i, or at the end.
Inserted(i, e) ==
  [n \in 1 .. Len(content) + 1 |->
     IF n <= i THEN content[n] ELSE IF n = i + 1 THEN e ELSE content[n - 1]]

Insert(i, e) ==
  /\ content' = IF i < Len(content) THEN Inserted(i, e) ELSE content
  /\ UNCHANGED ret

\* Between which elements is not said.
InsertSomewhere(e) ==
  \E i \in 0 .. Len(content) : content' = Inserted(i, e) /\ ret' = <<i>>

Remove(i) ==
  IF i \notin 0 .. Len(content) - 1 THEN ret' = <<Null>> /\ UNCHANGED content
  ELSE /\ ret' = <<content[i + 1]>>
       /\ content' = [n \in 1 .. Len(content) - 1 |->
                        IF n <= i THEN content[n] ELSE content[n + 1]]

Empty == content' = <<>> /\ UNCHANGED ret

Get(i) ==
  /\ ret' = <<IF i < Len(content) THEN content[i + 1] ELSE Null>>
  /\ UNCHANGED content

Positions(e) == {i \in 0 .. Len(content) - 1 : content[i + 1] = e}

\* As many of each element, in order.
Sort ==
  /\ \A n \in 1 .. Len(content) : content[n] # Null
  /\ content' \in [1 .. Len(content) -> Elem]
  /\ \A m, n \in 1 .. Len(content) : m < n => content'[m] <= content'[n]
  /\ \A e \in Elem : Cardinality(Positions(e))' = Cardinality(Positions(e))
  /\ UNCHANGED ret

Find(e) ==
  /\ IF Positions(e) = {} THEN ret' = <<-1>>
     ELSE \E i \in Positions(e) : ret' = <<i>>
  /\ UNCHANGED content

ToChar == ret' = content /\ UNCHANGED content

\* All indices out of range amount to one.
Next ==
  \/ \E i \in 0 .. Len(content) + Gap, e \in Elem : Set(i, e)
  \/ \E i \in 0 .. Len(content), e \in Elem : Insert(i, e)
  \/ \E i \in -1 .. Len(content) - 1 : Remove(i)
  \/ \E i \in 0 .. Len(content) : Get(i)
  \/ \E e \in Elem : InsertSomewhere(e) \/ Find(e)
  \/ Pop \/ Empty \/ Sort \/ ToChar

Spec == Init /\ [][Next]_listVars
=============================================================================
