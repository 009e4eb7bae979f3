------------------------------- MODULE ListSpec -------------------------------
(***************************************************************************)
(* What a list with handles promises: it is a sequence of values, each     *)
(* under a handle of its own, that grows at either end or next to an       *)
(* element, and loses the element whose handle is given.                   *)
(***************************************************************************)
EXTENDS Integers, Sequences, SequencesExt

CONSTANTS
  Handles,   \* the names of the elements
  Values,
  NoHandle,  \* what a call answers that has no handle to give
  NoValue

VARIABLES
  items,     \* the elements in order, <<handle, value>>
  answer     \* the last call, with its arguments, and the handle it answered

Answer(op, value, at, handle) == [op |-> op, value |-> value, at |-> at, handle |-> handle]

HandlesIn == {items[k][1] : k \in 1..Len(items)}

Init ==
  /\ items = <<>>
  /\ answer = Answer("new", NoValue, NoHandle, NoHandle)

\* A value enters at place k, under a handle that is not in use.
Enter(op, v, at, k) ==
  \E h \in Handles \ HandlesIn :
    /\ items' = InsertAt(items, k, <<h, v>>)
    /\ answer' = Answer(op, v, at, h)

Add(v) ==
  \/ Enter("add_first", v, NoHandle, 1)
  \/ Enter("add_last", v, NoHandle, Len(items) + 1)
  \/ \E k \in 1..Len(items) :
       \/ Enter("add_before", v, items[k][1], k)
       \/ Enter("add_after", v, items[k][1], k + 1)

Leave(h) ==
  /\ \E k \in 1..Len(items) : items[k][1] = h /\ items' = RemoveAt(items, k)
  /\ answer' = Answer("remove", NoValue, h, h)

\* A handle that is no longer in the list is turned down.
Refuse(h) ==
  /\ h \notin HandlesIn
  /\ answer' = Answer("remove", NoValue, h, NoHandle)
  /\ UNCHANGED items

Clear ==
  /\ items' = <<>>
  /\ answer' = Answer("clear", NoValue, NoHandle, NoHandle)

Next ==
  \/ \E v \in Values : Add(v)
  \/ \E h \in Handles \union {NoHandle} : Leave(h) \/ Refuse(h)
  \/ Clear

Spec == Init /\ [][Next]_<<items, answer>>
=============================================================================
