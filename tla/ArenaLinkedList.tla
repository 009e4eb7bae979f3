--------------------------- MODULE ArenaLinkedList ---------------------------
(***************************************************************************)
(* A list of src/collections/arena_linked_list.rs and its callers, who     *)
(* keep the handles that the add functions return.                         *)
(***************************************************************************)
EXTENDS Arena, Sequences, TLC

CONSTANTS
  Values,    \* what the list holds
  MaxNodes   \* bound: no more than this many values at a time

ASSUME ListAssumption == MaxNodes \in Nat \ {0} /\ None \notin Values

VARIABLES
  list,      \* the ArenaLinkedList
  handles,   \* the handles that callers hold of values in the list
  answer     \* the last call, with its arguments, and the index it answered

vars == <<list, handles, answer>>

Indices == 0..(2 * MaxNodes - 1)
Links   == Indices \union {NoIndex}
Answers == [op: {"new", "add_first", "add_last", "add_before", "add_after", "remove", "clear"},
            value: Values \union {None}, at: Links, handle: Links]

\* Every index that is stored somewhere is within the Vec.
TypeOK ==
  LET InUse == 0..(list.len - 1) IN
  /\ list.len \in 1..(2 * MaxNodes) /\ list.count \in 0..list.len
  /\ {list.first, list.last, list.free} \subseteq InUse \union {NoIndex}
  /\ list.nodes \in [InUse -> [before: InUse \union {NoIndex}, after: InUse \union {NoIndex},
                               value: Values \union {None}]]
  /\ handles \subseteq InUse
  /\ answer \in Answers

Answer(op, value, at, handle) == [op |-> op, value |-> value, at |-> at, handle |-> handle]

Init ==
  /\ list = NewArena
  /\ handles = {}
  /\ answer = Answer("new", None, NoIndex, NoIndex)

\* A call that takes a node for v.
Adds(op, v, at, a) ==
  /\ list.count < MaxNodes
  /\ list' = a
  /\ handles' = handles \union {NewIndex(list)}
  /\ answer' = Answer(op, v, at, NewIndex(list))

Add(v) ==
  \/ Adds("add_first", v, NoIndex, AddFirst(list, v))
  \/ Adds("add_last", v, NoIndex, AddLast(list, v))
  \/ \E i \in handles :
       \/ Adds("add_before", v, i, AddBefore(list, v, i))
       \/ Adds("add_after", v, i, AddAfter(list, v, i))

\* remove with a handle of the list, of a node removed before, or usize::MAX: by
\* TypeOK none of them is the index on which it panics.
RemoveOk(i) ==
  /\ CanRemove(list, i)
  /\ list' = Remove(list, i)
  /\ handles' = handles \ {i}
  /\ answer' = Answer("remove", None, i, i)

RemoveErr(i) ==
  /\ ~CanRemove(list, i) /\ ~RemovePanics(list, i)
  /\ answer' = Answer("remove", None, i, NoIndex)
  /\ UNCHANGED <<list, handles>>

\* clear leaves the values in their nodes: the handles die with it.
Clear ==
  /\ list' = Cleared(list)
  /\ handles' = {}
  /\ answer' = Answer("clear", None, NoIndex, NoIndex)

Removed == {i \in DOMAIN list.nodes : list.nodes[i].value = None}

Next ==
  \/ \E v \in Values : Add(v)
  \/ \E i \in handles \union Removed \union {NoIndex} : RemoveOk(i) \/ RemoveErr(i)
  \/ Clear

Spec == Init /\ [][Next]_vars

\* A caller that holds on to the handle of the node it has just removed.
StrayAdd(v, i) ==
  /\ list.count < MaxNodes
  /\ list' = AddBefore(list, v, i)
  /\ answer' = Answer("add_before", v, i, IF IsValid(list, v, i) THEN NewIndex(list) ELSE NoIndex)
  /\ UNCHANGED handles

StrayNext ==
  \/ \E v \in Values : answer.op = "remove" /\ answer.handle # NoIndex /\ StrayAdd(v, answer.handle)
  \/ Next

StraySpec == Init /\ [][StrayNext]_vars
-----------------------------------------------------------------------------
\* Through growth, reuse and clearing, links and free list divide the nodes
\* between them, and every link has its counterpart.
Linked == WellLinked(list)

\* The handles that callers hold are those of the list: no value is lost.
HandlesListed == handles = {Order(list)[k] : k \in 1..list.count}

\* The list is a sequence of values under distinct handles.
Sequence ==
  INSTANCE ListSpec WITH
    Handles <- Indices, NoHandle <- NoIndex, NoValue <- None,
    items <- [k \in 1..list.count |->
                <<Order(list)[k], list.nodes[Order(list)[k]].value>>]

IsASequence == Sequence!Spec

\* add_before turns down the handle of a node that was removed, with the
\* message "This index does not refer to a valid entry".
RemovedIsInvalid ==
  [][(answer'.op = "add_before" /\ answer'.at \notin handles /\ answer' # answer)
       => answer'.handle = NoIndex]_vars
=============================================================================
