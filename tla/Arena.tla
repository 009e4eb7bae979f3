-------------------------------- MODULE Arena --------------------------------
(***************************************************************************)
(* ArenaLinkedList (src/collections/arena_linked_list.rs) as a value: a    *)
(* doubly linked list whose nodes live in a Vec and are named by their     *)
(* position in it.  The nodes that are not in use are chained through      *)
(* `after`, from `free` on.  An operation is an operator from the list to  *)
(* the list; indices into the Vec that are out of bounds are left to the   *)
(* guards of the modules that call it.                                     *)
(***************************************************************************)
EXTENDS Integers

CONSTANTS None   \* Option::None

NoIndex == -1    \* usize::MAX

FreshNode == [before |-> NoIndex, after |-> NoIndex, value |-> None]

\* Mutant of FillFree: the last node points past the end.
FillFreePastEnd(a, start, n) ==
  [a EXCEPT
     !.free = start,
     !.nodes = [i \in 0..(a.len - 1) |->
                  IF i \in start..(start + n - 1) THEN [a.nodes[i] EXCEPT !.after = i + 1]
                  ELSE a.nodes[i]]]

\* Chains the n nodes from start on into the free list, which they become.
FillFree(a, start, n) ==
  [a EXCEPT
     !.free = start,
     !.nodes = [i \in 0..(a.len - 1) |->
                  IF i \in start..(start + n - 1)
                  THEN [a.nodes[i] EXCEPT
                          !.after = IF i = start + n - 1 THEN NoIndex ELSE i + 1]
                  ELSE a.nodes[i]]]

\* clear: the values of the nodes stay where they are.
Cleared(a) ==
  [FillFree(a, 0, a.len) EXCEPT !.count = 0, !.first = NoIndex, !.last = NoIndex]

\* new_with_capacity takes the minimum of the capacity and 1.
NewArena ==
  Cleared([count |-> 0, first |-> NoIndex, last |-> NoIndex, free |-> 0, len |-> 1,
           nodes |-> [i \in 0..0 |-> FreshNode]])

\* The Vec doubles when every node is in use.
Grown(a) ==
  IF a.len # a.count THEN a
  ELSE FillFree(
         [a EXCEPT !.len = 2 * @,
                   !.nodes = [i \in 0..(2 * a.len - 1) |->
                                IF i < a.len THEN a.nodes[i] ELSE FreshNode]],
         a.count, a.len)

\* create_node: the index of the node that a new value gets, and the list
\* with the value in it, still without links.
NewIndex(a) == Grown(a).free

WithNode(a, v) ==
  LET g == Grown(a) IN
  [g EXCEPT !.count = @ + 1,
            !.free = g.nodes[g.free].after,
            !.nodes[g.free] = [FreshNode EXCEPT !.value = v]]

\* Only the node that is given is in the list.
Alone(a, n) == [a EXCEPT !.first = n, !.last = n]

\* The test comes after the node was taken.
IsValid(a, v, i) == i = NoIndex \/ WithNode(a, v).nodes[i].value # None

\* Mutant of AddBefore: the first node of the list remains the first.
AddBeforeKeepsFirst(a, v, i) ==
  LET n == NewIndex(a)
      b == WithNode(a, v)
      p == b.nodes[i].before
      linked == [b EXCEPT !.nodes[n].before = p, !.nodes[n].after = i]
      reached == IF p = NoIndex THEN linked ELSE [linked EXCEPT !.nodes[p].after = n]
  IN  IF i = NoIndex THEN Alone(b, n)
      ELSE IF ~IsValid(a, v, i) THEN b
      ELSE [reached EXCEPT !.nodes[i].before = n]

\* add_before.  Its test `count == 0` is never true: the node is counted.
AddBefore(a, v, i) ==
  LET n == NewIndex(a)
      b == WithNode(a, v)
      p == b.nodes[i].before
      linked == [b EXCEPT !.nodes[n].before = p, !.nodes[n].after = i,
                          !.first = IF @ = i THEN n ELSE @]
      reached == IF p = NoIndex THEN linked ELSE [linked EXCEPT !.nodes[p].after = n]
  IN  IF i = NoIndex THEN Alone(b, n)
      ELSE IF ~IsValid(a, v, i) THEN b
      ELSE [reached EXCEPT !.nodes[i].before = n]

\* Mutant of AddAfter: the node that followed keeps its back link.
AddAfterKeepsBackLink(a, v, i) ==
  LET n == NewIndex(a)
      b == WithNode(a, v)
      s == b.nodes[i].after
      linked == [b EXCEPT !.nodes[n].before = i, !.nodes[n].after = s,
                          !.last = IF @ = i THEN n ELSE @]
  IN  IF i = NoIndex THEN Alone(b, n)
      ELSE IF ~IsValid(a, v, i) THEN b
      ELSE [linked EXCEPT !.nodes[i].after = n]

\* add_after
AddAfter(a, v, i) ==
  LET n == NewIndex(a)
      b == WithNode(a, v)
      s == b.nodes[i].after
      linked == [b EXCEPT !.nodes[n].before = i, !.nodes[n].after = s,
                          !.last = IF @ = i THEN n ELSE @]
      reached == IF s = NoIndex THEN linked ELSE [linked EXCEPT !.nodes[s].before = n]
  IN  IF i = NoIndex THEN Alone(b, n)
      ELSE IF ~IsValid(a, v, i) THEN b
      ELSE [reached EXCEPT !.nodes[i].after = n]

\* Mutant of AddLast: the wrong end.
AddLastAfterFirst(a, v) == AddAfter(a, v, a.first)

AddFirst(a, v) == AddBefore(a, v, a.first)
AddLast(a, v)  == AddAfter(a, v, a.last)

\* The check of remove is off by one: the index next to the last passes it,
\* and the Vec is indexed past its end.
RemovePanics(a, i) == a.count # 0 /\ i = a.len

\* The cases in which remove answers Ok.
CanRemove(a, i) == a.count # 0 /\ i # NoIndex /\ i < a.len /\ a.nodes[i].value # None

\* remove: the node goes to the head of the free list, its neighbours are
\* linked to each other.
Remove(a, i) ==
  LET p == a.nodes[i].before
      s == a.nodes[i].after
      freed == [a EXCEPT !.nodes[i] = [FreshNode EXCEPT !.after = a.free], !.free = i,
                         !.count = @ - 1]
      bridged == IF p = NoIndex THEN [freed EXCEPT !.first = s]
                 ELSE [freed EXCEPT !.nodes[p].after = s]
  IN  IF s = NoIndex THEN [bridged EXCEPT !.last = p]
      ELSE [bridged EXCEPT !.nodes[s].before = p]
-----------------------------------------------------------------------------
(* What the fields mean.                                                   *)

\* iter: the indices in the list, in order; and those in the free list.
Order(a) ==
  LET at[k \in 1..a.count] == IF k = 1 THEN a.first ELSE a.nodes[at[k - 1]].after
  IN  at

FreeOrder(a) ==
  LET at[k \in 1..(a.len - a.count)] == IF k = 1 THEN a.free ELSE a.nodes[at[k - 1]].after
  IN  at

\* Each node is either in the list, with a value and the link back to the one
\* before it, or in the free list; both end where they should.  (A free node
\* may still have a value: clear leaves it.)
WellLinked(a) ==
  LET order == Order(a)
      free  == FreeOrder(a)
      n     == a.count
      Used  == {order[k] : k \in 1..n}
      Free  == {free[k] : k \in 1..(a.len - n)}
  IN  /\ Used \union Free = 0..(a.len - 1) /\ Used \intersect Free = {}
      /\ \A k \in 1..n : a.nodes[order[k]].before = IF k = 1 THEN NoIndex ELSE order[k - 1]
      /\ a.last = (IF n = 0 THEN NoIndex ELSE order[n])
      /\ a.first = NoIndex <=> n = 0
      /\ n > 0 => a.nodes[a.last].after = NoIndex
      /\ \A i \in Used : a.nodes[i].value # None
=============================================================================
