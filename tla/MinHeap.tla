--------------------------------- MODULE MinHeap ---------------------------------
(***************************************************************************)
(* The stable MinHeap (src/min_heap.rs): a binary heap in a BaseVec, in    *)
(* which an item moves up or down a slot at a time.                        *)
(***************************************************************************)
EXTENDS BaseVec

(* Item x, in slot i, moves up until its parent is not larger. *)
RECURSIVE bubble_up(_, _, _, _, _, _)
bubble_up(m, r, T, i, x, swapped) ==
  LET p == (i - 1) \div 2
      parent == get(m, r, T, p)
  IN IF i > 0 /\ x < parent THEN bubble_up(set(m, r, T, i, parent), r, T, p, x, TRUE)
     ELSE IF swapped THEN set(m, r, T, i, x)
     ELSE m

(* Mutant: the left child is taken as the smaller one. *)
SmallerChildLeft(m, r, T, i, n) == 2 * i + 1

(* The child of slot i with the smaller item, among the first n slots. *)
SmallerChild(m, r, T, i, n) ==
  LET l == 2 * i + 1 IN
  IF l + 1 >= n \/ get(m, r, T, l) < get(m, r, T, l + 1) THEN l ELSE l + 1

(* Item x, in slot i, moves down until no child is smaller. *)
RECURSIVE bubble_down(_, _, _, _, _, _, _)
bubble_down(m, r, T, i, n, x, swapped) ==
  LET c == SmallerChild(m, r, T, i, n)
      child == get(m, r, T, c)
  IN IF 2 * i + 1 < n /\ child < x
     THEN bubble_down(set(m, r, T, i, child), r, T, c, n, x, TRUE)
     ELSE IF swapped THEN set(m, r, T, i, x)
     ELSE m

heap_push(m, r, T, x) ==
  LET pushed == push(m, r, T, x)
  IN IF ~pushed.ok THEN pushed ELSE bubble_up(pushed, r, T, len(m, r), x, FALSE)

(* pop: the memory without the smallest item, which was in slot 0. *)
heap_pop(m, r, T) ==
  LET n == len(m, r)
      last == get(m, r, T, n - 1)
  IN IF n < 2 THEN pop(m, r)
     ELSE bubble_down(set(pop(m, r), r, T, 0, last), r, T, 0, n - 1, last, FALSE)

===============================================================================
