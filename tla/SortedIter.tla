------------------------------- MODULE SortedIter -------------------------------
(***************************************************************************)
(* What an iterator over a stable BTreeMap promises: the entries that were *)
(* asked for, smallest first from the front and largest first from the     *)
(* back, in whatever order the two ends are asked, each of them once.      *)
(***************************************************************************)
EXTENDS Integers, FiniteSets

CONSTANTS
  Key, None,
  Start, End    \* the bounds asked for, as in BTreeIter

VARIABLES
  contents,    \* the map, a function from keys
  remaining,   \* the entries the iterator has yet to return
  item         \* the last request to an iterator, with its answer

vars == <<contents, remaining, item>>

Nothing == <<"none">>

AfterStart(b, k) ==
  \/ b[1] = "Unbounded"
  \/ b[1] = "Included" /\ k >= b[2]
  \/ b[1] = "Excluded" /\ k > b[2]
BeforeEnd(b, k) ==
  \/ b[1] = "Unbounded"
  \/ b[1] = "Included" /\ k =< b[2]
  \/ b[1] = "Excluded" /\ k < b[2]

Entries(keys) == {[key |-> k, value |-> contents[k]] : k \in keys}

Init == contents = <<>> /\ remaining = {} /\ item = Nothing

(* The map changes, or an iterator is dropped: no iterator is left. *)
NoIterator == remaining' = {} /\ item' = Nothing

Iter ==
  /\ item' = <<"iter">>
  /\ remaining' = Entries(DOMAIN contents)
  /\ UNCHANGED contents

Range(s, e) ==
  /\ item' = <<"range", s, e>>
  /\ remaining' = Entries({k \in DOMAIN contents : AfterStart(s, k) /\ BeforeEnd(e, k)})
  /\ UNCHANGED contents

(* From the largest key less than the bound; nothing if there is none. *)
IterFromPrevKey(bound) ==
  /\ item' = <<"iter_from_prev_key", bound>>
  /\ remaining' = Entries({k \in DOMAIN contents :
                             \E p \in DOMAIN contents :
                               /\ p < bound /\ p =< k
                               /\ \A q \in DOMAIN contents : q < bound => q =< p})
  /\ UNCHANGED contents

Next ==
  /\ \/ remaining = {} /\ item' = <<"next", None>> /\ UNCHANGED remaining
     \/ \E e \in remaining :
          /\ item' = <<"next", e>>
          /\ \A f \in remaining : e.key =< f.key
          /\ remaining' = remaining \ {e}
  /\ UNCHANGED contents

NextBack ==
  /\ \/ remaining = {} /\ item' = <<"next_back", None>> /\ UNCHANGED remaining
     \/ \E e \in remaining :
          /\ item' = <<"next_back", e>>
          /\ \A f \in remaining : f.key =< e.key
          /\ remaining' = remaining \ {e}
  /\ UNCHANGED contents

(* Counting uses the iterator up. *)
Count ==
  /\ item' = <<"count", Cardinality(remaining)>>
  /\ remaining' = {}
  /\ UNCHANGED contents

Step ==
  \/ NoIterator
  \/ Iter
  \/ \E s \in Start, e \in End : Range(s, e)
  \/ \E k \in Key : IterFromPrevKey(k)
  \/ Next
  \/ NextBack
  \/ Count

Spec == Init /\ [][Step]_vars

===============================================================================
