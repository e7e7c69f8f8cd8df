------------------------------ MODULE MCBTreeSet ------------------------------
EXTENDS BTreeSet, MCBTreeMap

CONSTANTS
  StartKey, EndKey,   \* the keys at which ranges start and end
  OtherKey            \* the keys of other sets

MCStart == {Unbounded} \cup {Included(k) : k \in StartKey} \cup {Excluded(k) : k \in StartKey}
MCEnd == {Unbounded} \cup {Included(k) : k \in EndKey} \cup {Excluded(k) : k \in EndKey}
MCOther == SUBSET OtherKey

(* A cursor up to the choice of addresses. *)
Place(c) ==
  IF c[1] = "Address" THEN <<c[1], Shape(c[2])>> ELSE <<c[1], nodes[c[2]].entries, c[3]>>

ViewOfIter ==
  IF iter = None THEN <<>>
  ELSE [iter EXCEPT !.forward_cursors = [i \in DOMAIN @ |-> Place(@[i])],
                    !.backward_cursors = [i \in DOMAIN @ |-> Place(@[i])]]

SetUpToAddresses == <<UpToAddresses, ViewOfIter, pair>>

===============================================================================
