-------------------------------- MODULE BTreeSet --------------------------------
(***************************************************************************)
(* The stable BTreeSet (src/btreeset.rs): a BTreeMap with unit values, and *)
(* the operations on two sets, which go through the two in order at the    *)
(* same time.  They hold the next key of each set in hand, and advance one *)
(* iterator or both according to how these keys compare.                   *)
(*                                                                         *)
(* self is the set in nodes, with the iterator iter; other is any other    *)
(* set, of which SortedIter says what its iterator returns.  One turn of   *)
(* the loop of an operation is one step; union, intersection and           *)
(* symmetric_difference are iterators themselves, and end their loop where *)
(* they return a key.                                                      *)
(***************************************************************************)
EXTENDS BTreeIter

CONSTANTS
  Other,        \* bound: the sets tried as other
  SetSizes      \* bound: the lengths of self tried

VARIABLE
  pair          \* the operation on two sets under way, or None

setVars == <<allVars, pair>>

(* Mutant: the end is told by a key. *)
SmallestZero(rest) == IF rest = {} THEN 0 ELSE CHOOSE k \in rest : \A j \in rest : k =< j

(* The next key of the iterator over other, with rest left. *)
Smallest(rest) == IF rest = {} THEN None ELSE CHOOSE k \in rest : \A j \in rest : k =< j

(* An operation on two sets begins: the two iterators are made ... *)
Begin(op, other) ==
  /\ pair = None
  /\ length \in SetSizes
  /\ MakeIter(new_in_range(<<Unbounded, Unbounded>>), <<"iter">>)
  /\ pair' = [op |-> op, other |-> other, rest |-> other, begun |-> FALSE,
              next_self |-> None, next_other |-> None,
              yielded |-> <<>>, done |-> FALSE, answer |-> None]

Both == {"self", "other"}

(* The iterators of the sets in which advance; keys are yielded. *)
Advance(which, keys) ==
  /\ \E r \in {IF "self" \in which THEN next_map(iter) ELSE [iter |-> iter, item |-> None]} :
       /\ iter' = r.iter
       /\ item' = IF "self" \in which THEN <<"next", r.item>> ELSE item
       /\ pair' = [pair EXCEPT
            !.begun = TRUE,
            !.next_self = IF "self" \notin which THEN @
                          ELSE IF r.item = None THEN None ELSE r.item.key,
            !.next_other = IF "other" \in which THEN Smallest(pair.rest) ELSE @,
            !.rest = IF "other" \in which THEN @ \ {Smallest(@)} ELSE @,
            !.yielded = @ \o keys]
  /\ UNCHANGED vars

(* ... and asked for their first keys. *)
FirstKeys ==
  /\ pair # None
  /\ ~pair.begun
  /\ Advance(Both, <<>>)

(* The operation returns its answer or, if it is an iterator, None. *)
Answer(x) ==
  /\ pair' = [pair EXCEPT !.done = TRUE, !.answer = x]
  /\ UNCHANGED allVars

(* How the two keys in hand compare. *)
Less(a, b) == None \notin {a, b} /\ a < b
Equal(a, b) == a # None /\ a = b
-------------------------------------------------------------------------------
(* Mutant: of two equal keys only one is passed over. *)
unionTwice(a, b) ==
  \/ Less(a, b) /\ Advance({"self"}, <<a>>)
  \/ Less(b, a) /\ Advance({"other"}, <<b>>)
  \/ Equal(a, b) /\ Advance({"self"}, <<a>>)
  \/ a # None /\ b = None /\ Advance({"self"}, <<a>>)
  \/ a = None /\ b # None /\ Advance({"other"}, <<b>>)
  \/ a = None /\ b = None /\ Answer(None)

union(a, b) ==
  \/ Less(a, b) /\ Advance({"self"}, <<a>>)
  \/ Less(b, a) /\ Advance({"other"}, <<b>>)
  \/ Equal(a, b) /\ Advance(Both, <<a>>)
  \/ a # None /\ b = None /\ Advance({"self"}, <<a>>)
  \/ a = None /\ b # None /\ Advance({"other"}, <<b>>)
  \/ a = None /\ b = None /\ Answer(None)

intersection(a, b) ==
  \/ Less(a, b) /\ Advance({"self"}, <<>>)
  \/ Less(b, a) /\ Advance({"other"}, <<>>)
  \/ Equal(a, b) /\ Advance(Both, <<a>>)
  \/ None \in {a, b} /\ Answer(None)

symmetric_difference(a, b) ==
  \/ Less(a, b) /\ Advance({"self"}, <<a>>)
  \/ Less(b, a) /\ Advance({"other"}, <<b>>)
  \/ Equal(a, b) /\ Advance(Both, <<>>)
  \/ a # None /\ b = None /\ Advance({"self"}, <<a>>)
  \/ a = None /\ b # None /\ Advance({"other"}, <<b>>)
  \/ a = None /\ b = None /\ Answer(None)

is_disjoint(a, b) ==
  \/ Less(a, b) /\ Advance({"self"}, <<>>)
  \/ Less(b, a) /\ Advance({"other"}, <<>>)
  \/ Equal(a, b) /\ Answer(FALSE)
  \/ None \in {a, b} /\ Answer(TRUE)

(* Mutant: the answer is given where the other set ends. *)
is_subsetEarly(a, b, theirs) ==
  \/ Equal(a, b) /\ Advance(Both, <<>>)
  \/ Less(b, a) /\ Advance({theirs}, <<>>)
  \/ Less(a, b) /\ Answer(FALSE)
  \/ None \in {a, b} /\ Answer(TRUE)

(* a is the key in hand of the set asked, and b that of the other, theirs. *)
is_subset(a, b, theirs) ==
  \/ Equal(a, b) /\ Advance(Both, <<>>)
  \/ Less(b, a) /\ Advance({theirs}, <<>>)
  \/ Less(a, b) /\ Answer(FALSE)
  \/ a # None /\ b = None /\ Answer(FALSE)
  \/ a = None /\ Answer(TRUE)

(* One turn of the operation under way.  An iterator that has come to its  *)
(* end may be asked again.                                                 *)
Turn ==
  LET a == pair.next_self
      b == pair.next_other
  IN
  /\ pair # None
  /\ pair.begun
  /\ pair.answer = None
  /\ \/ pair.op = "union" /\ union(a, b)
     \/ pair.op = "intersection" /\ intersection(a, b)
     \/ pair.op = "symmetric_difference" /\ symmetric_difference(a, b)
     \/ pair.op = "is_disjoint" /\ is_disjoint(a, b)
     \/ pair.op = "is_subset" /\ is_subset(a, b, "other")
     \/ pair.op = "is_superset" /\ is_subset(b, a, "self")

(* The operation has returned, or its iterator is dropped. *)
Leave ==
  /\ pair # None
  /\ pair' = None
  /\ iter' = None
  /\ item' = Nothing
  /\ UNCHANGED vars

Yielding == {"union", "intersection", "symmetric_difference"}
Deciding == {"is_disjoint", "is_subset", "is_superset"}

SetInit == IterInit /\ pair = None

SetNext ==
  \/ pair = None /\ IterNext /\ UNCHANGED pair
  \/ \E op \in Yielding \cup Deciding, other \in Other : Begin(op, other)
  \/ FirstKeys
  \/ Turn
  \/ Leave

SetSpec == SetInit /\ [][SetNext]_setVars

-------------------------------------------------------------------------------
SetTypeOK ==
  /\ IterTypeOK
  /\ pair # None =>
       /\ iter # None
       /\ pair.other \in Other
       /\ {pair.next_self, pair.next_other} \subseteq Key \cup {None}
       /\ pair.rest \subseteq pair.other
       /\ pair.yielded \in Seq(Key)

(* What an operation is to yield. *)
Result(op, self, other) ==
  CASE op = "union" -> self \cup other
    [] op = "intersection" -> self \cap other
    [] op = "symmetric_difference" -> (self \ other) \cup (other \ self)
    [] op \in Deciding -> {}

(* At any moment union, intersection and symmetric_difference have yielded *)
(* exactly the keys of their result below the keys in hand, in order and   *)
(* each once, and all of them when they end: however the two sets overlap, *)
(* no key is lost or repeated where the two iterators meet or one of them  *)
(* runs out.                                                               *)
YieldedSoFar ==
  pair # None =>
    LET result == Result(pair.op, DOMAIN Contents, pair.other)
        inHand == {pair.next_self, pair.next_other} \ {None}
    IN
    /\ {pair.yielded[i] : i \in DOMAIN pair.yielded} =
         {k \in result : pair.done \/ (pair.begun /\ \A j \in inHand : k < j)}
    /\ \A i, j \in DOMAIN pair.yielded : i < j => pair.yielded[i] < pair.yielded[j]

(* is_disjoint, is_subset and is_superset answer right although they stop  *)
(* at the first key that settles the question.                             *)
Decided ==
  pair # None /\ pair.answer # None =>
    LET self == DOMAIN Contents IN
    CASE pair.op = "is_disjoint" -> pair.answer = (self \cap pair.other = {})
      [] pair.op = "is_subset" -> pair.answer = (self \subseteq pair.other)
      [] pair.op = "is_superset" -> pair.answer = (pair.other \subseteq self)

===============================================================================
