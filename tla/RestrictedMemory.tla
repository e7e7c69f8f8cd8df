---------------------------- MODULE RestrictedMemory ----------------------------
(***************************************************************************)
(* RestrictedMemory (src/lib.rs): views of one base memory, each limited   *)
(* to a range of its pages, and the writes that grow a memory on demand.   *)
(*                                                                         *)
(* A memory is a record: its size in pages, its units (what a field of a   *)
(* header or a byte of an encoding is here) up to the largest size it can  *)
(* have, of which those past its size are zero, and whether every call so  *)
(* far has succeeded.  A call that fails or panics leaves the memory as it *)
(* is with ok false, and so do the calls that would have come after it.    *)
(***************************************************************************)
EXTENDS Integers, Sequences

CONSTANTS
  PageSize,    \* WASM_PAGE_SIZE, in units
  MaxPages     \* bound: the base memory does not grow further

ASSUME PagesAssumption == PageSize \in Nat \ {0} /\ MaxPages \in Nat

Units == 0..(MaxPages * PageSize - 1)
Unit == Nat
Memory == [pages : 0..MaxPages, units : [Units -> Unit], ok : BOOLEAN]
PageRange == {r \in Nat \X Nat : r[1] =< r[2]}

EmptyMemory == [pages |-> 0, units |-> [i \in Units |-> 0], ok |-> TRUE]
Failed(m) == [m EXCEPT !.ok = FALSE]

Smaller(a, b) == IF a < b THEN a ELSE b

(* Mutant: the base memory has no limit. *)
BaseGrowFreely(m, delta) == [mem |-> [m EXCEPT !.pages = @ + delta], ret |-> m.pages]

(* The base memory. *)
BaseGrow(m, delta) ==
  IF m.pages + delta > MaxPages THEN [mem |-> m, ret |-> -1]
  ELSE [mem |-> [m EXCEPT !.pages = @ + delta], ret |-> m.pages]

size(m, r) ==
  IF m.pages < r[1] THEN 0
  ELSE IF m.pages > r[2] THEN r[2] - r[1]
  ELSE m.pages - r[1]

(* Mutant: the end of the range is not looked at. *)
growPastEnd(m, r, delta) ==
  IF m.pages < r[1] THEN BaseGrow(m, r[1] - m.pages + delta)
  ELSE BaseGrow(m, delta)

grow(m, r, delta) ==
  IF m.pages < r[1]
  THEN LET g == BaseGrow(m, r[1] - m.pages + delta)
       IN [g EXCEPT !.ret = Smaller(@, 0)]
  ELSE IF m.pages >= r[2]
  THEN [mem |-> m, ret |-> IF delta = 0 THEN r[2] - r[1] ELSE -1]
  ELSE IF r[2] - m.pages < delta THEN [mem |-> m, ret |-> -1]
  ELSE LET g == BaseGrow(m, delta)
       IN [g EXCEPT !.ret = IF @ < 0 THEN @ ELSE @ - r[1]]

(* Memory::write of the view: it panics past the end of the base memory. *)
write_in(m, r, offset, src) ==
  LET at == r[1] * PageSize + offset IN
  IF ~m.ok \/ at + Len(src) > m.pages * PageSize THEN Failed(m)
  ELSE [m EXCEPT !.units = [i \in Units |-> IF i \in at..(at + Len(src) - 1)
                                            THEN src[i - at + 1] ELSE @[i]]]

(* Memory::read of the view. *)
read(m, r, offset, n) == [i \in 1..n |-> m.units[r[1] * PageSize + offset + i - 1]]

(* The memory is grown if it has to be; not past what is needed. *)
safe_write(m, r, offset, bytes) ==
  LET last == offset + Len(bytes)
      diff == last - size(m, r) * PageSize
      g == grow(m, r, (diff + PageSize - 1) \div PageSize)
  IN IF ~m.ok THEN m
     ELSE IF diff =< 0 THEN write_in(m, r, offset, bytes)
     ELSE IF g.ret = -1 THEN Failed(m)
     ELSE write_in(g.mem, r, offset, bytes)

===============================================================================
