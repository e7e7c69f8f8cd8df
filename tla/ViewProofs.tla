------------------------------- MODULE ViewProofs -------------------------------
(***************************************************************************)
(* Theorems about RestrictedMemory, Cell and BaseVec, for memories, ranges *)
(* and pages of every size.  A memory m is of type Memory, a range r has   *)
(* been reached when its first page exists or is the next one to come.     *)
(***************************************************************************)
EXTENDS Cell, BaseVec, SequenceTheorems, TLAPS

(* The units of the pages of r. *)
UnitsOf(r) == r[1] * PageSize..(r[2] * PageSize - 1)

(* n is what m became: no smaller, and the same outside of r. *)
OnlyIn(r, m, n) ==
  /\ n \in Memory
  /\ m.pages =< n.pages
  /\ \A i \in Units : i \notin UnitsOf(r) => n.units[i] = m.units[i]

Reached(m, r) == r[1] =< m.pages

-------------------------------------------------------------------------------
(* Arithmetic the provers need to be told. *)

LEMMA MulNat == ASSUME NEW a \in Nat, NEW b \in Nat PROVE a * b \in Nat
  OBVIOUS

LEMMA MulMonotone ==
  ASSUME NEW a \in Nat, NEW b \in Nat, NEW p \in Nat, a =< b
  PROVE  a * p =< b * p
  OBVIOUS

LEMMA MulDiff ==
  ASSUME NEW a \in Nat, NEW b \in Nat, NEW p \in Nat, a =< b
  PROVE  a * p + (b - a) * p = b * p
  OBVIOUS

LEMMA MulSum ==
  ASSUME NEW a \in Nat, NEW b \in Nat, NEW p \in Nat
  PROVE  a * p + b * p = (a + b) * p
  OBVIOUS

LEMMA MulLess ==
  ASSUME NEW a \in Nat, NEW b \in Nat, NEW p \in Nat \ {0}, a * p < b * p + p
  PROVE  a =< b
  <1>1. SUFFICES ASSUME b + 1 =< a PROVE FALSE
    OBVIOUS
  <1>2. (b + 1) * p =< a * p
    BY <1>1, MulMonotone
  <1>3. (b + 1) * p = b * p + p
    BY MulSum
  <1>. QED BY <1>2, <1>3, MulNat

(* Rounding up to whole pages. *)
LEMMA CeilDiv ==
  ASSUME NEW a \in Nat, NEW p \in Nat \ {0}
  PROVE  LET q == (a + p - 1) \div p
         IN q \in Nat /\ a =< q * p /\ q * p < a + p
  OBVIOUS

-------------------------------------------------------------------------------
(* The memory operations. *)

LEMMA UnitsType ==
  ASSUME NEW m \in Memory
  PROVE  /\ m.pages \in Nat /\ m.pages =< MaxPages /\ m.ok \in BOOLEAN
         /\ m.units \in [Units -> Nat]
         /\ m.pages * PageSize \in Nat
         /\ m.pages * PageSize =< MaxPages * PageSize
  <1>1. m.pages \in Nat /\ m.pages =< MaxPages /\ m.ok \in BOOLEAN /\ m.units \in [Units -> Nat]
    BY PagesAssumption DEF Memory, Unit
  <1>. QED BY <1>1, PagesAssumption, MulNat, MulMonotone

LEMMA FailedOnlyIn ==
  ASSUME NEW m \in Memory, NEW r
  PROVE  OnlyIn(r, m, Failed(m)) /\ ~Failed(m).ok
  <1>1. /\ Failed(m) \in Memory
        /\ Failed(m).pages = m.pages /\ Failed(m).units = m.units /\ ~Failed(m).ok
    BY Zenon DEF Failed, Memory
  <1>. QED BY <1>1, UnitsType DEF OnlyIn

LEMMA OnlyInTransitive ==
  ASSUME NEW m \in Memory, NEW n, NEW o, NEW r, OnlyIn(r, m, n), OnlyIn(r, n, o)
  PROVE  OnlyIn(r, m, o)
  <1>1. m.pages \in Nat /\ n.pages \in Nat /\ o.pages \in Nat
    BY PagesAssumption DEF OnlyIn, Memory
  <1>. QED BY <1>1 DEF OnlyIn

LEMMA OnlyInReflexive ==
  ASSUME NEW m \in Memory, NEW r
  PROVE  OnlyIn(r, m, m)
  BY UnitsType DEF OnlyIn

(* What write_in does when it succeeds, and when it does. *)
LEMMA WriteIn ==
  ASSUME NEW m \in Memory, NEW r \in PageRange, NEW offset \in Nat, NEW src \in Seq(Unit)
  PROVE  LET n == write_in(m, r, offset, src)
             at == r[1] * PageSize + offset
         IN /\ n \in Memory
            /\ n.pages = m.pages
            /\ n.ok <=> m.ok /\ at + Len(src) =< m.pages * PageSize
            /\ \A i \in Units : n.units[i] =
                 IF n.ok /\ i \in at..(at + Len(src) - 1) THEN src[i - at + 1] ELSE m.units[i]
  <1> DEFINE at == r[1] * PageSize + offset
             n == write_in(m, r, offset, src)
             new == [i \in Units |-> IF i \in at..(at + Len(src) - 1)
                                     THEN src[i - at + 1] ELSE m.units[i]]
  <1>1. at \in Nat /\ Len(src) \in Nat
    BY PagesAssumption, MulNat DEF PageRange
  <1>2. new \in [Units -> Unit]
    <2>1. ASSUME NEW i \in Units, i \in at..(at + Len(src) - 1)
          PROVE  src[i - at + 1] \in Unit
      <3>1. i - at + 1 \in 1..Len(src)
        BY <2>1, <1>1, SMTT(30)
      <3>. QED BY <3>1
    <2>2. \A i \in Units : m.units[i] \in Unit
      BY DEF Memory
    <2>. QED BY <2>1, <2>2
  <1>3. m = [pages |-> m.pages, units |-> m.units, ok |-> m.ok] /\ m.ok \in BOOLEAN
    BY DEF Memory
  <1>4. CASE ~m.ok \/ at + Len(src) > m.pages * PageSize
    <2>1. n = Failed(m)
      BY <1>4 DEF write_in
    <2>2. n = [pages |-> m.pages, units |-> m.units, ok |-> FALSE]
      BY <2>1, <1>3, Zenon DEF Failed
    <2>3. ~(m.ok /\ at + Len(src) =< m.pages * PageSize)
      BY <1>4, <1>1, UnitsType
    <2>. HIDE DEF n, at
    <2>4. n \in Memory /\ n.pages = m.pages /\ ~n.ok /\ n.units = m.units
      BY <2>2 DEF Memory
    <2>. QED BY <2>4, <2>3 DEF n, at
  <1>5. CASE m.ok /\ at + Len(src) =< m.pages * PageSize
    <2>1. n = [m EXCEPT !.units = new]
      BY <1>5, <1>1, UnitsType DEF write_in
    <2>2. n = [pages |-> m.pages, units |-> new, ok |-> m.ok]
      BY <2>1, <1>3
    <2>. HIDE DEF n, at
    <2>3. n \in Memory /\ n.pages = m.pages /\ n.ok
      BY <2>2, <1>2, <1>5 DEF Memory
    <2>4. \A i \in Units : n.units[i] =
            IF n.ok /\ i \in at..(at + Len(src) - 1) THEN src[i - at + 1] ELSE m.units[i]
      BY <2>2, <2>3
    <2>. QED BY <2>3, <2>4, <1>5 DEF n, at
  <1>. QED BY <1>1, <1>4, <1>5, UnitsType

LEMMA WriteInType ==
  ASSUME NEW m \in Memory, NEW r \in PageRange, NEW offset \in Nat, NEW src \in Seq(Unit)
  PROVE  write_in(m, r, offset, src) \in Memory /\ write_in(m, r, offset, src).pages = m.pages
  BY WriteIn

LEMMA BaseGrows ==
  ASSUME NEW m \in Memory, NEW delta \in Nat
  PROVE  LET g == BaseGrow(m, delta)
         IN /\ g.mem \in Memory /\ g.mem.units = m.units /\ g.mem.ok = m.ok
            /\ m.pages + delta =< MaxPages => g.ret = m.pages /\ g.mem.pages = m.pages + delta
            /\ m.pages + delta > MaxPages => g.ret = -1 /\ g.mem = m
            /\ g = [mem |-> g.mem, ret |-> g.ret]
  <1>1. m = [pages |-> m.pages, units |-> m.units, ok |-> m.ok]
    BY DEF Memory
  <1>2. m.pages \in Nat /\ MaxPages \in Nat
    BY UnitsType, PagesAssumption
  <1>3. CASE m.pages + delta > MaxPages
    BY <1>2, <1>3 DEF BaseGrow
  <1>4. CASE m.pages + delta =< MaxPages
    <2>1. BaseGrow(m, delta) =
            [mem |-> [pages |-> m.pages + delta, units |-> m.units, ok |-> m.ok], ret |-> m.pages]
      BY <1>1, <1>2, <1>4 DEF BaseGrow
    <2>2. [pages |-> m.pages + delta, units |-> m.units, ok |-> m.ok] \in Memory
      BY <1>2, <1>4, SMTT(30) DEF Memory
    <2>. QED BY <2>1, <2>2, <1>2, <1>4
  <1>. QED BY <1>2, <1>3, <1>4

(* grow changes the number of pages only.  Once the range is reached, it   *)
(* succeeds up to the end of the range and does nothing beyond it; before, *)
(* the end of the range is not looked at.                                  *)
LEMMA Grows ==
  ASSUME NEW m \in Memory, NEW r \in PageRange, NEW delta \in Nat
  PROVE  LET g == grow(m, r, delta)
         IN /\ g.mem \in Memory /\ g.mem.units = m.units /\ g.mem.ok = m.ok
            /\ m.pages =< g.mem.pages
            /\ g.ret \in Int /\ (g.ret < 0 <=> g.ret = -1)
            /\ g.ret < 0 => g.mem = m
            /\ Reached(m, r) /\ delta > 0 /\ g.ret >= 0 => g.mem.pages =< r[2]
            /\ Reached(m, r) /\ m.pages + delta =< r[2] /\ r[2] =< MaxPages
                 => g.ret >= 0 /\ g.mem.pages = m.pages + delta
            /\ ~Reached(m, r) /\ r[1] + delta =< MaxPages
                 => g.ret >= 0 /\ g.mem.pages = r[1] + delta
            /\ ~Reached(m, r) /\ r[1] + delta > MaxPages => g.ret < 0
  <1>1. m.pages \in Nat /\ MaxPages \in Nat /\ r[1] \in Nat /\ r[2] \in Nat /\ r[1] =< r[2]
    BY UnitsType, PagesAssumption DEF PageRange
  <1>2. CASE m.pages < r[1]
    <2> DEFINE d == r[1] - m.pages + delta
               b == BaseGrow(m, d)
    <2>1. d \in Nat /\ m.pages + d = r[1] + delta
      BY <1>1, <1>2
    <2>2. grow(m, r, delta) = [b EXCEPT !.ret = Smaller(@, 0)]
      BY <1>2 DEF grow
    <2>. HIDE DEF d
    <2>3. /\ b.mem \in Memory /\ b.mem.units = m.units /\ b.mem.ok = m.ok
          /\ m.pages + d =< MaxPages => b.ret = m.pages /\ b.mem.pages = m.pages + d
          /\ m.pages + d > MaxPages => b.ret = -1 /\ b.mem = m
          /\ b = [mem |-> b.mem, ret |-> b.ret]
      BY <2>1, BaseGrows
    <2>. HIDE DEF b
    <2>4. grow(m, r, delta) = [mem |-> b.mem, ret |-> Smaller(b.ret, 0)]
      BY <2>2, <2>3
    <2>. QED BY <2>1, <2>3, <2>4, <1>1, <1>2 DEF Smaller, Reached
  <1>3. CASE ~(m.pages < r[1]) /\ (m.pages >= r[2] \/ r[2] - m.pages < delta)
    <2>1. /\ grow(m, r, delta).mem = m
          /\ grow(m, r, delta).ret = IF m.pages >= r[2] /\ delta = 0 THEN r[2] - r[1] ELSE -1
      BY <1>1, <1>3 DEF grow
    <2>. QED BY <2>1, <1>1, <1>3, UnitsType DEF Reached
  <1>4. CASE ~(m.pages < r[1]) /\ ~(m.pages >= r[2]) /\ ~(r[2] - m.pages < delta)
    <2> DEFINE b == BaseGrow(m, delta)
    <2>1. grow(m, r, delta) = [b EXCEPT !.ret = IF @ < 0 THEN @ ELSE @ - r[1]]
      BY <1>4 DEF grow
    <2>2. /\ b.mem \in Memory /\ b.mem.units = m.units /\ b.mem.ok = m.ok
          /\ m.pages + delta =< MaxPages => b.ret = m.pages /\ b.mem.pages = m.pages + delta
          /\ m.pages + delta > MaxPages => b.ret = -1 /\ b.mem = m
          /\ b = [mem |-> b.mem, ret |-> b.ret]
      BY BaseGrows
    <2>. HIDE DEF b
    <2>3. grow(m, r, delta) = [mem |-> b.mem, ret |-> IF b.ret < 0 THEN b.ret ELSE b.ret - r[1]]
      BY <2>1, <2>2
    <2>. QED BY <2>2, <2>3, <1>1, <1>4 DEF Reached
  <1>. QED BY <1>2, <1>3, <1>4

(* A write that succeeds and ends before the end of the range is in it. *)
LEMMA WriteInRange ==
  ASSUME NEW m \in Memory, NEW r \in PageRange, NEW offset \in Nat, NEW src \in Seq(Unit),
         LET n == write_in(m, r, offset, src)
         IN n.ok => r[1] * PageSize + offset + Len(src) =< r[2] * PageSize
  PROVE  OnlyIn(r, m, write_in(m, r, offset, src))
  <1> DEFINE n == write_in(m, r, offset, src)
             at == r[1] * PageSize + offset
  <1>1. at \in Nat /\ Len(src) \in Nat /\ r[1] * PageSize \in Nat /\ r[2] * PageSize \in Nat
    BY PagesAssumption, MulNat, SMTT(30) DEF PageRange
  <1>2. /\ n \in Memory
        /\ n.pages = m.pages
        /\ \A i \in Units : n.units[i] =
             IF n.ok /\ i \in at..(at + Len(src) - 1) THEN src[i - at + 1] ELSE m.units[i]
    BY WriteIn
  <1>3. n.ok => at + Len(src) =< r[2] * PageSize
    OBVIOUS
  <1>4. m.pages =< n.pages
    BY <1>2, UnitsType
  <1>. HIDE DEF n
  <1>5. ASSUME NEW i \in Units, i \notin UnitsOf(r)
        PROVE  n.units[i] = m.units[i]
    <2>1. ~(n.ok /\ i \in at..(at + Len(src) - 1))
      <3>1. i \in Int
        BY DEF Units
      <3>. QED BY <3>1, <1>1, <1>3, <1>5, SMTT(30) DEF UnitsOf
    <2>. QED BY <2>1, <1>2
  <1>. QED BY <1>2, <1>4, <1>5 DEF OnlyIn, n

LEMMA SizeInRange ==
  ASSUME NEW m \in Memory, NEW r \in PageRange
  PROVE  /\ size(m, r) \in Nat
         /\ size(m, r) =< r[2] - r[1]
         /\ size(m, r) * PageSize \in Nat
         /\ r[1] * PageSize + size(m, r) * PageSize =< r[2] * PageSize
         /\ Reached(m, r) => r[1] * PageSize + size(m, r) * PageSize =< m.pages * PageSize
         /\ Reached(m, r) /\ m.pages =< r[2] => size(m, r) = m.pages - r[1]
         /\ ~Reached(m, r) => size(m, r) = 0
  <1>1. m.pages \in Nat /\ r[1] \in Nat /\ r[2] \in Nat /\ r[1] =< r[2] /\ PageSize \in Nat
    BY UnitsType, PagesAssumption DEF PageRange
  <1>2. /\ size(m, r) \in Nat /\ size(m, r) =< r[2] - r[1]
        /\ Reached(m, r) => r[1] + size(m, r) =< m.pages
        /\ Reached(m, r) /\ m.pages =< r[2] => size(m, r) = m.pages - r[1]
        /\ ~Reached(m, r) => size(m, r) = 0
    BY <1>1 DEF size, Reached
  <1>3. /\ size(m, r) * PageSize \in Nat
        /\ r[1] * PageSize + size(m, r) * PageSize = (r[1] + size(m, r)) * PageSize
    BY <1>1, <1>2, MulSum, MulNat
  <1>4. (r[1] + size(m, r)) * PageSize =< r[2] * PageSize
    <2>1. r[1] + size(m, r) \in Nat /\ r[1] + size(m, r) =< r[2]
      BY <1>1, <1>2
    <2>. QED BY <2>1, <1>1, MulMonotone
  <1>5. Reached(m, r) => (r[1] + size(m, r)) * PageSize =< m.pages * PageSize
    BY <1>1, <1>2, MulMonotone
  <1>. QED BY <1>2, <1>3, <1>4, <1>5

Fits(r, last) == last =< (r[2] - r[1]) * PageSize

LEMMA FitsInRange ==
  ASSUME NEW r \in PageRange, NEW last \in Nat, Fits(r, last)
  PROVE  r[1] * PageSize + last =< r[2] * PageSize
  BY MulDiff, MulNat, PagesAssumption DEF Fits, PageRange

(* safe_write through a view changes nothing outside the range of the      *)
(* view, neither when it fails nor when it grows the memory: if the range  *)
(* was reached before, whatever is written, and otherwise if what is       *)
(* written fits in the range.                                              *)
THEOREM SafeWriteStaysInRange ==
  ASSUME NEW m \in Memory, NEW r \in PageRange, NEW offset \in Nat, NEW bytes \in Seq(Unit),
         Reached(m, r) \/ Fits(r, offset + Len(bytes))
  PROVE  OnlyIn(r, m, safe_write(m, r, offset, bytes))
  <1> DEFINE last == offset + Len(bytes)
             diff == last - size(m, r) * PageSize
             delta == (diff + PageSize - 1) \div PageSize
             g == grow(m, r, delta)
             n == safe_write(m, r, offset, bytes)
  <1>1. /\ last \in Nat /\ size(m, r) * PageSize \in Nat /\ diff \in Int
        /\ r[1] * PageSize \in Nat /\ r[2] * PageSize \in Nat
        /\ PageSize \in Nat \ {0}
    <2>1. r[1] \in Nat /\ r[2] \in Nat /\ PageSize \in Nat \ {0}
      BY PagesAssumption DEF PageRange
    <2>2. last \in Nat
      OBVIOUS
    <2>3. size(m, r) * PageSize \in Nat
      BY SizeInRange
    <2>4. r[1] * PageSize \in Nat /\ r[2] * PageSize \in Nat
      BY <2>1, MulNat
    <2>. HIDE DEF last
    <2>. QED BY <2>1, <2>2, <2>3, <2>4
  <1>2. Fits(r, last) => r[1] * PageSize + last =< r[2] * PageSize
    <2>. HIDE DEF last
    <2>. QED BY <1>1, FitsInRange
  <1>3. CASE ~m.ok
    BY <1>3, OnlyInReflexive DEF safe_write
  <1>4. CASE m.ok /\ diff =< 0
    <2>1. n = write_in(m, r, offset, bytes)
      BY <1>4 DEF safe_write
    <2>2. r[1] * PageSize + offset + Len(bytes) =< r[2] * PageSize
      <3>1. r[1] * PageSize + size(m, r) * PageSize =< r[2] * PageSize
        BY SizeInRange
      <3>. QED BY <3>1, <1>1, <1>4, SMTT(30)
    <2>. QED BY <2>1, <2>2, WriteInRange
  <1>5. CASE m.ok /\ diff > 0
    <2>1. delta \in Nat /\ delta > 0
      <3>1. diff \in Nat
        BY <1>1, <1>5
      <3>2. delta \in Nat /\ diff =< delta * PageSize
        BY <3>1, <1>1, CeilDiv, Zenon
      <3>. HIDE DEF delta, diff
      <3>3. delta # 0
        BY <3>1, <3>2, <1>1, <1>5
      <3>. QED BY <3>2, <3>3
    <2>. HIDE DEF delta
    <2>2. /\ g.mem \in Memory /\ g.mem.units = m.units /\ m.pages =< g.mem.pages
          /\ g.ret \in Int /\ (g.ret < 0 <=> g.ret = -1)
          /\ Reached(m, r) /\ g.ret >= 0 => g.mem.pages =< r[2]
      BY <2>1, Grows
    <2>. HIDE DEF g
    <2>3. CASE g.ret = -1
      <3>1. n = Failed(m)
        BY <1>1, <1>5, <2>3 DEF safe_write, g, delta
      <3>. QED BY <3>1, FailedOnlyIn
    <2>4. CASE g.ret # -1
      <3>1. n = write_in(g.mem, r, offset, bytes)
        BY <1>1, <1>5, <2>4 DEF safe_write, g, delta
      <3>2. ASSUME n.ok, Reached(m, r)
            PROVE  r[1] * PageSize + offset + Len(bytes) =< r[2] * PageSize
        <4>1. r[1] * PageSize + offset + Len(bytes) =< g.mem.pages * PageSize
          BY <3>1, <3>2, <2>2, WriteIn, SMTT(30)
        <4>2. g.mem.pages =< r[2]
          BY <2>2, <2>4, <3>2
        <4>3. g.mem.pages * PageSize =< r[2] * PageSize /\ g.mem.pages * PageSize \in Nat
          BY <4>2, <2>2, <1>1, UnitsType, MulMonotone, Zenon DEF PageRange
        <4>. QED BY <4>1, <4>3, <1>1, SMTT(30)
      <3>3. n.ok => r[1] * PageSize + offset + Len(bytes) =< r[2] * PageSize
        BY <3>2, <1>1, <1>2
      <3>4. OnlyIn(r, g.mem, n)
        BY <3>1, <3>3, <2>2, WriteInRange
      <3>5. OnlyIn(r, m, g.mem)
        BY <2>2 DEF OnlyIn
      <3>. QED BY <3>4, <3>5, OnlyInTransitive
    <2>. QED BY <2>3, <2>4
  <1>. QED BY <1>1, <1>3, <1>4, <1>5

(* What was written is read back, and what is elsewhere stays. *)
LEMMA WriteInReads ==
  ASSUME NEW m \in Memory, NEW r \in PageRange, NEW offset \in Nat, NEW src \in Seq(Unit),
         write_in(m, r, offset, src).ok
  PROVE  read(write_in(m, r, offset, src), r, offset, Len(src)) = src
  <1> DEFINE n == write_in(m, r, offset, src)
             at == r[1] * PageSize + offset
  <1>1. at \in Nat /\ Len(src) \in Nat
    BY PagesAssumption, MulNat DEF PageRange
  <1>2. /\ at + Len(src) =< m.pages * PageSize
        /\ \A i \in Units : n.units[i] =
             IF i \in at..(at + Len(src) - 1) THEN src[i - at + 1] ELSE m.units[i]
    BY WriteIn, SMTT(30)
  <1>3. m.pages * PageSize \in Nat /\ m.pages * PageSize =< MaxPages * PageSize
        /\ MaxPages * PageSize \in Nat
    BY UnitsType, MulNat, PagesAssumption
  <1>. HIDE DEF n, at
  <1>4. ASSUME NEW i \in 1..Len(src)
        PROVE  n.units[at + i - 1] = src[i]
    <2>1. at + i - 1 \in Units /\ at + i - 1 \in at..(at + Len(src) - 1)
      BY <1>1, <1>2, <1>3, SMTT(30) DEF Units
    <2>4. \A j \in Units : j \in at..(at + Len(src) - 1) => n.units[j] = src[j - at + 1]
      BY <1>2
    <2>2. PICK j \in Units : j = at + i - 1
      BY <2>1
    <2>3. n.units[j] = src[j - at + 1] /\ j - at + 1 = i
      BY <2>1, <2>2, <2>4, <1>1
    <2>. QED BY <2>2, <2>3
  <1>5. read(n, r, offset, Len(src)) = [i \in 1..Len(src) |-> n.units[at + i - 1]]
    BY DEF read, at
  <1>6. src = [i \in 1..Len(src) |-> src[i]]
    OBVIOUS
  <1>7. [i \in 1..Len(src) |-> n.units[at + i - 1]] = [i \in 1..Len(src) |-> src[i]]
    BY <1>4
  <1>. QED BY <1>5, <1>6, <1>7 DEF n

LEMMA WriteInKeeps ==
  ASSUME NEW m \in Memory, NEW r \in PageRange, NEW offset \in Nat, NEW src \in Seq(Unit),
         NEW from \in Nat, NEW k \in Nat,
         from + k =< offset \/ offset + Len(src) =< from,
         r[1] * PageSize + from + k =< MaxPages * PageSize
  PROVE  read(write_in(m, r, offset, src), r, from, k) = read(m, r, from, k)
  <1> DEFINE n == write_in(m, r, offset, src)
             start == r[1] * PageSize
             at == start + offset
  <1>1. start \in Nat /\ at \in Nat /\ Len(src) \in Nat /\ MaxPages * PageSize \in Nat
    BY PagesAssumption, MulNat DEF PageRange
  <1>2. \A i \in Units : n.units[i] =
          IF n.ok /\ i \in at..(at + Len(src) - 1) THEN src[i - at + 1] ELSE m.units[i]
    BY WriteIn, SMTT(30)
  <1>0. start + from + k =< MaxPages * PageSize
    OBVIOUS
  <1>. HIDE DEF n, start
  <1>3. ASSUME NEW i \in 1..k
        PROVE  n.units[start + from + i - 1] = m.units[start + from + i - 1]
    <2>1. start + from + i - 1 \in Units
      BY <1>1, <1>0 DEF Units
    <2>2. start + from + i - 1 \notin at..(at + Len(src) - 1)
      BY <1>1
    <2>3. n.units[start + from + i - 1] = m.units[start + from + i - 1]
      BY <2>1, <2>2, <1>2, SMTT(30)
    <2>. QED BY <2>3
  <1>. QED BY <1>3 DEF read, n, start

(* Where something that ends at last fits in the range, the memory has     *)
(* room for it, or is given room by the growth that the code asks for.     *)
LEMMA RoomFor ==
  ASSUME NEW m \in Memory, NEW r \in PageRange, r[2] =< MaxPages,
         NEW last \in Nat, last > 0, Fits(r, last)
  PROVE  LET diff == last - size(m, r) * PageSize
             g == grow(m, r, (diff + PageSize - 1) \div PageSize)
             start == r[1] * PageSize
         IN /\ diff \in Int
            /\ diff =< 0 => start + last =< m.pages * PageSize
            /\ diff > 0 => /\ g.ret >= 0 /\ g.ret \in Int
                           /\ g.mem \in Memory /\ g.mem.ok = m.ok
                           /\ start + last =< g.mem.pages * PageSize
                           /\ g.mem.pages * PageSize < start + last + PageSize
  <1> DEFINE sz == size(m, r)
             diff == last - sz * PageSize
             delta == (diff + PageSize - 1) \div PageSize
             g == grow(m, r, delta)
  <1>1. r[1] \in Nat /\ r[2] \in Nat /\ r[1] =< r[2] /\ PageSize \in Nat \ {0} /\ m.pages \in Nat
    BY PagesAssumption, UnitsType DEF PageRange
  <1>2. /\ sz \in Nat
        /\ Reached(m, r) /\ m.pages =< r[2] => sz = m.pages - r[1]
        /\ Reached(m, r) /\ m.pages > r[2] => sz = r[2] - r[1]
        /\ ~Reached(m, r) => sz = 0
    BY <1>1 DEF size, Reached
  <1>3. /\ sz * PageSize \in Nat /\ r[1] * PageSize \in Nat
        /\ (r[2] - r[1]) * PageSize \in Nat
        /\ last =< (r[2] - r[1]) * PageSize
        /\ Reached(m, r) => r[1] * PageSize + sz * PageSize =< m.pages * PageSize
        /\ ~Reached(m, r) => sz * PageSize = 0
    <2>1. r[2] - r[1] \in Nat
      BY <1>1
    <2>2. /\ sz * PageSize \in Nat
          /\ Reached(m, r) => r[1] * PageSize + sz * PageSize =< m.pages * PageSize
      BY SizeInRange
    <2>3. r[1] * PageSize \in Nat /\ (r[2] - r[1]) * PageSize \in Nat
      BY <2>1, <1>1, MulNat
    <2>4. last =< (r[2] - r[1]) * PageSize
      BY DEF Fits
    <2>5. ~Reached(m, r) => sz * PageSize = 0
      BY <1>1, <1>2
    <2>. QED BY <2>2, <2>3, <2>4, <2>5
  <1>. HIDE DEF sz
  <1>4. diff \in Int
    BY <1>3
  <1>5. ASSUME diff =< 0
        PROVE  r[1] * PageSize + last =< m.pages * PageSize
    <2>1. Reached(m, r)
      BY <1>3, <1>5
    <2>. QED BY <2>1, <1>3, <1>5, UnitsType
  <1>6. ASSUME diff > 0
        PROVE  /\ g.ret >= 0 /\ g.ret \in Int
               /\ g.mem \in Memory /\ g.mem.ok = m.ok
               /\ r[1] * PageSize + last =< g.mem.pages * PageSize
               /\ g.mem.pages * PageSize < r[1] * PageSize + last + PageSize
    <2>1. /\ delta \in Nat /\ delta * PageSize \in Nat
          /\ diff =< delta * PageSize /\ delta * PageSize < diff + PageSize
      <3>1. diff \in Nat
        BY <1>3, <1>6
      <3>. HIDE DEF diff
      <3>. QED BY <3>1, <1>1, CeilDiv, MulNat, Zenon
    <2>. HIDE DEF delta
    <2>2. delta \in Nat /\ delta # 0
      BY <2>1, <1>1, <1>3, <1>6
    <2>3. (sz + delta) * PageSize = sz * PageSize + delta * PageSize
      BY <1>1, <1>2, <2>2, MulSum
    <2>4. sz + delta =< r[2] - r[1]
      <3>1. (sz + delta) * PageSize < (r[2] - r[1]) * PageSize + PageSize
        BY <2>1, <2>3, <1>1, <1>3
      <3>2. sz + delta \in Nat /\ r[2] - r[1] \in Nat
        BY <1>1, <1>2, <2>2
      <3>. QED BY <3>1, <3>2, <1>1, MulLess
    <2>5. Reached(m, r) => m.pages =< r[2]
      BY <2>2, <2>4, <1>1, <1>2, SMTT(30)
    <2>6. /\ g.ret >= 0 /\ g.ret \in Int /\ g.mem \in Memory /\ g.mem.ok = m.ok
          /\ g.mem.pages = r[1] + (sz + delta)
      <3>1. CASE Reached(m, r)
        <4>1. sz = m.pages - r[1]
          BY <3>1, <2>5, <1>2
        <4>2. m.pages + delta =< r[2] /\ m.pages + delta = r[1] + (sz + delta)
          BY <4>1, <2>2, <2>4, <1>1, SMTT(30)
        <4>. QED BY <3>1, <4>2, <2>2, Grows
      <3>2. CASE ~Reached(m, r)
        <4>1. r[1] + delta =< MaxPages /\ r[1] + delta = r[1] + (sz + delta)
          BY <3>2, <2>2, <2>4, <1>1, <1>2, PagesAssumption
        <4>. QED BY <3>2, <4>1, <2>2, <1>1, Grows
      <3>. QED BY <3>1, <3>2, SMTT(30)
    <2>. HIDE DEF g
    <2>7. g.mem.pages * PageSize = r[1] * PageSize + sz * PageSize + delta * PageSize
      <3>1. (r[1] + (sz + delta)) * PageSize = r[1] * PageSize + (sz + delta) * PageSize
        <4>1. sz + delta \in Nat
          BY <1>2, <2>2
        <4>. QED BY <4>1, <1>1, MulSum
      <3>. QED BY <3>1, <2>1, <2>3, <2>6, <1>3
    <2>8. /\ r[1] * PageSize + last =< g.mem.pages * PageSize
          /\ g.mem.pages * PageSize < r[1] * PageSize + last + PageSize
      <3> DEFINE A == r[1] * PageSize
                 S == sz * PageSize
                 D == delta * PageSize
                 G == g.mem.pages * PageSize
      <3>1. A \in Nat /\ S \in Nat /\ D \in Nat /\ PageSize \in Nat
        BY <1>1, <1>3, <2>1
      <3>2. G = A + S + D /\ last - S =< D /\ D < last - S + PageSize
        BY <2>1, <2>7
      <3>. HIDE DEF A, S, D, G
      <3>3. A + last =< G /\ G < A + last + PageSize
        BY <3>1, <3>2, SMTT(30)
      <3>. QED BY <3>3 DEF A, G
    <2>. QED BY <2>6, <2>8
  <1>. QED BY <1>4, <1>5, <1>6 DEF sz

(* A write that fits in the range succeeds, is read back, and grows the    *)
(* memory by no more pages than it needs.                                  *)
THEOREM SafeWriteSucceeds ==
  ASSUME NEW m \in Memory, m.ok, NEW r \in PageRange, r[2] =< MaxPages,
         NEW offset \in Nat, NEW bytes \in Seq(Unit), offset + Len(bytes) > 0,
         Fits(r, offset + Len(bytes))
  PROVE  LET n == safe_write(m, r, offset, bytes)
         IN /\ n \in Memory /\ n.ok
            /\ read(n, r, offset, Len(bytes)) = bytes
            /\ \/ n.pages = m.pages
               \/ n.pages * PageSize < r[1] * PageSize + (offset + Len(bytes)) + PageSize
  <1> DEFINE last == offset + Len(bytes)
             diff == last - size(m, r) * PageSize
             g == grow(m, r, (diff + PageSize - 1) \div PageSize)
             start == r[1] * PageSize
             n == safe_write(m, r, offset, bytes)
  <1>1. last \in Nat /\ last > 0 /\ Len(bytes) \in Nat /\ start \in Nat
    <2>1. Len(bytes) \in Nat
      OBVIOUS
    <2>2. start \in Nat
      BY PagesAssumption, MulNat, SMTT(30) DEF PageRange
    <2>. QED BY <2>1, <2>2
  <1>2. Fits(r, last)
    OBVIOUS
  <1>. HIDE DEF last
  <1>3. /\ diff \in Int
        /\ diff =< 0 => start + last =< m.pages * PageSize
        /\ diff > 0 => /\ g.ret >= 0 /\ g.ret \in Int
                       /\ g.mem \in Memory /\ g.mem.ok = m.ok
                       /\ start + last =< g.mem.pages * PageSize
                       /\ g.mem.pages * PageSize < start + last + PageSize
    BY <1>1, <1>2, RoomFor, Zenon
  <1>4. start + last = start + offset + Len(bytes)
    BY <1>1 DEF last
  <1>. HIDE DEF diff, g, start
  <1>5. CASE diff =< 0
    <2>1. n = write_in(m, r, offset, bytes)
      BY <1>5 DEF safe_write, last, diff
    <2>. HIDE DEF n
    <2>2. n \in Memory /\ n.pages = m.pages
      BY <2>1, WriteInType
    <2>3. n.ok
      <3>1. start + offset + Len(bytes) =< m.pages * PageSize
        BY <1>3, <1>4, <1>5
      <3>2. n.ok <=> m.ok /\ r[1] * PageSize + offset + Len(bytes) =< m.pages * PageSize
        BY <2>1, WriteIn, Zenon
      <3>. QED BY <3>1, <3>2 DEF start
    <2>4. read(n, r, offset, Len(bytes)) = bytes
      BY <2>1, <2>3, WriteInReads, SMTT(30)
    <2>. QED BY <2>2, <2>3, <2>4 DEF n
  <1>6. CASE diff > 0
    <2>1. n = write_in(g.mem, r, offset, bytes)
      <3>1. ~(diff =< 0) /\ ~(g.ret = -1)
        BY <1>3, <1>6
      <3>. QED BY <3>1, Zenon DEF safe_write, last, diff, g
    <2>. HIDE DEF n
    <2>2. n \in Memory /\ n.ok /\ n.pages = g.mem.pages
      <3>1. g.mem \in Memory /\ g.mem.ok
        BY <1>3, <1>6, Zenon
      <3>2. n.ok <=> g.mem.ok /\ r[1] * PageSize + offset + Len(bytes) =< g.mem.pages * PageSize
        BY <2>1, <3>1, WriteIn, Zenon
      <3>3. n \in Memory /\ n.pages = g.mem.pages
        BY <2>1, <3>1, WriteInType, SMTT(30)
      <3>4. start + offset + Len(bytes) =< g.mem.pages * PageSize
        BY <1>3, <1>4, <1>6
      <3>. QED BY <2>1, <3>1, <3>2, <3>3, <3>4 DEF start
    <2>3. read(n, r, offset, Len(bytes)) = bytes
      BY <2>1, <2>2, <1>3, <1>6, WriteInReads
    <2>. QED BY <2>2, <2>3, <1>3, <1>6, SMTT(30) DEF n, last, start
  <1>. QED BY <1>3, <1>5, <1>6

-------------------------------------------------------------------------------
(* The Cell. *)

(* A write to a memory that ends in the range, or that fits in the range. *)
LEMMA WriteInBelow ==
  ASSUME NEW m \in Memory, NEW r \in PageRange, NEW offset \in Nat, NEW src \in Seq(Unit),
         m.pages =< r[2] \/ Fits(r, offset + Len(src))
  PROVE  /\ OnlyIn(r, m, write_in(m, r, offset, src))
         /\ write_in(m, r, offset, src) \in Memory
         /\ write_in(m, r, offset, src).pages = m.pages
  <1> DEFINE n == write_in(m, r, offset, src)
  <1>1. /\ n \in Memory /\ n.pages = m.pages
        /\ n.ok => r[1] * PageSize + offset + Len(src) =< m.pages * PageSize
    BY WriteIn
  <1>2. /\ r[1] * PageSize \in Nat /\ r[2] * PageSize \in Nat /\ m.pages * PageSize \in Nat
        /\ Len(src) \in Nat
        /\ m.pages =< r[2] => m.pages * PageSize =< r[2] * PageSize
    BY PagesAssumption, UnitsType, MulNat, MulMonotone, SMTT(30) DEF PageRange
  <1>3. Fits(r, offset + Len(src)) => r[1] * PageSize + (offset + Len(src)) =< r[2] * PageSize
    BY <1>2, FitsInRange
  <1>. HIDE DEF n
  <1>4. n.ok => r[1] * PageSize + offset + Len(src) =< r[2] * PageSize
    BY <1>1, <1>2, <1>3
  <1>. QED BY <1>1, <1>4, WriteInRange, SMTT(30) DEF n

Flushed(m, r, bytes) ==
  write_in(write_in(write_in(write_in(m, r, 0, <<SCL>>), r, 1, <<LAYOUT_VERSION>>),
                    r, 2, <<Len(bytes)>>), r, CELL_HEADER, bytes)

LEMMA UnitSeqs ==
  ASSUME NEW k \in Nat
  PROVE  <<k>> \in Seq(Unit) /\ Len(<<k>>) = 1 /\ <<k>>[1] = k
  BY DEF Unit

LEMMA FlushedOnlyIn ==
  ASSUME NEW m \in Memory, NEW r \in PageRange, NEW bytes \in Seq(Unit),
         m.pages =< r[2] \/ Fits(r, CELL_HEADER + Len(bytes))
  PROVE  OnlyIn(r, m, Flushed(m, r, bytes))
  <1> DEFINE a == write_in(m, r, 0, <<SCL>>)
             b == write_in(a, r, 1, <<LAYOUT_VERSION>>)
             c == write_in(b, r, 2, <<Len(bytes)>>)
             d == write_in(c, r, CELL_HEADER, bytes)
  <1>1. Len(bytes) \in Nat /\ SCL \in Nat /\ LAYOUT_VERSION \in Nat /\ CELL_HEADER \in Nat
    BY DEF SCL, LAYOUT_VERSION, CELL_HEADER
  <1>2. ASSUME NEW n \in Memory, n.pages = m.pages, NEW k \in {0, 1, 2}, NEW x \in Nat
        PROVE  /\ OnlyIn(r, n, write_in(n, r, k, <<x>>))
               /\ write_in(n, r, k, <<x>>) \in Memory
               /\ write_in(n, r, k, <<x>>).pages = m.pages
    <2>1. n.pages =< r[2] \/ Fits(r, k + 1)
      BY <1>1, <1>2, PagesAssumption, MulNat DEF Fits, CELL_HEADER, PageRange
    <2>2. <<x>> \in Seq(Unit) /\ Len(<<x>>) = 1 /\ k \in Nat
      BY UnitSeqs
    <2>. QED BY <2>1, <2>2, <1>2, WriteInBelow, ZenonT(30)
  <1>3. OnlyIn(r, m, a) /\ a \in Memory /\ a.pages = m.pages
    BY <1>1, <1>2
  <1>. HIDE DEF a
  <1>4. OnlyIn(r, a, b) /\ b \in Memory /\ b.pages = m.pages
    BY <1>1, <1>2, <1>3
  <1>. HIDE DEF b
  <1>5. OnlyIn(r, b, c) /\ c \in Memory /\ c.pages = m.pages
    BY <1>1, <1>2, <1>4
  <1>. HIDE DEF c
  <1>6. OnlyIn(r, c, d)
    BY <1>1, <1>5, WriteInBelow
  <1>. HIDE DEF d
  <1>7. OnlyIn(r, m, d)
    BY <1>3, <1>4, <1>5, <1>6, OnlyInTransitive, SMTT(30)
  <1>. QED BY <1>7 DEF Flushed, a, b, c, d

(* flush_value grows the memory as safe_write does, to the end of the value. *)
LEMMA FlushValue ==
  ASSUME NEW m \in Memory, NEW r \in PageRange, NEW v \in CellValue
  PROVE  LET bytes == CellBytes[v]
             last == CELL_HEADER + Len(bytes)
             diff == last - size(m, r) * PageSize
             g == grow(m, r, (diff + PageSize - 1) \div PageSize)
         IN /\ bytes \in Seq(Unit) /\ last \in Nat /\ last > 0 /\ diff \in Int
            /\ diff =< 0 => flush_value(m, r, v) = Flushed(m, r, bytes)
            /\ diff > 0 /\ g.ret < 0 => flush_value(m, r, v) = Failed(m)
            /\ diff > 0 /\ ~(g.ret < 0) => flush_value(m, r, v) = Flushed(g.mem, r, bytes)
  <1> DEFINE bytes == CellBytes[v]
             last == CELL_HEADER + Len(bytes)
             pages == size(m, r)
             diff == last - pages * PageSize
             g == grow(m, r, (diff + PageSize - 1) \div PageSize)
             more == Len(bytes) + CELL_HEADER > pages * PageSize \/ pages = 0
  <1>1. bytes \in Seq(Unit) /\ Len(bytes) \in Nat
    BY CellAssumption
  <1>2. pages \in Nat /\ pages * PageSize \in Nat /\ PageSize \in Nat
    BY SizeInRange, PagesAssumption
  <1>. HIDE DEF bytes, pages
  <1>3. last \in Nat /\ last > 0 /\ diff \in Int
    BY <1>1, <1>2 DEF CELL_HEADER
  <1>4. Len(bytes) + CELL_HEADER + PageSize - pages * PageSize - 1 = diff + PageSize - 1
    BY <1>1, <1>2 DEF CELL_HEADER
  <1>5. more <=> diff > 0
    <2>1. pages = 0 => pages * PageSize = 0
      BY <1>2, SMTT(30)
    <2>. QED BY <2>1, <1>1, <1>2 DEF CELL_HEADER
  <1>6. flush_value(m, r, v) =
          IF more /\ g.ret < 0 THEN Failed(m) ELSE Flushed(IF more THEN g.mem ELSE m, r, bytes)
    BY <1>4 DEF flush_value, Flushed, bytes, pages
  <1>. HIDE DEF more, g, diff
  <1>7. /\ diff =< 0 => flush_value(m, r, v) = Flushed(m, r, bytes)
        /\ diff > 0 /\ g.ret < 0 => flush_value(m, r, v) = Failed(m)
        /\ diff > 0 /\ ~(g.ret < 0) => flush_value(m, r, v) = Flushed(g.mem, r, bytes)
    BY <1>3, <1>5, <1>6, SMTT(30)
  <1>. QED BY <1>1, <1>3, <1>7 DEF bytes, pages, diff, g

(* A Cell changes nothing outside its range: whatever the value is, once   *)
(* the memory reaches the range, and before that if the value fits.  (A    *)
(* first value that does not fit is the exception: see NarrowLayout.)      *)
THEOREM CellStaysInRange ==
  ASSUME NEW m \in Memory, NEW r \in PageRange, NEW v \in CellValue,
         Reached(m, r) \/ Fits(r, CELL_HEADER + Len(CellBytes[v]))
  PROVE  OnlyIn(r, m, flush_value(m, r, v))
  <1> DEFINE bytes == CellBytes[v]
             last == CELL_HEADER + Len(bytes)
             diff == last - size(m, r) * PageSize
             delta == (diff + PageSize - 1) \div PageSize
             g == grow(m, r, delta)
  <1>1. /\ bytes \in Seq(Unit) /\ last \in Nat /\ last > 0 /\ diff \in Int
        /\ diff =< 0 => flush_value(m, r, v) = Flushed(m, r, bytes)
        /\ diff > 0 /\ g.ret < 0 => flush_value(m, r, v) = Failed(m)
        /\ diff > 0 /\ ~(g.ret < 0) => flush_value(m, r, v) = Flushed(g.mem, r, bytes)
    BY FlushValue
  <1>2. Reached(m, r) \/ Fits(r, last)
    BY SMTT(30)
  <1>3. CASE diff =< 0
    <2>1. Fits(r, last)
      <3>1. size(m, r) \in Nat /\ size(m, r) =< r[2] - r[1] /\ r[2] - r[1] \in Nat
            /\ size(m, r) * PageSize \in Nat /\ PageSize \in Nat
        BY SizeInRange, PagesAssumption, SMTT(30) DEF PageRange
      <3>2. size(m, r) * PageSize =< (r[2] - r[1]) * PageSize /\ (r[2] - r[1]) * PageSize \in Nat
        BY <3>1, MulMonotone, MulNat
      <3>. HIDE DEF last
      <3>. QED BY <3>1, <3>2, <1>1, <1>3 DEF Fits
    <2>. QED BY <2>1, <1>1, <1>3, FlushedOnlyIn
  <1>4. CASE diff > 0
    <2>1. delta \in Nat /\ delta > 0
      <3>1. diff \in Nat /\ PageSize \in Nat \ {0}
        BY <1>1, <1>4, PagesAssumption
      <3>2. delta \in Nat /\ diff =< delta * PageSize
        BY <3>1, CeilDiv, ZenonT(30)
      <3>. HIDE DEF delta, diff
      <3>. QED BY <3>1, <3>2, <1>4, SMTT(30)
    <2>. HIDE DEF delta
    <2>2. /\ g.mem \in Memory /\ g.mem.units = m.units /\ m.pages =< g.mem.pages
          /\ Reached(m, r) /\ ~(g.ret < 0) => g.mem.pages =< r[2]
      <3>1. /\ g.mem \in Memory /\ g.mem.units = m.units /\ m.pages =< g.mem.pages
            /\ g.ret \in Int /\ (Reached(m, r) /\ g.ret >= 0 => g.mem.pages =< r[2])
        BY <2>1, Grows
      <3>. QED BY <3>1, SMTT(30)
    <2>. HIDE DEF g
    <2>3. CASE g.ret < 0
      <3>1. flush_value(m, r, v) = Failed(m)
        BY <1>1, <1>4, <2>3, SMTT(30) DEF g, delta
      <3>. QED BY <3>1, FailedOnlyIn, SMTT(30)
    <2>4. CASE ~(g.ret < 0)
      <3>1. flush_value(m, r, v) = Flushed(g.mem, r, bytes)
        BY <1>1, <1>4, <2>4, SMTT(30) DEF g, delta
      <3>2. OnlyIn(r, g.mem, Flushed(g.mem, r, bytes))
        BY <1>1, <1>2, <2>2, <2>4, FlushedOnlyIn, SMTT(30)
      <3>3. OnlyIn(r, m, g.mem)
        BY <2>2 DEF OnlyIn
      <3>. QED BY <3>1, <3>2, <3>3, OnlyInTransitive, SMTT(30)
    <2>. QED BY <2>3, <2>4
  <1>. QED BY <1>1, <1>3, <1>4, SMTT(30)

(* One write among others: it succeeds, is read back, and what has been    *)
(* read elsewhere is read again.                                           *)
LEMMA OneWrite ==
  ASSUME NEW m \in Memory, m.ok, NEW r \in PageRange, NEW offset \in Nat, NEW src \in Seq(Unit),
         r[1] * PageSize + offset + Len(src) =< m.pages * PageSize
  PROVE  LET n == write_in(m, r, offset, src)
         IN /\ n \in Memory /\ n.ok /\ n.pages = m.pages
            /\ read(n, r, offset, Len(src)) = src
            /\ \A from, k \in Nat : from + k =< offset => read(n, r, from, k) = read(m, r, from, k)
  <1> DEFINE n == write_in(m, r, offset, src)
  <1>1. n \in Memory /\ n.ok /\ n.pages = m.pages
    BY WriteIn, SMTT(30)
  <1>2. read(n, r, offset, Len(src)) = src
    BY <1>1, WriteInReads
  <1>3. ASSUME NEW from \in Nat, NEW k \in Nat, from + k =< offset
        PROVE  read(n, r, from, k) = read(m, r, from, k)
    <2>1. r[1] * PageSize \in Nat /\ m.pages * PageSize \in Nat /\ MaxPages * PageSize \in Nat
          /\ m.pages * PageSize =< MaxPages * PageSize /\ Len(src) \in Nat
      BY PagesAssumption, UnitsType, MulNat, SMTT(30) DEF PageRange
    <2>2. r[1] * PageSize + from + k =< MaxPages * PageSize
      BY <2>1, <1>3, SMTT(30)
    <2>. QED BY <2>2, <1>3, WriteInKeeps
  <1>. QED BY <1>1, <1>2, <1>3, SMTT(30)

LEMMA FlushedReads ==
  ASSUME NEW m \in Memory, m.ok, NEW r \in PageRange, NEW bytes \in Seq(Unit),
         r[1] * PageSize + (CELL_HEADER + Len(bytes)) =< m.pages * PageSize
  PROVE  LET d == Flushed(m, r, bytes)
         IN /\ d \in Memory /\ d.ok /\ d.pages = m.pages
            /\ read(d, r, 0, 1) = <<SCL>>
            /\ read(d, r, 1, 1) = <<LAYOUT_VERSION>>
            /\ read(d, r, 2, 1) = <<Len(bytes)>>
            /\ read(d, r, CELL_HEADER, Len(bytes)) = bytes
  <1> DEFINE a == write_in(m, r, 0, <<SCL>>)
             b == write_in(a, r, 1, <<LAYOUT_VERSION>>)
             c == write_in(b, r, 2, <<Len(bytes)>>)
             d == write_in(c, r, 3, bytes)
  <1>1. Len(bytes) \in Nat /\ SCL \in Nat /\ LAYOUT_VERSION \in Nat /\ CELL_HEADER = 3
    BY DEF SCL, LAYOUT_VERSION, CELL_HEADER
  <1>2. r[1] * PageSize \in Nat /\ m.pages * PageSize \in Nat
    BY PagesAssumption, UnitsType, MulNat, SMTT(30) DEF PageRange
  <1>3. ASSUME NEW n \in Memory, n.ok, n.pages = m.pages, NEW k \in 0..2, NEW x \in Nat
        PROVE  LET o == write_in(n, r, k, <<x>>)
               IN /\ o \in Memory /\ o.ok /\ o.pages = m.pages
                  /\ read(o, r, k, 1) = <<x>>
                  /\ \A j \in 0..2 : j < k => read(o, r, j, 1) = read(n, r, j, 1)
    <2>1. PICK src \in Seq(Unit) : src = <<x>> /\ Len(src) = 1
      BY UnitSeqs, ZenonT(30)
    <2>2. r[1] * PageSize + k + Len(src) =< n.pages * PageSize /\ k \in Nat
      BY <2>1, <1>1, <1>2, <1>3, SMTT(30)
    <2> DEFINE o == write_in(n, r, k, src)
    <2>3. /\ o \in Memory /\ o.ok /\ o.pages = n.pages
          /\ read(o, r, k, Len(src)) = src
          /\ \A from, l \in Nat : from + l =< k => read(o, r, from, l) = read(n, r, from, l)
      BY <2>2, <1>3, OneWrite
    <2>. HIDE DEF o
    <2>4. \A j \in 0..2 : j < k => read(o, r, j, 1) = read(n, r, j, 1)
      BY <2>2, <2>3
    <2>. QED BY <2>1, <2>3, <2>4, <1>3 DEF o
  <1>4. a \in Memory /\ a.ok /\ a.pages = m.pages /\ read(a, r, 0, 1) = <<SCL>>
    BY <1>1, <1>3, SMTT(30)
  <1>. HIDE DEF a
  <1>5. /\ b \in Memory /\ b.ok /\ b.pages = m.pages
        /\ read(b, r, 1, 1) = <<LAYOUT_VERSION>> /\ read(b, r, 0, 1) = <<SCL>>
    BY <1>1, <1>3, <1>4, SMTT(30)
  <1>. HIDE DEF b
  <1>6. /\ c \in Memory /\ c.ok /\ c.pages = m.pages
        /\ read(c, r, 2, 1) = <<Len(bytes)>>
        /\ read(c, r, 1, 1) = <<LAYOUT_VERSION>> /\ read(c, r, 0, 1) = <<SCL>>
    BY <1>1, <1>3, <1>5
  <1>. HIDE DEF c
  <1>7. /\ d \in Memory /\ d.ok /\ d.pages = c.pages
        /\ read(d, r, 3, Len(bytes)) = bytes
        /\ \A from, k \in Nat : from + k =< 3 => read(d, r, from, k) = read(c, r, from, k)
    <2>1. r[1] * PageSize + 3 + Len(bytes) =< c.pages * PageSize
      BY <1>1, <1>2, <1>6, SMTT(30)
    <2>. QED BY <2>1, <1>6, OneWrite
  <1>. HIDE DEF d
  <1>8. d = Flushed(m, r, bytes)
    BY <1>1 DEF Flushed, a, b, c, d
  <1>9. \A j \in {0, 1, 2} : read(d, r, j, 1) = read(c, r, j, 1)
    BY <1>7
  <1>. QED BY <1>1, <1>6, <1>7, <1>8, <1>9

(* A value that fits in the range of its Cell is stored, whatever was in   *)
(* the range before, and the Cell that is initialized from that memory,    *)
(* with whatever default, has this value.                                  *)
THEOREM CellReadsBack ==
  ASSUME NEW m \in Memory, m.ok, NEW r \in PageRange, r[2] =< MaxPages, NEW v \in CellValue,
         Fits(r, CELL_HEADER + Len(CellBytes[v])), NEW default
  PROVE  LET n == flush_value(m, r, v)
         IN n.ok /\ cell_init(n, r, default) = [mem |-> n, value |-> v]
  <1> DEFINE bytes == CellBytes[v]
             last == CELL_HEADER + Len(bytes)
             diff == last - size(m, r) * PageSize
             g == grow(m, r, (diff + PageSize - 1) \div PageSize)
             n == flush_value(m, r, v)
  <1>1. /\ bytes \in Seq(Unit) /\ last \in Nat /\ last > 0 /\ diff \in Int
        /\ diff =< 0 => n = Flushed(m, r, bytes)
        /\ diff > 0 /\ ~(g.ret < 0) => n = Flushed(g.mem, r, bytes)
    BY FlushValue
  <1>2. Fits(r, last)
    BY SMTT(30)
  <1>. HIDE DEF last, bytes
  <1>3. /\ diff =< 0 => r[1] * PageSize + last =< m.pages * PageSize
        /\ diff > 0 => /\ g.ret >= 0 /\ g.ret \in Int
                       /\ g.mem \in Memory /\ g.mem.ok = m.ok
                       /\ r[1] * PageSize + last =< g.mem.pages * PageSize
    BY <1>1, <1>2, RoomFor, ZenonT(30)
  <1>. HIDE DEF diff, g, n
  <1>4. PICK o \in Memory : o.ok /\ r[1] * PageSize + last =< o.pages * PageSize
                                /\ n = Flushed(o, r, bytes)
    <2>1. CASE diff =< 0
      BY <2>1, <1>1, <1>3
    <2>2. CASE diff > 0
      <3>1. ~(g.ret < 0)
        BY <2>2, <1>3, SMTT(30)
      <3>. QED BY <2>2, <3>1, <1>1, <1>3, ZenonT(30)
    <2>3. diff =< 0 \/ diff > 0
      <3>1. diff \in Int
        BY <1>1, Zenon
      <3>. QED BY <3>1
    <2>. QED BY <2>1, <2>2, <2>3, Zenon
  <1>5. /\ n \in Memory /\ n.ok /\ n.pages = o.pages
        /\ read(n, r, 0, 1) = <<SCL>>
        /\ read(n, r, 1, 1) = <<LAYOUT_VERSION>>
        /\ read(n, r, 2, 1) = <<Len(bytes)>>
        /\ read(n, r, CELL_HEADER, Len(bytes)) = bytes
    BY <1>1, <1>4, FlushedReads DEF last
  <1>6. size(n, r) > 0
    <2>1. r[1] \in Nat /\ r[2] \in Nat /\ r[1] =< r[2] /\ PageSize \in Nat /\ n.pages \in Nat
      BY <1>5, UnitsType, PagesAssumption, SMTT(30) DEF PageRange
    <2>2. r[1] < n.pages
      <3>1. SUFFICES ASSUME n.pages =< r[1] PROVE FALSE
        BY <2>1
      <3>2. n.pages * PageSize =< r[1] * PageSize /\ n.pages * PageSize \in Nat /\ r[1] * PageSize \in Nat
        BY <3>1, <2>1, MulMonotone, MulNat
      <3>. QED BY <3>2, <1>1, <1>4, <1>5
    <2>3. r[1] < r[2]
      <3>1. r[1] = r[2] => (r[2] - r[1]) * PageSize = 0
        BY <2>1
      <3>. QED BY <3>1, <2>1, <1>1, <1>2 DEF Fits
    <2>. QED BY <2>1, <2>2, <2>3, SMTT(30) DEF size
  <1>7. read_value(n, r) = v
    <2>1. read(n, r, CELL_HEADER, read(n, r, 2, 1)[1]) = CellBytes[v]
      BY <1>5 DEF bytes
    <2>2. \A w \in CellValue : CellBytes[w] = CellBytes[v] => w = v
      BY CellAssumption
    <2>3. (CHOOSE w \in CellValue : CellBytes[w] = CellBytes[v]) = v
      BY <2>2
    <2>. QED BY <2>1, <2>3 DEF read_value
  <1>8. HasCell(n, r)
    BY <1>5, <1>6 DEF HasCell
  <1>9. \A d : cell_init(n, r, d) = [mem |-> n, value |-> read_value(n, r)]
    BY <1>5, <1>8, Zenon DEF cell_init
  <1>. QED BY <1>5, <1>7, <1>8, <1>9, Zenon DEF n

-------------------------------------------------------------------------------
(* BaseVec. *)

LEMMA SafeWriteForm ==
  ASSUME NEW m \in Memory, NEW r \in PageRange, NEW offset \in Nat, NEW bytes \in Seq(Unit)
  PROVE  LET n == safe_write(m, r, offset, bytes)
         IN \E o \in Memory : o.units = m.units /\ (n = o \/ n = write_in(o, r, offset, bytes))
  <1> DEFINE last == offset + Len(bytes)
             diff == last - size(m, r) * PageSize
             delta == (diff + PageSize - 1) \div PageSize
             g == grow(m, r, delta)
             n == safe_write(m, r, offset, bytes)
  <1>1. diff \in Int
    <2>1. last \in Nat /\ size(m, r) * PageSize \in Nat
      BY SizeInRange
    <2>. HIDE DEF last
    <2>. QED BY <2>1
  <1>2. CASE ~m.ok
    BY <1>2 DEF safe_write
  <1>3. CASE m.ok /\ diff =< 0
    <2>1. n = write_in(m, r, offset, bytes)
      BY <1>3 DEF safe_write
    <2>. QED BY <2>1
  <1>4. CASE m.ok /\ diff > 0
    <2>1. delta \in Nat
      <3>1. diff \in Nat /\ PageSize \in Nat \ {0}
        BY <1>1, <1>4, PagesAssumption, SMTT(30)
      <3>. HIDE DEF diff
      <3>. QED BY <3>1, CeilDiv, Zenon
    <2>. HIDE DEF delta
    <2>2. g.mem \in Memory /\ g.mem.units = m.units
      BY <2>1, Grows
    <2>. HIDE DEF g
    <2>3. CASE g.ret = -1
      <3>1. n = Failed(m)
        BY <1>1, <1>4, <2>3 DEF safe_write, g, delta
      <3>2. Failed(m).units = m.units /\ Failed(m) \in Memory
        BY ZenonT(30) DEF Failed, Memory
      <3>. QED BY <3>1, <3>2, SMTT(30)
    <2>4. CASE g.ret # -1
      <3>1. n = write_in(g.mem, r, offset, bytes)
        BY <1>1, <1>4, <2>4 DEF safe_write, g, delta
      <3>. QED BY <3>1, <2>2, SMTT(30)
    <2>. QED BY <2>3, <2>4
  <1>. QED BY <1>1, <1>2, <1>3, <1>4

(* A write leaves what is read elsewhere, whether it succeeds or not. *)
LEMMA SafeWriteKeeps ==
  ASSUME NEW m \in Memory, NEW r \in PageRange, NEW offset \in Nat, NEW bytes \in Seq(Unit),
         NEW from \in Nat, NEW k \in Nat,
         from + k =< offset \/ offset + Len(bytes) =< from,
         r[1] * PageSize + from + k =< MaxPages * PageSize
  PROVE  read(safe_write(m, r, offset, bytes), r, from, k) = read(m, r, from, k)
  <1> DEFINE n == safe_write(m, r, offset, bytes)
  <1>1. PICK o \in Memory : o.units = m.units /\ (n = o \/ n = write_in(o, r, offset, bytes))
    BY SafeWriteForm
  <1>. HIDE DEF n
  <1>2. read(o, r, from, k) = read(m, r, from, k)
    BY <1>1 DEF read
  <1>3. read(write_in(o, r, offset, bytes), r, from, k) = read(o, r, from, k)
    BY WriteInKeeps
  <1>. QED BY <1>1, <1>2, <1>3 DEF n

(* The slots follow each other. *)
LEMMA Slots ==
  ASSUME NEW T \in Type
  PROVE  /\ slot_size(T) \in Nat /\ T.max_size \in Nat /\ Flag(T) \in {0, 1}
         /\ slot_size(T) = T.max_size + (1 - Flag(T))
         /\ T.is_fixed_size <=> Flag(T) = 1
         /\ \A i \in Nat : /\ Offset(T, i) \in Nat /\ DATA_OFFSET =< Offset(T, i)
                           /\ Offset(T, i + 1) = Offset(T, i) + slot_size(T)
                           /\ DataOffset(T, i) = Offset(T, i) + (1 - Flag(T))
         /\ \A i, j \in Nat : i =< j => Offset(T, i) =< Offset(T, j)
  <1>1. T.max_size \in Nat /\ T.is_fixed_size \in BOOLEAN
    BY TypeAssumption
  <1>2. Flag(T) \in {0, 1} /\ (T.is_fixed_size <=> Flag(T) = 1)
    BY <1>1 DEF Flag
  <1>3. slot_size(T) = T.max_size + (1 - Flag(T)) /\ slot_size(T) \in Nat
    BY <1>1, <1>2 DEF slot_size
  <1> DEFINE z == slot_size(T)
  <1>. HIDE DEF z
  <1>4. \A i \in Nat : z * i \in Nat /\ z * (i + 1) = z * i + z
    BY <1>3 DEF z
  <1>5. \A i, j \in Nat : i =< j => z * i =< z * j
    BY <1>3 DEF z
  <1>6. \A i \in Nat : Offset(T, i) = 5 + z * i
    BY DEF Offset, DATA_OFFSET, z
  <1>7. \A i \in Nat : /\ Offset(T, i) \in Nat /\ DATA_OFFSET =< Offset(T, i)
                       /\ Offset(T, i + 1) = Offset(T, i) + z
    <2>1. z \in Nat
      BY <1>3 DEF z
    <2>. QED BY <2>1, <1>4, <1>6, SMTT(30) DEF DATA_OFFSET
  <1>8. \A i, j \in Nat : i =< j => Offset(T, i) =< Offset(T, j)
    BY <1>4, <1>5, <1>6
  <1>. QED BY <1>1, <1>2, <1>3, <1>7, <1>8 DEF DataOffset, z

LEMMA ItemBytes ==
  ASSUME NEW T \in Type, NEW x \in Item
  PROVE  /\ T.bytes[x] \in Seq(Unit) /\ Len(T.bytes[x]) \in Nat
         /\ Len(T.bytes[x]) =< T.max_size
         /\ T.is_fixed_size => Len(T.bytes[x]) = T.max_size
         /\ from_bytes(T, T.bytes[x]) = x
  <1>1. /\ T.bytes[x] \in Seq(Unit) /\ Len(T.bytes[x]) =< T.max_size
        /\ T.is_fixed_size => Len(T.bytes[x]) = T.max_size
        /\ \A y \in Item : T.bytes[y] = T.bytes[x] => y = x
    BY TypeAssumption
  <1>2. (CHOOSE y \in Item : T.bytes[y] = T.bytes[x]) = x
    BY <1>1
  <1>. QED BY <1>1, <1>2 DEF from_bytes

LEMMA FitsBelow ==
  ASSUME NEW r \in PageRange, NEW a \in Nat, NEW b \in Nat, a =< b, Fits(r, b)
  PROVE  Fits(r, a)
  <1>1. (r[2] - r[1]) * PageSize \in Int
    BY PagesAssumption DEF PageRange
  <1> DEFINE p == (r[2] - r[1]) * PageSize
  <1>. HIDE DEF p
  <1>2. p \in Int /\ b =< p
    BY <1>1 DEF p, Fits
  <1>3. a =< p
    BY <1>2
  <1>. QED BY <1>3 DEF p, Fits

LEMMA FittingKept ==
  ASSUME NEW m \in Memory, NEW r \in PageRange, r[2] =< MaxPages,
         NEW offset \in Nat, NEW bytes \in Seq(Unit), NEW from \in Nat, NEW k \in Nat,
         from + k =< offset \/ offset + Len(bytes) =< from,
         Fits(r, from + k)
  PROVE  read(safe_write(m, r, offset, bytes), r, from, k) = read(m, r, from, k)
  <1>1. r[2] * PageSize =< MaxPages * PageSize
    BY MulMonotone, PagesAssumption DEF PageRange
  <1>2. r[1] * PageSize + (from + k) =< r[2] * PageSize
    BY FitsInRange
  <1>3. r[1] * PageSize \in Nat /\ r[2] * PageSize \in Nat /\ MaxPages * PageSize \in Nat
    BY MulNat, PagesAssumption DEF PageRange
  <1>4. r[1] * PageSize + from + k =< MaxPages * PageSize
    <2> DEFINE a == r[1] * PageSize
               b == r[2] * PageSize
               c == MaxPages * PageSize
    <2>1. a \in Nat /\ b \in Nat /\ c \in Nat /\ b =< c /\ a + (from + k) =< b
      BY <1>1, <1>2, <1>3
    <2>. HIDE DEF a, b, c
    <2>2. a + from + k =< c
      BY <2>1
    <2>. QED BY <2>2 DEF a, c
  <1>. QED BY <1>4, SafeWriteKeeps

(* What is read in a slot, in terms of read. *)
LEMMA SlotReads ==
  ASSUME NEW m, NEW r \in PageRange, NEW T \in Type, NEW i \in Nat
  PROVE  /\ read_entry_size(m, r, T, i) =
              IF T.is_fixed_size THEN T.max_size ELSE read(m, r, Offset(T, i), 1)[1]
         /\ read_entry(m, r, T, i) =
              from_bytes(T, read(m, r, DataOffset(T, i), read_entry_size(m, r, T, i)))
  <1>1. r[1] * PageSize \in Nat /\ Offset(T, i) \in Nat
    BY MulNat, PagesAssumption, Slots, ZenonT(30) DEF PageRange
  <1>2. r[1] * PageSize + Offset(T, i) + 1 - 1 = r[1] * PageSize + Offset(T, i)
    <2> DEFINE a == r[1] * PageSize
               b == Offset(T, i)
    <2>1. a \in Nat /\ b \in Nat
      BY <1>1
    <2>. HIDE DEF a, b
    <2>2. a + b + 1 - 1 = a + b
      BY <2>1
    <2>. QED BY <2>2 DEF a, b
  <1>3. read(m, r, Offset(T, i), 1)[1] = m.units[r[1] * PageSize + Offset(T, i)]
    <2>1. read(m, r, Offset(T, i), 1)[1] = m.units[r[1] * PageSize + Offset(T, i) + 1 - 1]
      BY DEF read
    <2>. QED BY <1>2, <2>1
  <1>4. read_entry_size(m, r, T, i) =
          IF T.is_fixed_size THEN T.max_size ELSE read(m, r, Offset(T, i), 1)[1]
    BY <1>3 DEF read_entry_size
  <1>5. \A y : (CHOOSE z \in {y} : TRUE) = y
    OBVIOUS
  <1> DEFINE k == read_entry_size(m, r, T, i)
  <1>6. {from_bytes(T, bytes) : bytes \in {read(m, r, DataOffset(T, i), n) : n \in {k}}}
          = {from_bytes(T, read(m, r, DataOffset(T, i), k))}
    OBVIOUS
  <1>7. read_entry(m, r, T, i) = from_bytes(T, read(m, r, DataOffset(T, i), k))
    BY <1>5, <1>6, SMTT(30) DEF read_entry
  <1>. QED BY <1>4, <1>7

(* A write that fits: it is read back, and nothing else changes. *)
LEMMA Written ==
  ASSUME NEW m \in Memory, m.ok, NEW r \in PageRange, r[2] =< MaxPages,
         NEW offset \in Nat, NEW bytes \in Seq(Unit), offset > 0,
         Fits(r, offset + Len(bytes))
  PROVE  LET n == safe_write(m, r, offset, bytes)
         IN /\ n \in Memory /\ n.ok
            /\ read(n, r, offset, Len(bytes)) = bytes
            /\ \A from, k \in Nat :
                 /\ from + k =< offset \/ offset + Len(bytes) =< from
                 /\ Fits(r, from + k)
                 => read(n, r, from, k) = read(m, r, from, k)
  <1>1. offset + Len(bytes) > 0
    OBVIOUS
  <1>2. LET n == safe_write(m, r, offset, bytes)
        IN n \in Memory /\ n.ok /\ read(n, r, offset, Len(bytes)) = bytes
    BY <1>1, SafeWriteSucceeds, SMTT(30)
  <1>. QED BY <1>2, FittingKept

(* The places in a slot: its size, if it has one, then its bytes. *)
LEMMA Places ==
  ASSUME NEW T \in Type, NEW i \in Nat, NEW r \in PageRange, Fits(r, Offset(T, i + 1))
  PROVE  /\ Offset(T, i) \in Nat /\ DataOffset(T, i) \in Nat
         /\ Offset(T, i) > 3 /\ DataOffset(T, i) >= Offset(T, i)
         /\ DataOffset(T, i) + T.max_size = Offset(T, i + 1)
         /\ ~T.is_fixed_size => DataOffset(T, i) = Offset(T, i) + 1 /\ Fits(r, Offset(T, i) + 1)
         /\ \A k \in 0..T.max_size : Fits(r, DataOffset(T, i) + k)
         /\ Fits(r, 3)
  <1>1. /\ slot_size(T) \in Nat /\ T.max_size \in Nat /\ Flag(T) \in {0, 1}
        /\ slot_size(T) = T.max_size + (1 - Flag(T))
        /\ T.is_fixed_size <=> Flag(T) = 1
        /\ Offset(T, i) \in Nat /\ 5 =< Offset(T, i)
        /\ Offset(T, i + 1) = Offset(T, i) + slot_size(T)
        /\ DataOffset(T, i) = Offset(T, i) + (1 - Flag(T))
    BY Slots, ZenonT(30) DEF DATA_OFFSET
  <1>2. /\ Offset(T, i) > 3 /\ DataOffset(T, i) \in Nat /\ DataOffset(T, i) >= Offset(T, i)
        /\ DataOffset(T, i) + T.max_size = Offset(T, i + 1)
        /\ ~T.is_fixed_size => /\ DataOffset(T, i) = Offset(T, i) + 1
                               /\ Offset(T, i) + 1 =< Offset(T, i + 1)
        /\ Offset(T, i + 1) \in Nat /\ 3 =< Offset(T, i + 1)
    BY <1>1
  <1>3. \A a \in Nat : a =< Offset(T, i + 1) => Fits(r, a)
    BY <1>2, FitsBelow, SMTT(30)
  <1>4. \A k \in 0..T.max_size : Fits(r, DataOffset(T, i) + k)
    BY <1>1, <1>2, <1>3, SMTT(30)
  <1>5. ~T.is_fixed_size => Fits(r, Offset(T, i) + 1)
    BY <1>1, <1>2, <1>3, SMTT(30)
  <1>. QED BY <1>1, <1>2, <1>3, <1>4, <1>5, SMTT(30)

(* Writing the size of an entry: the rest stays. *)
LEMMA EntrySizeWritten ==
  ASSUME NEW m \in Memory, m.ok, NEW r \in PageRange, r[2] =< MaxPages,
         NEW T \in Type, NEW i \in Nat, NEW k \in Nat, Fits(r, Offset(T, i + 1)),
         T.is_fixed_size => k = T.max_size
  PROVE  LET a == write_entry_size(m, r, T, i, k)
         IN /\ a \in Memory /\ a.ok
            /\ T.is_fixed_size \/ read(a, r, Offset(T, i), 1) = <<k>>
            /\ \A from, n \in Nat :
                 /\ from + n =< Offset(T, i) \/ DataOffset(T, i) =< from
                 /\ Fits(r, from + n)
                 => read(a, r, from, n) = read(m, r, from, n)
  <1> DEFINE a == write_entry_size(m, r, T, i, k)
  <1>1. CASE T.is_fixed_size
    BY <1>1, SMTT(30) DEF write_entry_size
  <1>2. CASE ~T.is_fixed_size
    <2>1. PICK src \in Seq(Unit) : src = <<k>> /\ Len(src) = 1
      BY UnitSeqs, ZenonT(30)
    <2>2. /\ Offset(T, i) \in Nat /\ Offset(T, i) > 3 /\ Fits(r, Offset(T, i) + 1)
          /\ DataOffset(T, i) = Offset(T, i) + 1
      BY <1>2, Places
    <2>3. a = safe_write(m, r, Offset(T, i), src)
      BY <1>2, <2>1 DEF write_entry_size
    <2>. HIDE DEF a
    <2>4. Offset(T, i) > 0 /\ Fits(r, Offset(T, i) + Len(src))
      BY <2>1, <2>2, SMTT(30)
    <2>5. /\ a \in Memory /\ a.ok
          /\ read(a, r, Offset(T, i), Len(src)) = src
          /\ \A from, n \in Nat :
               /\ from + n =< Offset(T, i) \/ Offset(T, i) + Len(src) =< from
               /\ Fits(r, from + n)
               => read(a, r, from, n) = read(m, r, from, n)
      BY <2>2, <2>3, <2>4, Written, SMTT(30)
    <2>. QED BY <2>1, <2>2, <2>5 DEF a
  <1>. QED BY <1>1, <1>2

(* Writing an entry: it is read back, and what is outside its slot stays. *)
LEMMA EntryWritten ==
  ASSUME NEW m \in Memory, m.ok, NEW r \in PageRange, r[2] =< MaxPages,
         NEW T \in Type, NEW i \in Nat, NEW x \in Item, Fits(r, Offset(T, i + 1))
  PROVE  LET n == WriteEntry(m, r, T, i, x)
         IN /\ n \in Memory /\ n.ok
            /\ read_entry_size(n, r, T, i) \in 0..T.max_size
            /\ read_entry(n, r, T, i) = x
            /\ \A from, k \in Nat :
                 /\ from + k =< Offset(T, i) \/ Offset(T, i + 1) =< from
                 /\ Fits(r, from + k)
                 => read(n, r, from, k) = read(m, r, from, k)
  <1> DEFINE bytes == T.bytes[x]
             k == Len(T.bytes[x])
             a == write_entry_size(m, r, T, i, k)
             n == WriteEntry(m, r, T, i, x)
             at == DataOffset(T, i)
  <1>1. /\ bytes \in Seq(Unit) /\ k \in Nat /\ k =< T.max_size
        /\ T.is_fixed_size => k = T.max_size
        /\ from_bytes(T, bytes) = x
    BY ItemBytes, SMTT(30)
  <1>2. /\ Offset(T, i) \in Nat /\ at \in Nat
        /\ Offset(T, i) > 3 /\ at >= Offset(T, i)
        /\ at + T.max_size = Offset(T, i + 1)
        /\ ~T.is_fixed_size => at = Offset(T, i) + 1 /\ Fits(r, Offset(T, i) + 1)
        /\ T.max_size \in Nat
    BY Places, Slots, SMTT(30)
  <1>3. Fits(r, at + k)
    <2>1. k \in 0..T.max_size
      BY <1>1, <1>2
    <2>. QED BY <2>1, Places
  <1>4. n = safe_write(a, r, at, bytes) /\ k = Len(bytes)
    BY DEF WriteEntry
  <1>. HIDE DEF bytes, k, n, at
  <1>5. /\ a \in Memory /\ a.ok
        /\ T.is_fixed_size \/ read(a, r, Offset(T, i), 1) = <<k>>
        /\ \A from, j \in Nat :
             /\ from + j =< Offset(T, i) \/ at =< from
             /\ Fits(r, from + j)
             => read(a, r, from, j) = read(m, r, from, j)
    BY <1>1, EntrySizeWritten DEF at
  <1>. HIDE DEF a
  <1>6. /\ n \in Memory /\ n.ok
        /\ read(n, r, at, k) = bytes
        /\ \A from, j \in Nat :
             /\ from + j =< at \/ at + k =< from
             /\ Fits(r, from + j)
             => read(n, r, from, j) = read(a, r, from, j)
    <2>1. at > 0 /\ Fits(r, at + Len(bytes))
      BY <1>2, <1>3, <1>4
    <2>. QED BY <2>1, <1>1, <1>2, <1>4, <1>5, Written, SMTT(30)
  <1>7. read_entry_size(n, r, T, i) = k
    <2>1. CASE T.is_fixed_size
      BY <2>1, <1>1, SlotReads, SMTT(30)
    <2>2. CASE ~T.is_fixed_size
      <3>1. read(n, r, Offset(T, i), 1) = read(a, r, Offset(T, i), 1)
        BY <2>2, <1>2, <1>6, SMTT(30)
      <3>2. read(n, r, Offset(T, i), 1) = <<k>>
        BY <2>2, <3>1, <1>5
      <3>. QED BY <2>2, <3>2, SlotReads, SMTT(30)
    <2>. QED BY <2>1, <2>2
  <1>8. read_entry(n, r, T, i) = x
    <2>1. read_entry(n, r, T, i) = from_bytes(T, read(n, r, at, k))
      BY <1>7, SlotReads DEF at
    <2>. QED BY <2>1, <1>1, <1>6, SMTT(30)
  <1>9. ASSUME NEW from \in Nat, NEW j \in Nat,
               from + j =< Offset(T, i) \/ Offset(T, i + 1) =< from,
               Fits(r, from + j)
        PROVE  read(n, r, from, j) = read(m, r, from, j)
    <2>1. from + j =< at \/ at + k =< from
      BY <1>9, <1>1, <1>2, SMTT(30)
    <2>2. from + j =< Offset(T, i) \/ at =< from
      BY <1>9, <1>1, <1>2, SMTT(30)
    <2>3. read(n, r, from, j) = read(a, r, from, j)
      BY <2>1, <1>9, <1>6, SMTT(30)
    <2>4. read(a, r, from, j) = read(m, r, from, j)
      BY <2>2, <1>9, <1>5, SMTT(30)
    <2>. QED BY <2>3, <2>4
  <1>10. read_entry_size(n, r, T, i) \in 0..T.max_size
    BY <1>1, <1>2, <1>7, SMTT(30)
  <1>. QED BY <1>6, <1>8, <1>9, <1>10 DEF n

(* Where two memories agree on a slot, so does what is read from it. *)
LEMMA SameEntry ==
  ASSUME NEW m \in Memory, NEW n \in Memory, NEW r \in PageRange, NEW T \in Type, NEW i \in Nat,
         Fits(r, Offset(T, i + 1)), read_entry_size(m, r, T, i) \in 0..T.max_size,
         \A from, k \in Nat :
           /\ Offset(T, i) =< from /\ from + k =< Offset(T, i + 1)
           /\ Fits(r, from + k)
           => read(n, r, from, k) = read(m, r, from, k)
  PROVE  /\ read_entry_size(n, r, T, i) = read_entry_size(m, r, T, i)
         /\ read_entry(n, r, T, i) = read_entry(m, r, T, i)
  <1> DEFINE k == read_entry_size(m, r, T, i)
             at == DataOffset(T, i)
  <1>1. /\ Offset(T, i) \in Nat /\ at \in Nat
        /\ at >= Offset(T, i)
        /\ at + T.max_size = Offset(T, i + 1)
        /\ ~T.is_fixed_size => at = Offset(T, i) + 1 /\ Fits(r, Offset(T, i) + 1)
        /\ T.max_size \in Nat
        /\ Fits(r, at + k)
    BY Places, Slots, ZenonT(30)
  <1>. HIDE DEF at
  <1>2. read_entry_size(n, r, T, i) = k
    <2>1. CASE T.is_fixed_size
      BY <2>1, SlotReads, SMTT(30)
    <2>2. CASE ~T.is_fixed_size
      <3>1. Offset(T, i) =< Offset(T, i) /\ Offset(T, i) + 1 =< Offset(T, i + 1)
        BY <1>1, <2>2, SMTT(30)
      <3>2. read(n, r, Offset(T, i), 1) = read(m, r, Offset(T, i), 1)
        BY <1>1, <2>2, <3>1, SMTT(30)
      <3>. QED BY <2>2, <3>2, SlotReads, SMTT(30)
    <2>. QED BY <2>1, <2>2, SMTT(30)
  <1>3. read(n, r, at, k) = read(m, r, at, k)
    <2>1. k \in 0..T.max_size
      OBVIOUS
    <2>. HIDE DEF k
    <2>2. k \in Nat /\ at + k =< Offset(T, i + 1)
      BY <1>1, <2>1, SMTT(30)
    <2>. QED BY <1>1, <2>2
  <1>4. /\ read_entry(n, r, T, i) = from_bytes(T, read(n, r, at, k))
        /\ read_entry(m, r, T, i) = from_bytes(T, read(m, r, at, k))
    BY <1>2, SlotReads DEF at
  <1>. QED BY <1>2, <1>3, <1>4, SMTT(30)

(* Setting the length leaves the slots alone. *)
LEMMA LengthWritten ==
  ASSUME NEW m \in Memory, m.ok, NEW r \in PageRange, r[2] =< MaxPages, NEW k \in Nat, Fits(r, 3)
  PROVE  LET n == set_len(m, r, k)
         IN /\ n \in Memory /\ n.ok /\ len(n, r) = k
            /\ \A from, j \in Nat : 3 =< from /\ Fits(r, from + j)
                 => read(n, r, from, j) = read(m, r, from, j)
  <1> DEFINE n == set_len(m, r, k)
  <1>1. PICK src \in Seq(Unit) : src = <<k>> /\ Len(src) = 1
    BY UnitSeqs, ZenonT(30)
  <1>2. n = safe_write(m, r, 2, src)
    BY <1>1 DEF set_len, LEN_OFFSET
  <1>. HIDE DEF n
  <1>3. 2 + Len(src) = 3
    BY <1>1
  <1>4. /\ n \in Memory /\ n.ok
        /\ read(n, r, 2, Len(src)) = src
        /\ \A from, j \in Nat :
             /\ from + j =< 2 \/ 2 + Len(src) =< from
             /\ Fits(r, from + j)
             => read(n, r, from, j) = read(m, r, from, j)
    BY <1>2, <1>3, Written
  <1>5. len(n, r) = k
    BY <1>1, <1>4 DEF len, LEN_OFFSET
  <1>. QED BY <1>3, <1>4, <1>5 DEF n

(* The memory m has, in the range r, a BaseVec with the items s. *)
VecHolds(m, r, T, s) ==
  /\ m \in Memory /\ m.ok
  /\ len(m, r) = Len(s)
  /\ \A i \in 0..(Len(s) - 1) : /\ read_entry_size(m, r, T, i) \in 0..T.max_size
                                /\ read_entry(m, r, T, i) = s[i + 1]

(* A later slot that fits leaves room for the earlier ones. *)
LEMMA EarlierFits ==
  ASSUME NEW r \in PageRange, NEW T \in Type, NEW i \in Nat, NEW j \in Nat, i =< j,
         Fits(r, Offset(T, j))
  PROVE  Fits(r, Offset(T, i))
  BY Slots, FitsBelow

(* Setting the length to k keeps the first k items. *)
LEMMA LengthKeeps ==
  ASSUME NEW m \in Memory, m.ok, NEW r \in PageRange, r[2] =< MaxPages, NEW T \in Type,
         NEW k \in Nat, Fits(r, Offset(T, k)), NEW i \in 0..(k - 1),
         read_entry_size(m, r, T, i) \in 0..T.max_size
  PROVE  LET n == set_len(m, r, k)
         IN /\ read_entry_size(n, r, T, i) = read_entry_size(m, r, T, i)
            /\ read_entry(n, r, T, i) = read_entry(m, r, T, i)
  <1> DEFINE n == set_len(m, r, k)
  <1>1. i \in Nat /\ i + 1 \in Nat /\ i + 1 =< k
    OBVIOUS
  <1>2. Fits(r, Offset(T, i + 1))
    BY <1>1, EarlierFits
  <1>3. Fits(r, 3) /\ Offset(T, i) \in Nat /\ Offset(T, i) > 3
    BY <1>1, <1>2, Places, SMTT(30)
  <1>4. n \in Memory /\ \A from, j \in Nat : 3 =< from /\ Fits(r, from + j)
          => read(n, r, from, j) = read(m, r, from, j)
    BY <1>3, LengthWritten, SMTT(30)
  <1>. HIDE DEF n
  <1>5. \A from, j \in Nat :
           /\ Offset(T, i) =< from /\ from + j =< Offset(T, i + 1)
           /\ Fits(r, from + j)
           => read(n, r, from, j) = read(m, r, from, j)
    BY <1>3, <1>4, SMTT(30)
  <1>6. /\ read_entry_size(n, r, T, i) = read_entry_size(m, r, T, i)
        /\ read_entry(n, r, T, i) = read_entry(m, r, T, i)
    BY <1>1, <1>2, <1>4, <1>5, SameEntry, SMTT(30)
  <1>. QED BY <1>6 DEF n

(* Writing an entry keeps the others. *)
LEMMA EntryKeeps ==
  ASSUME NEW m \in Memory, m.ok, NEW r \in PageRange, r[2] =< MaxPages, NEW T \in Type,
         NEW i \in Nat, NEW x \in Item, Fits(r, Offset(T, i + 1)),
         NEW j \in Nat, j # i, Fits(r, Offset(T, j + 1)),
         read_entry_size(m, r, T, j) \in 0..T.max_size
  PROVE  LET n == WriteEntry(m, r, T, i, x)
         IN /\ read_entry_size(n, r, T, j) = read_entry_size(m, r, T, j)
            /\ read_entry(n, r, T, j) = read_entry(m, r, T, j)
  <1> DEFINE n == WriteEntry(m, r, T, i, x)
  <1>1. /\ n \in Memory
        /\ \A from, k \in Nat :
             /\ from + k =< Offset(T, i) \/ Offset(T, i + 1) =< from
             /\ Fits(r, from + k)
             => read(n, r, from, k) = read(m, r, from, k)
    BY EntryWritten
  <1>. HIDE DEF n
  <1>2. Offset(T, j + 1) =< Offset(T, i) \/ Offset(T, i + 1) =< Offset(T, j)
    <2>1. CASE j < i
      <3>1. j + 1 \in Nat /\ j + 1 =< i
        BY <2>1, SMTT(30)
      <3>. QED BY <3>1, Slots
    <2>2. CASE i < j
      <3>1. i + 1 \in Nat /\ i + 1 =< j
        BY <2>2
      <3>. QED BY <3>1, Slots
    <2>. QED BY <2>1, <2>2, SMTT(30)
  <1>3. /\ Offset(T, i) \in Nat /\ Offset(T, j) \in Nat
        /\ Offset(T, i + 1) \in Nat /\ Offset(T, j + 1) \in Nat
    <2>1. i + 1 \in Nat /\ j + 1 \in Nat
      OBVIOUS
    <2>2. \A k \in Nat : Offset(T, k) \in Nat
      BY Slots, ZenonT(30)
    <2>. QED BY <2>1, <2>2
  <1>4. ASSUME NEW from \in Nat, NEW k \in Nat,
               Offset(T, j) =< from, from + k =< Offset(T, j + 1), Fits(r, from + k)
        PROVE  read(n, r, from, k) = read(m, r, from, k)
    <2>1. from + k =< Offset(T, i) \/ Offset(T, i + 1) =< from
      BY <1>2, <1>3, <1>4, SMTT(30)
    <2>. QED BY <2>1, <1>1, <1>4
  <1>5. /\ read_entry_size(n, r, T, j) = read_entry_size(m, r, T, j)
        /\ read_entry(n, r, T, j) = read_entry(m, r, T, j)
    BY <1>1, <1>4, SameEntry, SMTT(30)
  <1>. QED BY <1>5, SMTT(30) DEF n

(* push, if the new item's slot is in the range: the Vec has it at the     *)
(* end, and every other item as before.                                    *)
THEOREM PushAppends ==
  ASSUME NEW m, NEW r \in PageRange, r[2] =< MaxPages, NEW T \in Type, NEW s \in Seq(Item),
         VecHolds(m, r, T, s), NEW x \in Item, Fits(r, Offset(T, Len(s) + 1))
  PROVE  VecHolds(push(m, r, T, x), r, T, Append(s, x))
  <1> DEFINE k == Len(s)
             t == Append(s, x)
             a == WriteEntry(m, r, T, k, x)
             n == set_len(a, r, k + 1)
  <1>1. /\ m \in Memory /\ m.ok /\ len(m, r) = k
        /\ \A i \in 0..(k - 1) : /\ read_entry_size(m, r, T, i) \in 0..T.max_size
                                 /\ read_entry(m, r, T, i) = s[i + 1]
    BY DEF VecHolds
  <1>2. push(m, r, T, x) = n
    BY <1>1, SMTT(30) DEF push
  <1>3. k \in Nat /\ Len(t) = k + 1 /\ t[k + 1] = x /\ \A i \in 1..k : t[i] = s[i]
    <2>1. k \in Nat
      OBVIOUS
    <2>2. Len(t) = k + 1
      OBVIOUS
    <2>3. t[k + 1] = x
      OBVIOUS
    <2>4. ASSUME NEW i \in 1..k PROVE t[i] = s[i]
      OBVIOUS
    <2>. HIDE DEF k, t
    <2>. QED BY <2>1, <2>2, <2>3, <2>4, Zenon
  <1>4. Fits(r, Offset(T, k + 1)) /\ Fits(r, 3)
    <2>1. Fits(r, Offset(T, k + 1))
      BY Zenon
    <2>. HIDE DEF k, t
    <2>. QED BY <2>1, <1>3, Places, Zenon
  <1>. HIDE DEF k, t
  <1>5. /\ a \in Memory /\ a.ok
        /\ read_entry_size(a, r, T, k) \in 0..T.max_size
        /\ read_entry(a, r, T, k) = x
    <2>1. m \in Memory /\ m.ok /\ k \in Nat /\ Fits(r, Offset(T, k + 1))
      BY <1>1, <1>3, <1>4, Zenon
    <2>. QED BY <2>1, EntryWritten, SMTT(30)
  <1>6. ASSUME NEW i \in 0..(k - 1)
        PROVE  /\ read_entry_size(a, r, T, i) = read_entry_size(m, r, T, i)
               /\ read_entry(a, r, T, i) = read_entry(m, r, T, i)
    <2>1. i \in Nat /\ i # k /\ i + 1 \in Nat /\ k + 1 \in Nat /\ i + 1 =< k + 1
      <3>1. k \in Nat
        BY <1>3, Zenon
      <3>. QED BY <3>1
    <2>2. Fits(r, Offset(T, i + 1))
      BY <1>4, <2>1, EarlierFits
    <2>3. /\ m \in Memory /\ m.ok /\ k \in Nat /\ Fits(r, Offset(T, k + 1))
          /\ read_entry_size(m, r, T, i) \in 0..T.max_size
      BY <1>1, <1>3, <1>4, Zenon
    <2>. QED BY <2>1, <2>2, <2>3, EntryKeeps, SMTT(30)
  <1>7. \A i \in 0..k : read_entry_size(a, r, T, i) \in 0..T.max_size /\ read_entry(a, r, T, i) = t[i + 1]
    <2>. SUFFICES ASSUME NEW i \in 0..k
                  PROVE  /\ read_entry_size(a, r, T, i) \in 0..T.max_size
                         /\ read_entry(a, r, T, i) = t[i + 1]
      BY ZenonT(30)
    <2>1. CASE i = k
      <3>1. t[i + 1] = x
        BY <2>1, <1>3, Zenon
      <3>. QED BY <2>1, <3>1, <1>5, Zenon
    <2>2. CASE i # k
      <3>1. i \in 0..(k - 1) /\ i + 1 \in 1..k
        BY <2>2, <1>3, SMTT(30)
      <3>2. read_entry_size(m, r, T, i) \in 0..T.max_size /\ read_entry(m, r, T, i) = s[i + 1]
        BY <3>1, <1>1, Zenon
      <3>3. t[i + 1] = s[i + 1]
        BY <3>1, <1>3, Zenon
      <3>4. /\ read_entry_size(a, r, T, i) = read_entry_size(m, r, T, i)
            /\ read_entry(a, r, T, i) = read_entry(m, r, T, i)
        BY <3>1, <1>6, Zenon
      <3>. QED BY <3>2, <3>3, <3>4, Zenon
    <2>. QED BY <2>1, <2>2
  <1>. HIDE DEF a
  <1>8. n \in Memory /\ n.ok /\ len(n, r) = k + 1
    <2>1. k + 1 \in Nat
      BY <1>3, SMTT(30)
    <2>. QED BY <2>1, <1>4, <1>5, LengthWritten, ZenonT(30)
  <1>9. \A i \in 0..k : read_entry_size(n, r, T, i) \in 0..T.max_size /\ read_entry(n, r, T, i) = t[i + 1]
    <2>. TAKE i \in 0..k
    <2>1. i \in 0..((k + 1) - 1) /\ k + 1 \in Nat
      BY <1>3, SMTT(30)
    <2>2. /\ read_entry_size(n, r, T, i) = read_entry_size(a, r, T, i)
          /\ read_entry(n, r, T, i) = read_entry(a, r, T, i)
      BY <1>4, <1>5, <1>7, <2>1, LengthKeeps, ZenonT(30)
    <2>. QED BY <2>2, <1>7
  <1>. HIDE DEF n
  <1>10. VecHolds(n, r, T, t)
    <2>1. k \in Nat /\ Len(t) = k + 1
      BY <1>3, Zenon
    <2>2. (k + 1) - 1 = k
      BY <2>1
    <2>3. Len(t) - 1 = k
      BY <2>1, <2>2, Zenon
    <2>4. \A i \in 0..(Len(t) - 1) : /\ read_entry_size(n, r, T, i) \in 0..T.max_size
                                      /\ read_entry(n, r, T, i) = t[i + 1]
      BY <1>9, <2>3, Zenon
    <2>. QED BY <1>8, <2>1, <2>4, Zenon DEF VecHolds
  <1>. QED BY <1>2, <1>10 DEF t

(* set of an index below the length: the Vec has the new item there, and   *)
(* every other item as before.                                             *)
THEOREM SetReplaces ==
  ASSUME NEW m, NEW r \in PageRange, r[2] =< MaxPages, NEW T \in Type, NEW s \in Seq(Item),
         VecHolds(m, r, T, s), NEW x \in Item, NEW index \in 0..(Len(s) - 1),
         Fits(r, Offset(T, Len(s)))
  PROVE  VecHolds(set(m, r, T, index, x), r, T, [s EXCEPT ![index + 1] = x])
  <1> DEFINE k == Len(s)
             t == [s EXCEPT ![index + 1] = x]
             n == WriteEntry(m, r, T, index, x)
  <1>1. /\ m \in Memory /\ m.ok /\ len(m, r) = k
        /\ \A i \in 0..(k - 1) : /\ read_entry_size(m, r, T, i) \in 0..T.max_size
                                 /\ read_entry(m, r, T, i) = s[i + 1]
    BY DEF VecHolds
  <1>2. k \in Nat /\ index \in 0..(k - 1) /\ index \in Nat
    OBVIOUS
  <1>3. set(m, r, T, index, x) = n
    BY <1>1, <1>2 DEF set
  <1>4. Len(t) = k /\ \A i \in 1..k : t[i] = IF i = index + 1 THEN x ELSE s[i]
    OBVIOUS
  <1>5. \A i \in 0..(k - 1) : Fits(r, Offset(T, i + 1))
    <2>1. Fits(r, Offset(T, k))
      OBVIOUS
    <2>. HIDE DEF k
    <2>. TAKE i \in 0..(k - 1)
    <2>2. i + 1 \in Nat /\ i + 1 =< k
      BY <1>2, SMTT(30)
    <2>. QED BY <1>2, <2>1, <2>2, EarlierFits, SMTT(30)
  <1>6. Fits(r, 3) /\ Offset(T, index) \in Nat /\ Offset(T, index) > 3
    BY <1>2, <1>5, Places, SMTT(30)
  <1>. HIDE DEF k, t
  <1>7. /\ n \in Memory /\ n.ok
        /\ read_entry_size(n, r, T, index) \in 0..T.max_size
        /\ read_entry(n, r, T, index) = x
        /\ \A from, j \in Nat :
             /\ from + j =< Offset(T, index) \/ Offset(T, index + 1) =< from
             /\ Fits(r, from + j)
             => read(n, r, from, j) = read(m, r, from, j)
    <2>1. m \in Memory /\ m.ok /\ index \in Nat /\ Fits(r, Offset(T, index + 1))
      BY <1>1, <1>2, <1>5, Zenon
    <2>. QED BY <2>1, EntryWritten, SMTT(30)
  <1>8. ASSUME NEW i \in 0..(k - 1), i # index
        PROVE  /\ read_entry_size(n, r, T, i) = read_entry_size(m, r, T, i)
               /\ read_entry(n, r, T, i) = read_entry(m, r, T, i)
    <2>1. i \in Nat
      BY <1>2
    <2>2. /\ m \in Memory /\ m.ok /\ index \in Nat /\ i # index
          /\ Fits(r, Offset(T, index + 1)) /\ Fits(r, Offset(T, i + 1))
          /\ read_entry_size(m, r, T, i) \in 0..T.max_size
      BY <1>1, <1>2, <1>5, <1>8, Zenon
    <2>. QED BY <2>1, <2>2, EntryKeeps, SMTT(30)
  <1>. HIDE DEF n
  <1>9. len(n, r) = len(m, r)
    <2>1. 2 + 1 =< Offset(T, index) /\ 2 + 1 = 3
      BY <1>6
    <2>2. read(n, r, 2, 1) = read(m, r, 2, 1)
      BY <1>6, <1>7, <2>1, SMTT(30)
    <2>. QED BY <2>2 DEF len, LEN_OFFSET
  <1>10. \A i \in 0..(k - 1) : /\ read_entry_size(n, r, T, i) \in 0..T.max_size
                               /\ read_entry(n, r, T, i) = t[i + 1]
    <2>. TAKE i \in 0..(k - 1)
    <2>1. i + 1 \in 1..k /\ (i + 1 = index + 1 <=> i = index)
      BY <1>2, SMTT(30)
    <2>2. t[i + 1] = IF i + 1 = index + 1 THEN x ELSE s[i + 1]
      BY <2>1, <1>4, Zenon
    <2>3. CASE i = index
      <3>1. t[i + 1] = x
        BY <2>1, <2>2, <2>3, Zenon
      <3>. QED BY <2>3, <3>1, <1>7, Zenon
    <2>4. CASE i # index
      <3>1. t[i + 1] = s[i + 1]
        BY <2>1, <2>2, <2>4, Zenon
      <3>2. read_entry_size(m, r, T, i) \in 0..T.max_size /\ read_entry(m, r, T, i) = s[i + 1]
        BY <1>1, Zenon
      <3>3. /\ read_entry_size(n, r, T, i) = read_entry_size(m, r, T, i)
            /\ read_entry(n, r, T, i) = read_entry(m, r, T, i)
        BY <2>4, <1>8, Zenon
      <3>. QED BY <3>1, <3>2, <3>3, Zenon
    <2>. QED BY <2>3, <2>4, Zenon
  <1>11. VecHolds(n, r, T, t)
    <2>1. Len(t) = k /\ len(n, r) = k /\ n \in Memory /\ n.ok
      BY <1>1, <1>4, <1>7, <1>9, Zenon
    <2>2. \A i \in 0..(Len(t) - 1) : /\ read_entry_size(n, r, T, i) \in 0..T.max_size
                                      /\ read_entry(n, r, T, i) = t[i + 1]
      BY <1>10, <2>1, Zenon
    <2>. QED BY <2>1, <2>2, Zenon DEF VecHolds
  <1>. QED BY <1>3, <1>11, SMTT(30) DEF t

LEMMA WithoutLast ==
  ASSUME NEW s \in Seq(Item), Len(s) > 0
  PROVE  LET t == SubSeq(s, 1, Len(s) - 1)
         IN Len(t) = Len(s) - 1 /\ \A i \in 1..(Len(s) - 1) : t[i] = s[i]
  <1> DEFINE n == Len(s) - 1
             t == SubSeq(s, 1, n)
  <1>1. n \in Nat /\ 1 \in Int /\ \A i \in 1..n : s[i] \in Item
    OBVIOUS
  <1>. HIDE DEF n
  <1>2. /\ Len(t) = IF 1 <= n THEN n - 1 + 1 ELSE 0
        /\ \A i \in 1..(n - 1 + 1) : t[i] = s[1 + i - 1]
    BY <1>1, SubSeqProperties
  <1>. HIDE DEF t
  <1>3. n - 1 + 1 = n /\ \A i \in 1..n : 1 + i - 1 = i
    BY <1>1
  <1>4. Len(t) = n /\ \A i \in 1..n : t[i] = s[i]
    BY <1>1, <1>2, <1>3, SMTT(30)
  <1>. QED BY <1>4 DEF t, n

(* pop of a Vec with items: it answers the last one, and the Vec has the   *)
(* others as before.                                                       *)
THEOREM PopRemovesLast ==
  ASSUME NEW m, NEW r \in PageRange, r[2] =< MaxPages, NEW T \in Type, NEW s \in Seq(Item),
         VecHolds(m, r, T, s), Len(s) > 0, Fits(r, Offset(T, Len(s)))
  PROVE  /\ LastEntry(m, r, T) = s[Len(s)]
         /\ VecHolds(pop(m, r), r, T, SubSeq(s, 1, Len(s) - 1))
  <1> DEFINE k == Len(s) - 1
             t == SubSeq(s, 1, Len(s) - 1)
             n == set_len(m, r, k)
  <1>1. /\ m \in Memory /\ m.ok /\ len(m, r) = k + 1
        /\ \A i \in 0..k : /\ read_entry_size(m, r, T, i) \in 0..T.max_size
                           /\ read_entry(m, r, T, i) = s[i + 1]
    BY DEF VecHolds
  <1>2. k \in Nat /\ k + 1 = Len(s) /\ k + 1 # 0 /\ (k + 1) - 1 = k
    OBVIOUS
  <1>3. Len(t) = k /\ \A i \in 1..k : t[i] = s[i]
    BY WithoutLast
  <1>4. Fits(r, Offset(T, k + 1))
    BY <1>2, SMTT(30)
  <1>. HIDE DEF k, t
  <1>5. pop(m, r) = n /\ LastEntry(m, r, T) = s[k + 1]
    BY <1>1, <1>2, SMTT(30) DEF pop, LastEntry
  <1>6. Fits(r, 3)
    BY <1>2, <1>4, Places, Zenon
  <1>7. Fits(r, Offset(T, k))
    <2>1. k + 1 \in Nat /\ k =< k + 1
      BY <1>2
    <2>. QED BY <1>2, <1>4, <2>1, EarlierFits
  <1>8. n \in Memory /\ n.ok /\ len(n, r) = k
    BY <1>1, <1>2, <1>6, LengthWritten, Zenon
  <1>9. \A i \in 0..(k - 1) : /\ read_entry_size(n, r, T, i) \in 0..T.max_size
                              /\ read_entry(n, r, T, i) = t[i + 1]
    <2>. TAKE i \in 0..(k - 1)
    <2>1. i \in 0..k /\ i + 1 \in 1..k
      BY <1>2
    <2>2. /\ read_entry_size(n, r, T, i) = read_entry_size(m, r, T, i)
          /\ read_entry(n, r, T, i) = read_entry(m, r, T, i)
      BY <1>1, <1>2, <1>7, <2>1, LengthKeeps, ZenonT(30)
    <2>. QED BY <2>1, <2>2, <1>1, <1>3, Zenon
  <1>. HIDE DEF n
  <1>10. VecHolds(n, r, T, t)
    BY <1>3, <1>8, <1>9, ZenonT(30) DEF VecHolds
  <1>. QED BY <1>2, <1>5, <1>10, SMTT(30) DEF t

(* Whether or not they succeed, the operations that write a BaseVec change *)
(* nothing outside its range once the memory reaches it: WriteEntry, which *)
(* set and push use, and set_len, which push, pop and clear use.           *)
THEOREM VecStaysInRange ==
  ASSUME NEW m \in Memory, NEW r \in PageRange, Reached(m, r), len(m, r) \in Nat,
         NEW T \in Type, NEW x \in Item, NEW index \in Nat
  PROVE  /\ OnlyIn(r, m, push(m, r, T, x))
         /\ OnlyIn(r, m, set(m, r, T, index, x))
         /\ OnlyIn(r, m, pop(m, r))
         /\ OnlyIn(r, m, clear(m, r))
  <1>1. ASSUME NEW o \in Memory, Reached(o, r), NEW offset \in Nat, NEW bytes \in Seq(Unit)
        PROVE  LET n == safe_write(o, r, offset, bytes)
               IN OnlyIn(r, o, n) /\ n \in Memory /\ Reached(n, r)
    <2>1. OnlyIn(r, o, safe_write(o, r, offset, bytes))
      BY <1>1, SafeWriteStaysInRange, SMTT(30)
    <2>2. r[1] \in Nat /\ o.pages \in Nat
      BY UnitsType, SMTT(30) DEF PageRange
    <2>3. safe_write(o, r, offset, bytes).pages \in Nat
      BY <2>1, UnitsType DEF OnlyIn
    <2>. QED BY <1>1, <2>1, <2>2, <2>3, SMTT(30) DEF OnlyIn, Reached
  <1>2. ASSUME NEW o \in Memory, Reached(o, r), NEW k \in Nat
        PROVE  OnlyIn(r, o, set_len(o, r, k))
    <2>1. PICK src \in Seq(Unit) : src = <<k>>
      BY UnitSeqs, ZenonT(30)
    <2>. QED BY <2>1, <1>1, <1>2, Zenon DEF set_len, LEN_OFFSET
  <1>3. ASSUME NEW i \in Nat
        PROVE  LET n == WriteEntry(m, r, T, i, x)
               IN OnlyIn(r, m, n) /\ n \in Memory /\ Reached(n, r)
    <2> DEFINE a == write_entry_size(m, r, T, i, Len(T.bytes[x]))
               n == WriteEntry(m, r, T, i, x)
    <2>1. Offset(T, i) \in Nat /\ DataOffset(T, i) \in Nat
      <3>1. /\ Offset(T, i) \in Nat /\ Flag(T) \in {0, 1}
            /\ DataOffset(T, i) = Offset(T, i) + (1 - Flag(T))
        BY Slots, SMTT(30)
      <3>. QED BY <3>1, SMTT(30)
    <2>2. T.bytes[x] \in Seq(Unit) /\ Len(T.bytes[x]) \in Nat
      BY ItemBytes
    <2>3. PICK src \in Seq(Unit) : src = <<Len(T.bytes[x])>>
      BY <2>2, UnitSeqs, ZenonT(30)
    <2>4. OnlyIn(r, m, a) /\ a \in Memory /\ Reached(a, r)
      <3>1. CASE T.is_fixed_size
        BY <3>1, OnlyInReflexive, SMTT(30) DEF write_entry_size
      <3>2. CASE ~T.is_fixed_size
        <4>1. a = safe_write(m, r, Offset(T, i), src)
          BY <3>2, <2>3 DEF write_entry_size
        <4>. QED BY <4>1, <2>1, <1>1, SMTT(30)
      <3>. QED BY <3>1, <3>2
    <2>5. n = safe_write(a, r, DataOffset(T, i), T.bytes[x])
      BY SMTT(30) DEF WriteEntry
    <2>. HIDE DEF a, n
    <2>6. OnlyIn(r, a, n) /\ n \in Memory /\ Reached(n, r)
      BY <2>1, <2>2, <2>4, <2>5, <1>1, SMTT(30)
    <2>7. OnlyIn(r, m, n)
      BY <2>4, <2>6, OnlyInTransitive, SMTT(30)
    <2>. QED BY <2>6, <2>7 DEF n
  <1>4. OnlyIn(r, m, push(m, r, T, x))
    <2> DEFINE a == WriteEntry(m, r, T, len(m, r), x)
    <2>1. OnlyIn(r, m, a) /\ a \in Memory /\ Reached(a, r)
      BY <1>3
    <2>2. push(m, r, T, x) = set_len(a, r, len(m, r) + 1) /\ len(m, r) + 1 \in Nat
      BY DEF push
    <2>. HIDE DEF a
    <2>. QED BY <2>1, <2>2, <1>2, OnlyInTransitive, SMTT(30)
  <1>5. OnlyIn(r, m, set(m, r, T, index, x))
    BY <1>3, FailedOnlyIn DEF set
  <1>6. OnlyIn(r, m, pop(m, r))
    <2>1. len(m, r) # 0 => len(m, r) - 1 \in Nat
      OBVIOUS
    <2>. QED BY <2>1, <1>2, OnlyInReflexive DEF pop
  <1>7. OnlyIn(r, m, clear(m, r))
    BY <1>2 DEF clear
  <1>. QED BY <1>4, <1>5, <1>6, <1>7, SMTT(30)

===============================================================================
