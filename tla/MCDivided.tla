------------------------------- MODULE MCDivided -------------------------------
EXTENDS Divided

(* Items whose size varies, and items of a fixed size. *)
MCItem == 1..3
Sized == [max_size |-> 2, is_fixed_size |-> FALSE,
          bytes |-> [x \in MCItem |-> IF x = 2 THEN <<2, 2>> ELSE <<x>>]]
Fixed == [max_size |-> 2, is_fixed_size |-> TRUE, bytes |-> [x \in MCItem |-> <<x, 0>>]]
MCType == {Sized, Fixed}

(* The values of a Cell, one of them on two pages. *)
MCCellBytes == [v \in CellValue |-> [i \in 1..(IF v = 2 THEN PageSize ELSE 1) |-> 3 + v]]

MCLayout ==
  {[cell |-> <<0, 2>>, vec |-> <<2, 4>>, kinds |-> {"Vec"}, types |-> {Sized},
    items |-> {1, 2}, values |-> {1}, undone |-> TRUE],
   [cell |-> <<2, 4>>, vec |-> <<0, 2>>, kinds |-> {"MinHeap"}, types |-> {Fixed},
    items |-> MCItem, values |-> {1, 2}, undone |-> FALSE],
   [cell |-> <<3, 5>>, vec |-> <<0, 2>>, kinds |-> {"MinHeap"}, types |-> {Sized},
    items |-> MCItem, values |-> {1, 2}, undone |-> TRUE],
   [cell |-> <<0, 2>>, vec |-> <<2, 3>>, kinds |-> {"Vec", "MinHeap"}, types |-> MCType,
    items |-> {1, 2}, values |-> {1, 2}, undone |-> TRUE]}

(* A Cell that has one page, before anything else has grown the memory. *)
NarrowLayout ==
  {[cell |-> <<1, 2>>, vec |-> <<2, 4>>, kinds |-> {"Vec"}, types |-> {Fixed},
    items |-> {1}, values |-> {1, 2}, undone |-> TRUE]}

WithoutRet == <<layout, mem, cell, vec, iter>>

===============================================================================
