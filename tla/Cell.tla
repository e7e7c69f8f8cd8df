---------------------------------- MODULE Cell ----------------------------------
(***************************************************************************)
(* The stable Cell (src/cell.rs): a value kept in a memory after a header, *)
(* with a copy of it in the Cell itself.  The operators take a memory and  *)
(* the range of its pages that the Cell has.                               *)
(***************************************************************************)
EXTENDS RestrictedMemory

CONSTANTS
  CellValue,
  CellBytes,     \* to_bytes: the units that encode each value
  NoCell         \* no value: an encoding that is none, or no Cell

ASSUME CellAssumption ==
  /\ DOMAIN CellBytes = CellValue
  /\ \A v \in CellValue : CellBytes[v] \in Seq(Unit)
  /\ \A v, w \in CellValue : CellBytes[v] = CellBytes[w] => v = w

SCL == 101                    \* MAGIC
CELL_HEADER == 3              \* HEADER_V1_SIZE: magic, version and length
LAYOUT_VERSION == 1

(* The memory is grown first, if it has to be, so that the writes do not   *)
(* fail.                                                                   *)
flush_value(m, r, v) ==
  LET bytes == CellBytes[v]
      pages == size(m, r)
      more == Len(bytes) + CELL_HEADER > pages * PageSize \/ pages = 0
      g == grow(m, r, (Len(bytes) + CELL_HEADER + PageSize - pages * PageSize - 1) \div PageSize)
      Flushed(n) ==
        write_in(write_in(write_in(write_in(n, r, 0, <<SCL>>), r, 1, <<LAYOUT_VERSION>>),
                          r, 2, <<Len(bytes)>>), r, CELL_HEADER, bytes)
  IN IF more /\ g.ret < 0 THEN Failed(m)
     ELSE Flushed(IF more THEN g.mem ELSE m)

(* read_value: the value whose encoding is in the memory. *)
read_value(m, r) ==
  LET bytes == read(m, r, CELL_HEADER, read(m, r, 2, 1)[1])
  IN IF \E v \in CellValue : CellBytes[v] = bytes
     THEN CHOOSE v \in CellValue : CellBytes[v] = bytes ELSE NoCell

HasCell(m, r) == size(m, r) > 0 /\ read(m, r, 0, 1) = <<SCL>>

(* init: the memory with the Cell, and the value of the Cell. *)
cell_init(m, r, default) ==
  IF ~HasCell(m, r) THEN [mem |-> flush_value(m, r, default), value |-> default]
  ELSE IF read(m, r, 1, 1) # <<LAYOUT_VERSION>> THEN [mem |-> Failed(m), value |-> NoCell]
  ELSE [mem |-> m, value |-> read_value(m, r)]

===============================================================================
