--------------------------------- MODULE MCLog ---------------------------------
(* Log for TLC: an empty item, one of one byte and one of two. *)
EXTENDS Log

CONSTANTS a, b, c

Lengths == [x \in {a, b, c} |-> IF x = a THEN 0 ELSE IF x = b THEN 1 ELSE 2]

===============================================================================
