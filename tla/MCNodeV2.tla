-------------------------------- MODULE MCNodeV2 --------------------------------
EXTENDS NodeV2

CONSTANTS small, large

MCKeySize == [k \in Key |-> IF k = 2 THEN 2 ELSE 1]
MCValueSize == [v \in Value |-> IF v = small THEN 0 ELSE 3]
MCInserted == [key : Key, value : {large}] \cup [key : {1}, value : {small}]

(* The state up to the choice of addresses, the rests of old data after    *)
(* the end of a node, and the value returned last, none of which an        *)
(* operation depends on.  The number of pages tells apart memories with    *)
(* pages outside all nodes, and the chains those where a copy does not     *)
(* know the pages in memory.                                               *)
UpToAddresses ==
  LET saved(a) == LET chain == read_overflows(memory, a)
                  IN <<Stored[a], Len(chain), chain = OverflowsOf(a)>>
  IN <<Cardinality(DOMAIN memory), Cardinality(nodes \cup DOMAIN open),
       {<<IF a \in nodes THEN saved(a) ELSE <<>>,
          IF a \in DOMAIN open THEN [open[a] EXCEPT !.overflows = Len(@)] ELSE <<>>>>
        : a \in nodes \cup DOMAIN open}>>

================================================================================
