----------------------------- MODULE MCNodeLayouts -----------------------------
EXTENDS NodeLayouts

CONSTANTS v1, v2, v3

MCKeySize == [k \in Key |-> 2]
MCValueSize == [v \in Value |-> CASE v = v1 -> 0 [] v = v2 -> 1 [] v = v3 -> 2]

================================================================================
