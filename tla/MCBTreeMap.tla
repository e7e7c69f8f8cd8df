------------------------------ MODULE MCBTreeMap ------------------------------
EXTENDS BTreeMap

CONSTANTS MaxKey, Twice    \* the keys, and those inserted with a second value

MCKey == 1..MaxKey
MCInserted == [key : MCKey, value : {0}] \cup [key : Twice, value : {1}]

(* The state up to the choice of addresses and the value returned last,    *)
(* neither of which an operation depends on.  The number of nodes tells    *)
(* apart memories with nodes outside the tree.                             *)
Shape(a) ==
  LET shape[x \in DOMAIN nodes] ==
        <<nodes[x].node_type, nodes[x].entries,
          [i \in DOMAIN nodes[x].children |-> shape[nodes[x].children[i]]]>>
  IN IF a \in DOMAIN nodes THEN shape[a] ELSE <<a>>

ViewOfCall ==
  IF call = Idle THEN <<>>
  ELSE <<call.of, nodes[call.at].entries,
         IF call.op = "insert" THEN <<>>
         ELSE <<call.key,
                [j \in DOMAIN call.swaps |->
                   <<call.swaps[j].node.entries, call.swaps[j].idx, call.swaps[j].entry>>]>>>>

UpToAddresses ==
  <<Shape(root_addr), Shape(header.root_addr), length, header.length,
    Cardinality(DOMAIN nodes), ViewOfCall>>

===============================================================================
