------------------------------ MODULE RepLogSync ------------------------------
(***************************************************************************)
(* A client that replicates a RepLogMap through its query calls: full      *)
(* snapshots page by page, then incremental changes from a cursor.  The    *)
(* client is not in the repository; it follows the pattern of              *)
(* docs/src/replog-spec.md, known limitation 3, which goes on from the     *)
(* sequence number of the FIRST page, or, when CatchUpFromFirst is FALSE,  *)
(* the full sync of docs/src/replog-integration.md, which goes on from the *)
(* number of the LAST page.                                                *)
(*                                                                         *)
(* A query is answered from the state at one moment and the answer arrives *)
(* later, or never: the map may be changed, cleared and compacted in       *)
(* between.                                                                *)
(***************************************************************************)
EXTENDS RepLog

CONSTANTS
  Limit,              \* page size of both queries
  MaxLost,            \* bound: the number of answers lost
  CatchUpFromFirst    \* TRUE for the pattern of replog-spec.md

ASSUME LimitAssumption == Limit \in Nat \ {0} /\ MaxSeq + Limit =< MaxU64
ASSUME LostAssumption == MaxLost \in Nat
ASSUME PatternAssumption == CatchUpFromFirst \in BOOLEAN

VARIABLES
  rows,        \* the local table
  mode,        \* "snapshot" during a full sync, then "live"
  after,       \* last key received in the full sync, 0 for none
  cursor,      \* sequence number to go on from, -1 while not known
  response,    \* the answer under way
  lost         \* number of answers lost

clientVars == <<rows, mode, after, cursor, response, lost>>
vars == <<serverVars, clientVars>>

Nothing == [answer |-> "nothing"]

StartFullSync ==
  /\ rows' = {}
  /\ mode' = "snapshot"
  /\ after' = 0
  /\ cursor' = -1

SyncInit ==
  /\ Init
  /\ rows = {}
  /\ mode = "snapshot"
  /\ after = 0
  /\ cursor = -1
  /\ response = Nothing
  /\ lost = 0

AskPage ==
  /\ response = Nothing
  /\ mode = "snapshot"
  /\ \E taken \in SUBSET DOMAIN key_index :
       /\ TakenAfter(after, Limit, taken)
       /\ response' = SnapshotPage(taken)
  /\ UNCHANGED <<rows, mode, after, cursor, lost>>

AskChanges ==
  /\ response = Nothing
  /\ mode = "live"
  /\ response' = ChangesWithValuesSince(cursor, Limit)
  /\ UNCHANGED <<rows, mode, after, cursor, lost>>

Lose ==
  /\ response # Nothing
  /\ lost < MaxLost
  /\ lost' = lost + 1
  /\ response' = Nothing
  /\ UNCHANGED <<rows, mode, after, cursor>>

(* Upserts of distinct rows, by entry id. *)
Merge(table, new) ==
  {r \in table : \A n \in new : n.entry_id # r.entry_id} \cup new

(* Applying changes in order leaves what the last change of each id says. *)
Apply(table, entries) ==
  LET Final(i) == \A j \in 1..Len(entries) :
                    j > i => entries[j].entry_id # entries[i].entry_id
      upserts == {i \in 1..Len(entries) : entries[i].kind = "Upsert" /\ Final(i)}
  IN {r \in table : \A i \in 1..Len(entries) : entries[i].entry_id # r.entry_id}
     \cup {[entry_id |-> entries[i].entry_id, key |-> entries[i].key,
            value |-> entries[i].value] : i \in upserts}

ReceivePage ==
  /\ response.answer = "page"
  /\ rows' = Merge(rows, response.rows)
  /\ cursor' = IF CatchUpFromFirst /\ cursor # -1 THEN cursor ELSE response.seq
  /\ \/ /\ response.len < Limit
        /\ mode' = "live"
        /\ UNCHANGED after
     \/ /\ response.len >= Limit
        /\ \E last \in response.rows :
             /\ \A r \in response.rows : r.key =< last.key
             /\ after' = last.key
        /\ UNCHANGED mode
  /\ response' = Nothing
  /\ UNCHANGED lost

ReceiveChanges ==
  /\ response.answer = "changes"
  /\ rows' = Apply(rows, response.entries)
  /\ cursor' = response.next_seq
  /\ response' = Nothing
  /\ UNCHANGED <<mode, after, lost>>

ReceiveResync ==
  /\ response.answer = "resync"
  /\ StartFullSync
  /\ response' = Nothing
  /\ UNCHANGED lost

Ask == AskPage \/ AskChanges
Receive == ReceivePage \/ ReceiveChanges \/ ReceiveResync

SyncNext ==
  \/ ServerNext /\ UNCHANGED clientVars
  \/ (Ask \/ Receive \/ Lose) /\ UNCHANGED serverVars

SyncSpec == SyncInit /\ [][SyncNext]_vars

(* The client polls for ever and an answer that is not lost arrives. *)
FairSyncSpec ==
  SyncSpec /\ WF_vars((Ask \/ Receive) /\ UNCHANGED serverVars)

-------------------------------------------------------------------------------
SyncTypeOK ==
  /\ TypeOK
  /\ rows \subseteq [entry_id : Nat, key : Key, value : Value \cup {NoValue}]
  /\ mode \in {"snapshot", "live"}
  /\ after \in Key \cup {0}
  /\ cursor \in Nat \cup {-1}
  /\ response.answer \in {"nothing", "page", "changes", "resync"}
  /\ lost \in 0..MaxLost

(* The changelog has a change of entry id at sequence number s or later. *)
Pending(id, s) ==
  \E i \in 1..Len(changelog) :
    i > s - counters.epoch_start /\ changelog[i].entry_id = id

(* The table agrees with the map on the keys in K, except for rows that    *)
(* changes from s on will repair; nothing is claimed once the changelog no *)
(* longer reaches back to s, because the client will be told to start      *)
(* again.                                                                  *)
AgreesFrom(table, s, K) ==
  s >= counters.epoch_start =>
    /\ s =< current_seq
    /\ \A r \in table : r \notin Rows => Pending(r.entry_id, s)
    /\ \A r \in Rows : r.key \in K /\ r \notin table => Pending(r.entry_id, s)

UpTo(m) == {k \in Key : k =< m}

(* Where a full sync stands, with or without the page under way. *)
PageCursor == IF cursor # -1 THEN cursor ELSE response.seq

(* Every difference between the replica and the map is a change the client *)
(* has yet to fetch, at every moment: between two pages of a snapshot,     *)
(* with an answer under way, and between two polls.                        *)
DifferencesArePending ==
  /\ mode = "live" => cursor # -1 /\ AgreesFrom(rows, cursor, Key)
  /\ mode = "snapshot" /\ cursor = -1 => rows = {} /\ after = 0
  /\ mode = "snapshot" /\ cursor # -1 => AgreesFrom(rows, cursor, UpTo(after))
  /\ mode = "snapshot" => \A r \in rows : r.key =< after
  /\ response.answer = "changes" =>
       AgreesFrom(Apply(rows, response.entries), response.next_seq, Key)
  /\ response.answer = "page" =>
       AgreesFrom(Merge(rows, response.rows), PageCursor,
                  {k \in Key : \/ response.len < Limit
                               \/ \E r \in response.rows : k =< r.key})

(* A client whose cursor is the current sequence number has the map. *)
CaughtUpMeansEqual ==
  mode = "live" /\ cursor = current_seq => rows = Rows

(* Once the map stops changing, the client ends up with its contents, for  *)
(* ever, whatever was lost, compacted or cleared before.                   *)
Converges == <>[](mode = "live" /\ rows = Rows)

===============================================================================
