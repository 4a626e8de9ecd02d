---------------------------- MODULE MessageBuffer ----------------------------
(***************************************************************************)
(* The producer's SQLite buffer (components/producer/backend/app/buffer.py)*)
(* as operators on one table.  A message is its generation number: the     *)
(* produce loop inserts messages in the order it generates them, so the    *)
(* `created_at` order of the rows is the order of the numbers.             *)
(*                                                                         *)
(* A table maps each message to its row:                                   *)
(*   "none"     no row (never inserted, evicted or housekept)              *)
(*   "pending"  sent = 0                                                   *)
(*   "sent"     sent = 1                                                   *)
(***************************************************************************)
EXTENDS Naturals, FiniteSets

CONSTANTS
  MaxMessages,  \* bound: messages generated over the whole behaviour
  BufferMax,    \* settings.BUFFER_MAX_SIZE
  BatchLimit    \* the limit that _flush_buffer passes to get_pending

ASSUME BoundsAssumption ==
  /\ MaxMessages \in Nat
  /\ BufferMax \in Nat \ {0}
  /\ BatchLimit \in Nat \ {0}

Msg == 1..MaxMessages

RowState == {"none", "pending", "sent"}

Table == [Msg -> RowState]

EmptyTable == [m \in Msg |-> "none"]

\* SELECT ... WHERE sent = 0
Pending(t) == {m \in Msg : t[m] = "pending"}

\* ORDER BY created_at ASC LIMIT 1
Oldest(S) == CHOOSE m \in S : \A k \in S : m <= k

\* Seeded fault: the limit is off by one.
IsFullOffByOne(t) == Cardinality(Pending(t)) > BufferMax

\* count_pending() >= BUFFER_MAX_SIZE, the test that add() makes first.
IsFull(t) == Cardinality(Pending(t)) >= BufferMax

\* The rows that add()'s DELETE removes: the oldest pending one, if any.
Victims(t) == IF Pending(t) = {} THEN {} ELSE {Oldest(Pending(t))}

\* Seeded fault: a soft delete.
EvictFlags(t) == [m \in Msg |-> IF m \in Victims(t) THEN "evicted" ELSE t[m]]

Evict(t) == [m \in Msg |-> IF m \in Victims(t) THEN "none" ELSE t[m]]

\* INSERT OR IGNORE ... sent = 0
Insert(t, m) == IF t[m] = "none" THEN [t EXCEPT ![m] = "pending"] ELSE t

\* UPDATE ... SET sent = 1: a no-op when the row is gone.
MarkSent(t, m) == IF t[m] = "none" THEN t ELSE [t EXCEPT ![m] = "sent"]

\* get_pending(limit): the oldest rows not yet sent.
GetPending(t) ==
  {m \in Pending(t) : Cardinality({k \in Pending(t) : k < m}) < BatchLimit}

\* Seeded fault: the DELETE forgets `sent = 1`.
CleanupAll(t, k) == [m \in Msg |-> IF m <= k THEN "none" ELSE t[m]]

\* cleanup_sent(): the sent rows created before a cutoff (here: up to k).
CleanupSent(t, k) ==
  [m \in Msg |-> IF t[m] = "sent" /\ m <= k THEN "none" ELSE t[m]]
==============================================================================
