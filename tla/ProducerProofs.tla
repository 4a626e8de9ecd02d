--------------------------- MODULE ProducerProofs ---------------------------
(***************************************************************************)
(* The producer loses nothing silently, for every number of messages,      *)
(* every buffer and batch size, any number of crashes, and whether or not  *)
(* the database fails.                                                     *)
(***************************************************************************)
EXTENDS Producer, FiniteSetTheorems, WellFoundedInduction, TLAPS

----------------------------------------------------------------------------
(* The buffer's SQL statements, for every table and size of the buffer.    *)

Less == {x \in Nat \X Nat : x[1] < x[2]}

\* The order of the naturals is well-founded.
LEMMA LessWellFounded == IsWellFoundedOn(Less, Nat)
  BY NatLessThanWellFounded DEF OpToRel, Less

\* Every non-empty set of naturals has a least element.
LEMMA LeastElement ==
  ASSUME NEW S \in SUBSET Nat, S # {}
  PROVE  \E m \in S : \A k \in S : m <= k
<1>1. PICK x \in S : \A y \in S : ~ (<<y, x>> \in Less)
  BY LessWellFounded, WFMin
<1>2. \A a, b \in Nat : a < b => <<a, b>> \in Less
  BY DEF Less
<1>3. ASSUME NEW y \in S PROVE x <= y
  <2>1. x \in Nat /\ y \in Nat
    OBVIOUS
  <2>2. ~ (y < x)
    BY <1>1, <1>2, <2>1
  <2> QED BY <2>1, <2>2
<1> QED BY <1>3

\* ORDER BY created_at LIMIT 1 finds a row whenever there is one.
LEMMA OldestInSet ==
  ASSUME NEW S \in SUBSET Msg, S # {}
  PROVE  Oldest(S) \in S
<1>1. \E m \in S : \A k \in S : m <= k
  BY LeastElement DEF Msg
<1> QED BY <1>1 DEF Oldest

\* The rows an eviction removes are pending rows.
LEMMA VictimsPending ==
  ASSUME NEW t
  PROVE  Victims(t) \subseteq Pending(t)
  BY OldestInSet DEF Victims, Pending

\* Each statement maps tables to tables.
LEMMA TableOperations ==
  ASSUME NEW t \in Table, NEW m \in Msg
  PROVE  /\ Evict(t) \in Table
         /\ Insert(t, m) \in Table
         /\ MarkSent(t, m) \in Table
         /\ CleanupSent(t, m) \in Table
  BY DEF Table, RowState, Evict, Insert, MarkSent, CleanupSent

\* The pending rows of a table are finitely many.
LEMMA PendingFinite ==
  ASSUME NEW t
  PROVE  IsFiniteSet(Pending(t)) /\ Cardinality(Pending(t)) \in Nat
<1>1. IsFiniteSet(Msg)
  BY FS_Interval, BoundsAssumption DEF Msg
<1>2. Pending(t) \in SUBSET Msg
  BY DEF Pending
<1> QED BY <1>1, <1>2, FS_Subset, FS_CardinalityType

\* A statement that makes no row pending does not raise the count.
LEMMA FewerPending ==
  ASSUME NEW t, NEW u, Pending(u) \subseteq Pending(t)
  PROVE  Cardinality(Pending(u)) <= Cardinality(Pending(t))
  BY PendingFinite, FS_Subset

\* MarkSent and CleanupSent make no row pending.
LEMMA MarkAndCleanupPending ==
  ASSUME NEW t \in Table, NEW m \in Msg
  PROVE  /\ Cardinality(Pending(MarkSent(t, m))) <= Cardinality(Pending(t))
         /\ Cardinality(Pending(CleanupSent(t, m))) <= Cardinality(Pending(t))
<1>1. Pending(MarkSent(t, m)) \subseteq Pending(t)
  BY DEF Pending, MarkSent, Table, RowState
<1>2. Pending(CleanupSent(t, m)) \subseteq Pending(t)
  BY DEF Pending, CleanupSent, Table, RowState
<1> QED BY <1>1, <1>2, FewerPending

\* The INSERT adds at most one pending row.
LEMMA InsertPending ==
  ASSUME NEW t \in Table, NEW m \in Msg
  PROVE  Cardinality(Pending(Insert(t, m))) <= Cardinality(Pending(t)) + 1
<1>1. Pending(Insert(t, m)) \subseteq Pending(t) \union {m}
  BY DEF Pending, Insert, Table, RowState
<1>2. /\ IsFiniteSet(Pending(t) \union {m})
      /\ Cardinality(Pending(t) \union {m}) <= Cardinality(Pending(t)) + 1
  <2>1. IsFiniteSet(Pending(t)) /\ Cardinality(Pending(t)) \in Nat
    BY PendingFinite
  <2>2. /\ IsFiniteSet(Pending(t) \union {m})
        /\ Cardinality(Pending(t) \union {m}) =
             IF m \in Pending(t) THEN Cardinality(Pending(t))
                                 ELSE Cardinality(Pending(t)) + 1
    BY <2>1, FS_AddElement, Zenon
  <2> QED BY <2>1, <2>2
<1>3. Cardinality(Pending(Insert(t, m))) <= Cardinality(Pending(t) \union {m})
  BY <1>1, <1>2, FS_Subset
<1>4. /\ Cardinality(Pending(Insert(t, m))) \in Nat
      /\ Cardinality(Pending(t)) \in Nat
      /\ Cardinality(Pending(t) \union {m}) \in Nat
  BY <1>2, PendingFinite, FS_CardinalityType
<1> QED BY <1>2, <1>3, <1>4

\* The DELETE makes room: to a table within a limit one row can be added.
LEMMA EvictMakesRoom ==
  ASSUME NEW t \in Table, NEW limit \in Nat \ {0}, Cardinality(Pending(t)) <= limit
  PROVE  Cardinality(Pending(Evict(t))) < limit
<1>1. Pending(Evict(t)) = Pending(t) \ Victims(t)
  BY DEF Pending, Evict, Table, RowState
<1>2. CASE Pending(t) = {}
  <2>1. Cardinality(Pending(Evict(t))) = 0
    BY <1>1, <1>2, FS_EmptySet
  <2> QED BY <2>1
<1>3. CASE Pending(t) # {}
  <2>1. Victims(t) = {Oldest(Pending(t))} /\ Oldest(Pending(t)) \in Pending(t)
    BY <1>3, VictimsPending DEF Victims
  <2>2. Cardinality(Pending(Evict(t))) = Cardinality(Pending(t)) - 1
    <3>1. IsFiniteSet(Pending(t))
      BY PendingFinite
    <3>2. Cardinality(Pending(t) \ {Oldest(Pending(t))}) =
            IF Oldest(Pending(t)) \in Pending(t)
            THEN Cardinality(Pending(t)) - 1 ELSE Cardinality(Pending(t))
      BY <3>1, FS_RemoveElement, Zenon
    <3> QED BY <1>1, <2>1, <3>2
  <2> QED BY <2>2, PendingFinite
<1> QED BY <1>2, <1>3

----------------------------------------------------------------------------
(* The invariant.                                                          *)

USE DEF lossVars

\* A loop that is sending or marking has a message in its hands.
HasMessage ==
  /\ send.pc # "idle" => send.msg \in 1..generated
  /\ flush.pc \in {"send", "mark"} => flush.msg \in Msg

TypeInv == TypeOK /\ HasMessage

\* Rows appear only for generated messages, and that of the message being
\* added not before its INSERT.
FreshRows ==
  /\ \A m \in Msg : m > generated => rows[m] = "none" /\ disk[m] = "none"
  /\ send.pc \in {"count", "evict", "insert"} =>
       rows[send.msg] = "none" /\ disk[send.msg] = "none"

\* mark_sent is reached only with an acknowledged message.
MarksAcked ==
  /\ send.pc = "mark" => send.msg \in Published
  /\ flush.pc = "mark" => flush.msg \in Published

\* What the open transaction may have done to committed rows: a commit by any
\* loop, at any time, is safe.
SafeToCommit ==
  /\ \A m \in Msg :
       /\ disk[m] = "pending" => rows[m] = "pending" \/ m \in Published \union evicted
       /\ disk[m] = "sent" => rows[m] # "pending"
  /\ send.pc = "commit" =>
       rows[send.msg] = "pending" \/ send.msg \in Published \union evicted

\* The inductive invariant of the no-loss argument.
IInv == /\ TypeInv
        /\ FreshRows
        /\ MarksAcked
        /\ SentImpliesPublished
        /\ SafeToCommit
        /\ NoSilentLoss

----------------------------------------------------------------------------
\* Appending to the log publishes one message more.
LEMMA RangeOfAppend ==
  ASSUME NEW s \in Seq(Msg), NEW m \in Msg
  PROVE  {Append(s, m)[i] : i \in DOMAIN Append(s, m)}
           = {s[i] : i \in DOMAIN s} \union {m}
<1>1. /\ DOMAIN Append(s, m) = 1..Len(s) + 1
      /\ DOMAIN s = 1..Len(s)
      /\ Len(s) \in Nat
      /\ \A i \in 1..Len(s) : Append(s, m)[i] = s[i]
      /\ Append(s, m)[Len(s) + 1] = m
  OBVIOUS
<1>2. DOMAIN Append(s, m) = DOMAIN s \union {Len(s) + 1}
  BY <1>1
<1> QED BY <1>1, <1>2, Zenon

\* What the brokers do to the set of published messages.
LEMMA PublishedGrows ==
  ASSUME TypeInv, NEW s \in Loop, KafkaAppend(s)
  PROVE  /\ InFlight(s).msg \in Msg
         /\ log' \in Seq(Msg)
         /\ Published' = Published \union {InFlight(s).msg}
<1>1. InFlight(s).msg \in Msg
  BY BoundsAssumption DEF TypeInv, TypeOK, HasMessage, KafkaAppend, InFlight, Loop, Msg
<1>2. log' = Append(log, InFlight(s).msg) /\ log \in Seq(Msg)
  BY DEF KafkaAppend, TypeInv, TypeOK
<1> QED BY <1>1, <1>2, RangeOfAppend DEF Published

----------------------------------------------------------------------------
\* Type correctness.

\* The resting states of the two loops.
LEMMA IdleStates ==
  /\ SendIdle \in SendState /\ SendIdle.pc = "idle"
  /\ FlushIdle \in FlushState /\ FlushIdle.pc = "sleep"
  /\ [FlushIdle EXCEPT !.pc = "fetch"] \in FlushState
  /\ [FlushIdle EXCEPT !.pc = "fetch"].pc = "fetch"
<1>1. SendIdle \in SendState /\ SendIdle.pc = "idle"
  BY DEF SendIdle, SendState, SendPC, NoMsg
<1>2. /\ FlushIdle \in FlushState /\ FlushIdle.pc = "sleep"
      /\ [FlushIdle EXCEPT !.pc = "fetch"] \in FlushState
      /\ [FlushIdle EXCEPT !.pc = "fetch"].pc = "fetch"
  BY DEF FlushIdle, FlushState, FlushPC, NoMsg
<1> QED BY <1>1, <1>2

\* A loop that is not at rest holds a message.
LEMMA SendingMessage ==
  ASSUME TypeInv, send.pc # "idle"
  PROVE  send.msg \in Msg
  BY BoundsAssumption DEF TypeInv, TypeOK, HasMessage, Msg

\* The loops begin idle, with the buffer empty.
LEMMA TypeInit == Init => TypeInv
<1> SUFFICES ASSUME Init PROVE TypeInv
  OBVIOUS
<1>1. EmptyTable \in Table
  BY DEF EmptyTable, Table, RowState
<1>2. log \in Seq(Msg)
  BY DEF Init
<1>3. generated \in 0..MaxMessages /\ crashes \in 0..MaxCrashes
  BY BoundsAssumption, FaultsAssumption DEF Init
<1> QED BY <1>1, <1>2, <1>3, IdleStates DEF Init, TypeInv, TypeOK, HasMessage, Loop

\* Every step keeps the types, and a loop that has passed the sleep has a message.
LEMMA TypeStep == TypeInv /\ [Next]_vars => TypeInv'
<1> SUFFICES ASSUME TypeInv, [Next]_vars PROVE TypeInv'
  OBVIOUS
<1> USE DEF TypeInv, TypeOK, HasMessage, bufferVars, serviceVars, kafkaVars, historyVars
<1>1. CASE Generate
  <2>1. generated' \in 0..MaxMessages /\ generated + 1 \in Msg \intersect 1..generated'
    BY <1>1, BoundsAssumption DEF Generate, Msg
  <2> QED BY <1>1, <2>1 DEF Generate, SendState, SendPC
<1>2. CASE CountPending
  <2>1. \/ send' = [send EXCEPT !.pc = "evict"]
        \/ send' = [send EXCEPT !.pc = "insert"]
    BY <1>2 DEF CountPending
  <2>2. uncounted' \subseteq Msg
    BY <1>2, SendingMessage DEF CountPending
  <2> QED BY <1>2, <2>1, <2>2 DEF CountPending, SendState, SendPC
<1>3. CASE EvictOldest
  <2>1. rows' \in Table /\ evicted' \subseteq Msg
    BY <1>3, SendingMessage, TableOperations, VictimsPending DEF EvictOldest, Pending
  <2> QED BY <1>3, <2>1 DEF EvictOldest, SendState, SendPC
<1>4. CASE InsertRow
  <2>1. rows' \in Table
    BY <1>4, SendingMessage, TableOperations DEF InsertRow
  <2> QED BY <1>4, <2>1 DEF InsertRow, SendState, SendPC
<1>5. ASSUME send.pc \in {"evict", "insert", "commit"}, AfterAdd,
             disk' \in Table, unbuffered' \subseteq Msg, rows' = rows
      PROVE  TypeInv'
  <2>1. CASE connected
    BY <1>5, <2>1, SendingMessage DEF AfterAdd, CountSent, SendState, SendPC, Loop
  <2>2. CASE ~connected
    BY <1>5, <2>2, SendingMessage, IdleStates DEF AfterAdd, CountSent
  <2> QED BY <2>1, <2>2
<1>6. CASE CommitAdd
  BY <1>5, <1>6 DEF CommitAdd
<1>7. CASE AddFails
  BY <1>5, <1>7, SendingMessage DEF AddFails
<1>8. CASE SendAcked
  BY <1>8 DEF SendAcked, SendState, SendPC
<1>9. CASE MarkAfterSend
  <2>1. rows' \in Table /\ disk' \in Table
    BY <1>9, SendingMessage, TableOperations DEF MarkAfterSend
  <2> QED BY <1>9, <2>1, SendingMessage, IdleStates DEF MarkAfterSend, CountSent
<1>10. CASE MarkAfterSendFails
  <2>1. rows' \in Table
    BY <1>10, SendingMessage, TableOperations DEF MarkAfterSendFails
  <2> QED BY <1>10, <2>1, SendingMessage, IdleStates DEF MarkAfterSendFails
<1>11. CASE SendRefused
  BY <1>11, SendingMessage, IdleStates DEF SendRefused, CountSent
<1>12. CASE SendLinkError
  BY <1>12, SendingMessage, IdleStates DEF SendLinkError, CountSent
<1>13. CASE StartProducing
  BY <1>13 DEF StartProducing
<1>14. CASE StopProducing
  <2>1. QueuedOperation \in Table
    <3>1. CASE send.pc \in {"evict", "insert", "mark"}
      BY <3>1, SendingMessage, TableOperations DEF QueuedOperation
    <3>2. CASE send.pc \notin {"evict", "insert", "mark"}
      BY <3>2 DEF QueuedOperation
    <3> QED BY <3>1, <3>2
  <2>2. evicted' \subseteq Msg
    BY <1>14, VictimsPending DEF StopProducing, Pending
  <2> QED BY <1>14, <2>1, <2>2, IdleStates DEF StopProducing
<1>15. ASSUME NEW B \in SUBSET Msg, B # {}, NEW progress \in BOOLEAN,
              FlushSend(Oldest(B), B, progress),
              UNCHANGED <<bufferVars, serviceVars, connected, log, historyVars>>
       PROVE  TypeInv'
  <2>1. Oldest(B) \in Msg
    BY <1>15, OldestInSet
  <2>2. flush' \in FlushState /\ flush'.msg \in Msg
    BY <1>15, <2>1 DEF FlushSend, FlushState, FlushPC
  <2> QED BY <1>15, <2>2 DEF FlushSend, Loop
<1>16. CASE FlushFetch
  <2>1. GetPending(rows) \in SUBSET Msg
    BY DEF GetPending, Pending
  <2> QED BY <1>15, <1>16, <2>1 DEF FlushFetch
<1>17. CASE FlushNext
  <2>1. flush.batch \in SUBSET Msg /\ flush.progress \in BOOLEAN
    BY DEF FlushState
  <2> QED BY <1>15, <1>17, <2>1 DEF FlushNext
<1>18. CASE FlushAsk \/ FetchFails \/ FlushReturn
  BY <1>18, IdleStates DEF FlushAsk, FetchFails, FlushReturn
<1>19. CASE FlushAcked
  BY <1>19 DEF FlushAcked, FlushState, FlushPC
<1>20. CASE FlushMark
  <2>1. rows' \in Table /\ disk' \in Table
    BY <1>20, TableOperations DEF FlushMark
  <2>2. flush' \in FlushState /\ flush'.pc = "loop"
    BY <1>20 DEF FlushMark, FlushState, FlushPC
  <2> QED BY <1>20, <2>1, <2>2 DEF FlushMark
<1>21. CASE FlushMarkFails
  <2>1. rows' \in Table
    BY <1>21, TableOperations DEF FlushMarkFails
  <2> QED BY <1>21, <2>1, IdleStates DEF FlushMarkFails
<1>22. CASE FlushRefused
  BY <1>22 DEF FlushRefused, FlushState, FlushPC
<1>23. CASE FlushLinkError
  <2>1. flush' \in FlushState /\ flush'.pc \in {"loop", "sleep"}
    BY <1>23, IdleStates DEF FlushLinkError, FlushState, FlushPC
  <2> QED BY <1>23, <2>1 DEF FlushLinkError
<1>24. CASE Cleanup \/ CleanupCommit
  <2>1. rows' \in Table /\ disk' \in Table
    BY <1>24, TableOperations DEF Cleanup, CleanupCommit
  <2> QED BY <1>24, <2>1 DEF Cleanup, CleanupCommit
<1>25. ASSUME NEW s \in Loop, KafkaAppend(s) PROVE TypeInv'
  BY <1>25, PublishedGrows DEF KafkaAppend
<1>26. CASE LinkUp
  BY <1>26 DEF LinkUp
<1>27. CASE LinkDown
  BY <1>27 DEF LinkDown
<1>28. CASE Crash
  <2>1. crashes' \in 0..MaxCrashes
    BY <1>28, FaultsAssumption DEF Crash
  <2> QED BY <1>28, <2>1, IdleStates DEF Crash
<1>29. CASE UNCHANGED vars
  BY <1>29 DEF vars
<1> QED
  BY <1>1, <1>2, <1>3, <1>4, <1>6, <1>7, <1>8, <1>9, <1>10, <1>11, <1>12, <1>13,
     <1>14, <1>16, <1>17, <1>18, <1>19, <1>20, <1>21, <1>22, <1>23, <1>24, <1>25,
     <1>26, <1>27, <1>28, <1>29 DEF Next, ProduceStep, FlushStep

\* Every reachable state is well typed.
THEOREM TypeCorrect == Spec => []TypeOK
<1>1. TypeInv => TypeOK
  BY DEF TypeInv
<1> QED BY <1>1, TypeInit, TypeStep, PTL DEF Spec

----------------------------------------------------------------------------
\* No silent loss.

\* The part of the invariant that speaks of the table, the log and the
\* evictions, before and after a step of the produce loop that leaves the
\* database alone: it depends on the program counters only as listed.
LEMMA QuietProduceStep ==
  ASSUME IInv, TypeInv',
         UNCHANGED <<rows, disk, generated, evicted, log, flush>>,
         unbuffered \subseteq unbuffered',
         \A m \in HandedOver' : m \in HandedOver \/ m \in unbuffered',
         send'.pc \in {"count", "evict", "insert"} =>
           send'.msg = send.msg /\ send.pc \in {"count", "evict", "insert"},
         send'.pc = "mark" => send'.msg \in Published,
         send'.pc # "commit"
  PROVE  IInv'
<1>1. Published' = Published
  BY DEF Published
<1> QED BY <1>1 DEF IInv, FreshRows, MarksAcked, SentImpliesPublished, SafeToCommit,
                    NoSilentLoss

\* The same for the flush loop and the environment.
LEMMA QuietOtherStep ==
  ASSUME IInv, TypeInv',
         UNCHANGED <<rows, disk, generated, evicted, send, counted, unbuffered>>,
         Published \subseteq Published',
         flush'.pc = "mark" => flush'.msg \in Published'
  PROVE  IInv'
<1>1. HandedOver' = HandedOver
  BY DEF HandedOver
<1> QED BY <1>1 DEF IInv, FreshRows, MarksAcked, SentImpliesPublished, SafeToCommit,
                    NoSilentLoss

\* There is nothing to lose at the beginning.
LEMMA InvInit == Init => IInv
<1> SUFFICES ASSUME Init PROVE IInv
  OBVIOUS
<1>1. /\ \A m \in Msg : rows[m] = "none" /\ disk[m] = "none"
      /\ send.pc = "idle" /\ flush.pc = "sleep" /\ counted = {}
  BY IdleStates DEF Init, EmptyTable
<1> QED BY <1>1, TypeInit DEF IInv, FreshRows, MarksAcked, SentImpliesPublished,
                              SafeToCommit, NoSilentLoss, HandedOver

\* A message some loop marks sent is a published one.
LEMMA MarkPreserves ==
  ASSUME IInv, NEW k \in Msg, k \in Published
  PROVE  LET t == MarkSent(rows, k) IN
         /\ \A m \in Msg : m # k => t[m] = rows[m]
         /\ t[k] = "none" <=> rows[k] = "none"
         /\ t[k] # "pending"
  BY DEF MarkSent, IInv, TypeInv, TypeOK, Table, RowState

\* Every step keeps the invariant: a commit by either loop is safe at any time.
LEMMA InvStep == IInv /\ [Next]_vars => IInv'
<1> SUFFICES ASSUME IInv, [Next]_vars PROVE IInv'
  OBVIOUS
<1>0. TypeInv /\ TypeInv'
  BY TypeStep DEF IInv
<1>1. CASE Generate
  <2>1. Published' = Published
    BY <1>1 DEF Generate, Published, kafkaVars
  <2>2. HandedOver' = HandedOver
    BY <1>1 DEF Generate, HandedOver, historyVars
  <2>3. generated + 1 \in Msg /\ \A m \in Msg : m > generated + 1 => m > generated
    BY <1>0, <1>1, BoundsAssumption DEF Generate, TypeInv, TypeOK, Msg
  <2>4. rows[generated + 1] = "none" /\ disk[generated + 1] = "none"
    BY <1>0, <2>3 DEF IInv, FreshRows, TypeInv, TypeOK
  <2> QED BY <1>0, <1>1, <2>1, <2>2, <2>3, <2>4
          DEF IInv, Generate, FreshRows, MarksAcked, SentImpliesPublished,
              SafeToCommit, NoSilentLoss, bufferVars, historyVars
<1>2. CASE CountPending
  <2>1. send' = [send EXCEPT !.pc = "evict"] \/ send' = [send EXCEPT !.pc = "insert"]
    BY <1>2 DEF CountPending
  <2>2. send'.pc \in {"evict", "insert"} /\ send'.msg = send.msg
    BY <1>0, <2>1 DEF TypeInv, TypeOK, SendState
  <2> QED BY <1>0, <1>2, <2>2, QuietProduceStep
          DEF CountPending, HandedOver, bufferVars, kafkaVars, historyVars
<1>3. CASE EvictOldest
  <2>1. Published' = Published
    BY <1>3 DEF EvictOldest, Published, kafkaVars
  <2>2. HandedOver' = HandedOver
    BY <1>0, <1>3 DEF EvictOldest, HandedOver, TypeInv, TypeOK, SendState
  <2>3. \A m \in Msg : rows'[m] = IF m \in Victims(rows) THEN "none" ELSE rows[m]
    BY <1>3 DEF EvictOldest, Evict
  <2>4. send'.pc = "insert" /\ send'.msg = send.msg /\ send.msg \in Msg
    BY <1>0, <1>3, SendingMessage DEF EvictOldest, TypeInv, TypeOK, SendState
  <2> QED BY <1>0, <1>3, <2>1, <2>2, <2>3, <2>4
          DEF IInv, EvictOldest, FreshRows, MarksAcked, SentImpliesPublished,
              SafeToCommit, NoSilentLoss
<1>4. CASE InsertRow
  <2>1. Published' = Published
    BY <1>4 DEF InsertRow, Published, kafkaVars
  <2>2. HandedOver' = HandedOver
    BY <1>0, <1>4 DEF InsertRow, HandedOver, historyVars, TypeInv, TypeOK, SendState
  <2>3. send'.pc = "commit" /\ send'.msg = send.msg /\ send.msg \in Msg
        /\ send.msg \in 1..generated
    BY <1>0, <1>4, SendingMessage
    DEF InsertRow, TypeInv, TypeOK, HasMessage, SendState
  <2>4. \A m \in Msg : rows'[m] = IF m = send.msg THEN "pending" ELSE rows[m]
    BY <1>0, <1>4, <2>3
    DEF InsertRow, Insert, IInv, FreshRows, TypeInv, TypeOK, Table
  <2>5. disk' = disk /\ disk[send.msg] = "none" /\ UNCHANGED <<generated, flush, historyVars>>
    BY <1>4 DEF InsertRow, IInv, FreshRows
  <2>6. \A m \in Msg : m > generated => m # send.msg
    BY <1>0, <2>3 DEF TypeInv, TypeOK, Msg
  <2> QED BY <1>0, <2>1, <2>2, <2>3, <2>4, <2>5, <2>6
          DEF IInv, FreshRows, MarksAcked, SentImpliesPublished,
              SafeToCommit, NoSilentLoss, historyVars
<1>5. CASE CommitAdd
  <2>1. Published' = Published /\ send.msg \in Msg
    BY <1>0, <1>5, SendingMessage DEF CommitAdd, AfterAdd, Published
  <2>2. /\ send'.pc \in {"send", "idle"}
        /\ HandedOver' \subseteq HandedOver \union {send.msg}
        /\ UNCHANGED <<generated, flush, evicted, rows, unbuffered>>
        /\ disk' = rows
    BY <1>0, <1>5, IdleStates
    DEF CommitAdd, AfterAdd, CountSent, HandedOver, TypeInv, TypeOK, SendState
  <2>3. \A m \in HandedOver' :
          rows[m] = "pending" \/ m \in Published \/ m \in evicted \union unbuffered
    BY <1>0, <1>5, <2>1, <2>2
    DEF CommitAdd, IInv, SafeToCommit, NoSilentLoss, HandedOver, TypeInv, TypeOK
  <2> QED BY <1>0, <2>1, <2>2, <2>3
          DEF IInv, FreshRows, MarksAcked, SentImpliesPublished, SafeToCommit, NoSilentLoss
<1>6. CASE AddFails
  <2>1. /\ send'.pc \in {"send", "idle"}
        /\ HandedOver' \subseteq HandedOver \union {send.msg}
        /\ UNCHANGED <<rows, disk, generated, evicted, log, flush>>
        /\ unbuffered' = unbuffered \union {send.msg}
    BY <1>0, <1>6, IdleStates
    DEF AddFails, AfterAdd, CountSent, HandedOver, TypeInv, TypeOK, SendState, bufferVars
  <2> QED BY <1>0, <2>1, QuietProduceStep
<1>7. CASE SendAcked
  <2>1. send'.pc = "mark" /\ send'.msg = send.msg
    BY <1>0, <1>7 DEF SendAcked, TypeInv, TypeOK, SendState
  <2> QED BY <1>0, <1>7, <2>1, QuietProduceStep
          DEF SendAcked, HandedOver, bufferVars, kafkaVars, historyVars
<1>8. CASE MarkAfterSend
  <2>1. send.msg \in Msg /\ send.msg \in Published /\ Published' = Published
    BY <1>0, <1>8, SendingMessage DEF MarkAfterSend, IInv, MarksAcked, Published, kafkaVars
  <2>2. /\ send'.pc = "idle" /\ HandedOver' = HandedOver
        /\ rows' = MarkSent(rows, send.msg) /\ disk' = rows'
        /\ UNCHANGED <<generated, flush, evicted, unbuffered>>
    BY <1>8, IdleStates DEF MarkAfterSend, CountSent, HandedOver
  <2> QED BY <1>0, <2>1, <2>2, MarkPreserves
          DEF IInv, FreshRows, MarksAcked, SentImpliesPublished, SafeToCommit,
              NoSilentLoss, HandedOver, TypeInv, TypeOK
<1>9. CASE MarkAfterSendFails
  <2>1. send.msg \in Msg /\ send.msg \in Published /\ Published' = Published
    BY <1>0, <1>9, SendingMessage
    DEF MarkAfterSendFails, IInv, MarksAcked, Published, kafkaVars
  <2>2. /\ send'.pc = "idle" /\ HandedOver' \subseteq HandedOver
        /\ rows' \in {rows, MarkSent(rows, send.msg)}
        /\ UNCHANGED <<disk, generated, flush, evicted, unbuffered>>
    BY <1>9, IdleStates DEF MarkAfterSendFails, HandedOver, historyVars
  <2> QED BY <1>0, <2>1, <2>2, MarkPreserves
          DEF IInv, FreshRows, MarksAcked, SentImpliesPublished, SafeToCommit,
              NoSilentLoss, HandedOver, TypeInv, TypeOK
<1>10. CASE SendRefused
  BY <1>0, <1>10, IdleStates, QuietProduceStep
  DEF SendRefused, CountSent, HandedOver, bufferVars, kafkaVars
<1>11. CASE SendLinkError
  BY <1>0, <1>11, IdleStates, QuietProduceStep
  DEF SendLinkError, CountSent, HandedOver, bufferVars
<1>12. CASE StartProducing
  <2>1. Published' = Published
    BY <1>12 DEF StartProducing, Published, kafkaVars
  <2> QED BY <1>0, <1>12, <2>1, QuietOtherStep
          DEF StartProducing, bufferVars, historyVars, IInv, MarksAcked
<1>13. CASE StopProducing
  <2>1. Published' = Published
    BY <1>13 DEF StopProducing, Published, kafkaVars
  <2>2. send'.pc = "idle" /\ HandedOver' \subseteq HandedOver
        /\ UNCHANGED <<generated, flush, unbuffered>>
    BY <1>13, IdleStates DEF StopProducing, HandedOver
  <2>3. CASE send.pc = "evict"
    <3>1. \A m \in Msg : rows'[m] = IF m \in Victims(rows) THEN "none" ELSE rows[m]
      BY <1>13, <2>3 DEF StopProducing, QueuedOperation, Evict
    <3>2. disk' = disk /\ evicted' = evicted \union Victims(rows)
      BY <1>13, <2>3 DEF StopProducing
    <3> QED BY <1>0, <2>1, <2>2, <3>1, <3>2
            DEF IInv, FreshRows, MarksAcked, SentImpliesPublished, SafeToCommit,
                NoSilentLoss
  <2>4. CASE send.pc = "insert"
    <3>1. send.msg \in Msg /\ send.msg \in 1..generated
      BY <1>0, <2>4, SendingMessage DEF TypeInv, HasMessage
    <3>2. \A m \in Msg : rows'[m] = IF m = send.msg THEN "pending" ELSE rows[m]
      BY <1>0, <1>13, <2>4, <3>1
      DEF StopProducing, QueuedOperation, Insert, IInv, FreshRows, TypeInv, TypeOK, Table
    <3>3. disk' = disk /\ evicted' = evicted /\ disk[send.msg] = "none"
      BY <1>13, <2>4 DEF StopProducing, IInv, FreshRows
    <3>4. \A m \in Msg : m > generated => m # send.msg
      BY <1>0, <3>1 DEF TypeInv, TypeOK, Msg
    <3> QED BY <1>0, <2>1, <2>2, <3>1, <3>2, <3>3, <3>4
            DEF IInv, FreshRows, MarksAcked, SentImpliesPublished, SafeToCommit,
                NoSilentLoss
  <2>5. CASE send.pc = "mark"
    <3>1. send.msg \in Msg /\ send.msg \in Published
      BY <1>0, <2>5, SendingMessage DEF IInv, MarksAcked
    <3>2. rows' = MarkSent(rows, send.msg) /\ disk' = disk /\ evicted' = evicted
      BY <1>13, <2>5 DEF StopProducing, QueuedOperation
    <3> QED BY <1>0, <2>1, <2>2, <3>1, <3>2, MarkPreserves
            DEF IInv, FreshRows, MarksAcked, SentImpliesPublished, SafeToCommit,
                NoSilentLoss
  <2>6. CASE send.pc \notin {"evict", "insert", "mark"}
    <3>1. rows' = rows /\ evicted' = evicted /\ (disk' = rows \/ disk' = disk)
      BY <1>13, <2>6 DEF StopProducing, QueuedOperation
    <3>2. HandedOver' \subseteq Msg
      BY <1>0, <2>2 DEF HandedOver, TypeInv, TypeOK
    <3> QED BY <1>0, <2>1, <2>2, <3>1, <3>2
            DEF IInv, FreshRows, MarksAcked, SentImpliesPublished, SafeToCommit,
                NoSilentLoss
  <2> QED BY <2>3, <2>4, <2>5, <2>6
<1>14. ASSUME UNCHANGED <<bufferVars, serviceVars, log, historyVars>>,
              flush'.pc = "mark" => flush.pc \in {"send", "mark"} /\ flush'.msg = flush.msg
                                    /\ flush.msg \in Published
       PROVE  IInv'
  <2>1. Published' = Published
    BY <1>14 DEF Published
  <2> QED BY <1>0, <1>14, <2>1, QuietOtherStep DEF bufferVars, serviceVars, historyVars
<1>15. CASE FlushFetch
  BY <1>14, <1>15 DEF FlushFetch, FlushSend
<1>16. CASE FlushNext
  BY <1>14, <1>16 DEF FlushNext, FlushSend
<1>17. CASE FlushAsk \/ FetchFails \/ FlushReturn
  <2>1. flush'.pc \in {"fetch", "sleep"}
    BY <1>17, IdleStates DEF FlushAsk, FetchFails, FlushReturn
  <2> QED BY <1>14, <1>17, <2>1 DEF FlushAsk, FetchFails, FlushReturn, kafkaVars
<1>18. CASE FlushAcked
  <2>1. flush'.msg = flush.msg
    BY <1>0, <1>18 DEF FlushAcked, TypeInv, TypeOK, FlushState
  <2> QED BY <1>14, <1>18, <2>1 DEF FlushAcked, kafkaVars
<1>19. CASE FlushMark
  <2>1. /\ flush.msg \in Msg /\ flush.msg \in Published /\ Published' = Published
        /\ HandedOver' = HandedOver /\ flush'.pc = "loop"
    BY <1>0, <1>19
    DEF FlushMark, IInv, MarksAcked, Published, kafkaVars, HandedOver, serviceVars,
        historyVars, TypeInv, HasMessage, TypeOK, FlushState
  <2>2. /\ rows' = MarkSent(rows, flush.msg) /\ disk' = rows'
        /\ UNCHANGED <<generated, send, evicted, unbuffered>>
    BY <1>19 DEF FlushMark, serviceVars, historyVars
  <2>3. HandedOver \subseteq Msg /\ (send.pc # "idle" => send.msg \in Msg)
    BY <1>0, SendingMessage DEF HandedOver, TypeInv, TypeOK
  <2> QED BY <1>0, <2>1, <2>2, <2>3, MarkPreserves
          DEF IInv, FreshRows, MarksAcked, SentImpliesPublished, SafeToCommit,
              NoSilentLoss
<1>20. CASE FlushMarkFails
  <2>1. /\ flush.msg \in Msg /\ flush.msg \in Published /\ Published' = Published
        /\ HandedOver' = HandedOver /\ flush'.pc = "sleep"
    BY <1>0, <1>20, IdleStates
    DEF FlushMarkFails, IInv, MarksAcked, Published, kafkaVars, HandedOver, serviceVars,
        historyVars, TypeInv, HasMessage, TypeOK, FlushState
  <2>2. /\ rows' \in {rows, MarkSent(rows, flush.msg)}
        /\ UNCHANGED <<disk, generated, send, evicted, unbuffered>>
    BY <1>20 DEF FlushMarkFails, serviceVars, historyVars
  <2>3. HandedOver \subseteq Msg /\ (send.pc # "idle" => send.msg \in Msg)
    BY <1>0, SendingMessage DEF HandedOver, TypeInv, TypeOK
  <2> QED BY <1>0, <2>1, <2>2, <2>3, MarkPreserves
          DEF IInv, FreshRows, MarksAcked, SentImpliesPublished, SafeToCommit,
              NoSilentLoss
<1>21. CASE FlushRefused
  <2>1. flush'.pc = "loop"
    BY <1>0, <1>21 DEF FlushRefused, TypeInv, TypeOK, FlushState
  <2> QED BY <1>14, <1>21, <2>1 DEF FlushRefused, kafkaVars
<1>22. CASE FlushLinkError
  <2>1. flush'.pc \in {"loop", "sleep"}
    BY <1>0, <1>22, IdleStates DEF FlushLinkError, TypeInv, TypeOK, FlushState
  <2> QED BY <1>14, <1>22, <2>1 DEF FlushLinkError
<1>23. CASE Cleanup
  <2>1. PICK k \in Msg : rows' = CleanupSent(rows, k)
    BY <1>23 DEF Cleanup
  <2>2. \A m \in Msg : rows'[m] = IF rows[m] = "sent" /\ m <= k THEN "none" ELSE rows[m]
    BY <2>1 DEF CleanupSent
  <2>3. /\ Published' = Published /\ HandedOver' = HandedOver
        /\ UNCHANGED <<disk, generated, send, flush, evicted, unbuffered>>
    BY <1>23 DEF Cleanup, Published, kafkaVars, HandedOver, serviceVars, historyVars
  <2>4. HandedOver \subseteq Msg /\ (send.pc # "idle" => send.msg \in Msg)
    BY <1>0, SendingMessage DEF HandedOver, TypeInv, TypeOK
  <2> QED BY <1>0, <2>2, <2>3, <2>4
          DEF IInv, FreshRows, MarksAcked, SentImpliesPublished, SafeToCommit,
              NoSilentLoss
<1>24. ASSUME NEW s \in Loop, KafkaAppend(s) PROVE IInv'
  BY <1>0, <1>24, PublishedGrows, QuietOtherStep
  DEF KafkaAppend, bufferVars, serviceVars, historyVars, IInv, MarksAcked
<1>25. CASE LinkUp \/ LinkDown
  BY <1>14, <1>25 DEF LinkUp, LinkDown, IInv, MarksAcked
<1>26. CASE Crash
  <2>1. /\ Published' = Published /\ send'.pc = "idle" /\ flush'.pc = "sleep"
        /\ HandedOver' \subseteq HandedOver /\ rows' = disk /\ disk' = disk
        /\ UNCHANGED <<generated, evicted, unbuffered>>
    BY <1>26, IdleStates DEF Crash, Published, HandedOver
  <2> QED BY <1>0, <2>1
          DEF IInv, FreshRows, MarksAcked, SentImpliesPublished, SafeToCommit,
              NoSilentLoss
<1>27. CASE UNCHANGED vars
  <2>1. Published' = Published
    BY <1>27 DEF vars, kafkaVars, Published
  <2> QED BY <1>0, <1>27, <2>1, QuietOtherStep
          DEF vars, bufferVars, serviceVars, historyVars, IInv, MarksAcked
<1>28. CASE CleanupCommit
  <2>1. /\ Published' = Published /\ HandedOver' = HandedOver /\ disk' = rows
        /\ UNCHANGED <<rows, generated, send, flush, evicted, unbuffered>>
    BY <1>28 DEF CleanupCommit, Published, kafkaVars, HandedOver, serviceVars, historyVars
  <2>2. HandedOver \subseteq Msg /\ (send.pc # "idle" => send.msg \in Msg)
    BY <1>0, SendingMessage DEF HandedOver, TypeInv, TypeOK
  <2> QED BY <1>0, <2>1, <2>2
          DEF IInv, FreshRows, MarksAcked, SentImpliesPublished, SafeToCommit,
              NoSilentLoss
<1> QED
  BY <1>1, <1>2, <1>3, <1>4, <1>5, <1>6, <1>7, <1>8, <1>9, <1>10, <1>11, <1>12,
     <1>13, <1>15, <1>16, <1>17, <1>18, <1>19, <1>20, <1>21, <1>22, <1>23, <1>24,
     <1>25, <1>26, <1>27, <1>28 DEF Next, ProduceStep, FlushStep

\* A message the producer reports as sent is pending on disk, in the topic,
\* evicted by an overflow or refused by the database: nothing else happens to it.
THEOREM NothingSilentlyLost == Spec => []NoSilentLoss
<1>1. IInv => NoSilentLoss
  BY DEF IInv
<1> QED BY <1>1, InvInit, InvStep, PTL DEF Spec

\* A row flagged sent belongs to a message in the topic.
THEOREM SentRowsArePublished == Spec => []SentImpliesPublished
<1>1. IInv => SentImpliesPublished
  BY DEF IInv
<1> QED BY <1>1, InvInit, InvStep, PTL DEF Spec

----------------------------------------------------------------------------
\* The life of a durable row.

\* A step leaves the disk alone, or commits the open transaction, with or
\* without one more flag set.
LEMMA CommitKinds ==
  ASSUME IInv, [Next]_vars
  PROVE  \/ disk' = disk
         \/ disk' = rows
         \/ \E k \in Published \intersect Msg : disk' = MarkSent(rows, k)
<1>1. CASE MarkAfterSend
  BY <1>1, SendingMessage DEF MarkAfterSend, IInv, MarksAcked
<1>2. CASE FlushMark
  BY <1>2 DEF FlushMark, IInv, MarksAcked, TypeInv, HasMessage
<1>3. CASE CommitAdd \/ StopProducing \/ Cleanup \/ CleanupCommit
  BY <1>3 DEF CommitAdd, StopProducing, Cleanup, CleanupCommit
<1>4. CASE Crash \/ UNCHANGED vars \/ StartProducing
  BY <1>4 DEF Crash, vars, bufferVars, StartProducing
<1>5. CASE \/ Generate \/ CountPending \/ EvictOldest \/ InsertRow \/ AddFails
           \/ SendAcked \/ MarkAfterSendFails \/ SendRefused \/ SendLinkError
  BY <1>5 DEF Generate, CountPending, EvictOldest, InsertRow, AddFails, SendAcked,
              MarkAfterSendFails, SendRefused, SendLinkError, bufferVars
<1>6. CASE \/ FlushAsk \/ FlushFetch \/ FetchFails \/ FlushNext \/ FlushReturn
           \/ FlushAcked \/ FlushMarkFails \/ FlushRefused \/ FlushLinkError
  BY <1>6 DEF FlushAsk, FlushFetch, FetchFails, FlushNext, FlushReturn, FlushAcked,
              FlushMarkFails, FlushRefused, FlushLinkError, bufferVars
<1>7. CASE LinkUp \/ LinkDown \/ \E s \in Loop : KafkaAppend(s)
  BY <1>7 DEF LinkUp, LinkDown, KafkaAppend, bufferVars
<1> QED
  BY <1>1, <1>2, <1>3, <1>4, <1>5, <1>6, <1>7 DEF Next, ProduceStep, FlushStep

\* A committed pending row outlives every step until its message is published
\* or evicted, and a committed sent row never becomes pending again.
THEOREM DurableRows == Spec => DurableRowLifecycle
<1> DEFINE Kept ==
      \A m \in Msg :
        /\ disk[m] = "pending" /\ disk'[m] # "pending" => m \in Published \union evicted
        /\ disk[m] = "sent" => disk'[m] # "pending"
<1>1. ASSUME IInv, [Next]_vars PROVE Kept
  <2>1. /\ \A m \in Msg : disk[m] = "pending" =>
                           rows[m] = "pending" \/ m \in Published \union evicted
        /\ \A m \in Msg : disk[m] = "sent" => rows[m] # "pending"
    BY <1>1 DEF IInv, SafeToCommit
  <2>2. CASE disk' = disk \/ disk' = rows
    BY <2>1, <2>2
  <2>3. ASSUME NEW k \in Published \intersect Msg, disk' = MarkSent(rows, k)
        PROVE  Kept
    BY <1>1, <2>1, <2>3, MarkPreserves
  <2> QED BY <1>1, <2>2, <2>3, CommitKinds
<1>2. Kept => [Kept]_vars
  OBVIOUS
<1> QED BY <1>1, InvInit, InvStep, PTL DEF Spec, DurableRowLifecycle

----------------------------------------------------------------------------
\* The bound on the pending rows.

\* What the buffer may hold: its size, and the adds that could not count it.
Limit == BufferMax + Cardinality(uncounted)

\* Between the count (or the DELETE) and the INSERT there is room for one row.
LimitInv ==
  /\ Cardinality(Pending(rows)) <= Limit
  /\ Cardinality(Pending(disk)) <= Limit
  /\ send.pc = "count" => send.msg \notin uncounted
  /\ \A m \in uncounted : m <= generated
  /\ send.pc = "insert" => Cardinality(Pending(rows)) < Limit

\* The empty buffer is within its limit.
LEMMA LimitInit == Init => LimitInv
<1> SUFFICES ASSUME Init PROVE LimitInv
  OBVIOUS
<1>1. Pending(rows) = {} /\ Pending(disk) = {}
  BY DEF Init, Pending, EmptyTable
<1>2. send.pc = "idle" /\ uncounted = {}
  BY IdleStates DEF Init
<1> QED BY <1>1, <1>2, FS_EmptySet, BoundsAssumption DEF LimitInv, Limit

\* The messages whose count failed are finitely many.
LEMMA UncountedFinite ==
  ASSUME TypeOK
  PROVE  IsFiniteSet(uncounted) /\ Cardinality(uncounted) \in Nat
         /\ Limit \in Nat \ {0}
<1>1. IsFiniteSet(Msg)
  BY FS_Interval, BoundsAssumption DEF Msg
<1>2. IsFiniteSet(uncounted) /\ Cardinality(uncounted) \in Nat
  BY <1>1, FS_Subset, FS_CardinalityType DEF TypeOK
<1> QED BY <1>2, BoundsAssumption DEF Limit

\* A step that makes no row pending and starts no add().
LEMMA LimitKept ==
  ASSUME TypeInv, TypeInv', LimitInv, generated' = generated, uncounted' = uncounted,
         Cardinality(Pending(rows')) <= Cardinality(Pending(rows)),
         disk' \in {disk, rows, rows'},
         send'.pc = "insert" => send.pc = "insert",
         send'.pc = "count" => send' = send
  PROVE  LimitInv'
<1>1. /\ Cardinality(Pending(rows)) \in Nat /\ Cardinality(Pending(rows')) \in Nat
      /\ Limit \in Nat /\ Limit' = Limit
  BY PendingFinite, UncountedFinite DEF TypeInv, Limit
<1> QED BY <1>1 DEF LimitInv

\* Every step keeps the limit: only an add whose count raised goes beyond it.
LEMMA LimitStep == TypeInv /\ LimitInv /\ [Next]_vars => LimitInv'
<1> SUFFICES ASSUME TypeInv, LimitInv, [Next]_vars PROVE LimitInv'
  OBVIOUS
<1>0. /\ rows \in Table /\ disk \in Table /\ BufferMax \in Nat \ {0}
      /\ Cardinality(Pending(rows)) \in Nat /\ Cardinality(Pending(rows')) \in Nat
      /\ Cardinality(Pending(disk)) \in Nat /\ Cardinality(Pending(disk')) \in Nat
      /\ Limit \in Nat \ {0} /\ Cardinality(uncounted) \in Nat
      /\ generated \in Nat
      /\ TypeInv'
  BY PendingFinite, UncountedFinite, BoundsAssumption, TypeStep DEF TypeInv, TypeOK
<1>1. CASE CountPending
  <2>1. /\ send'.pc \in {"insert", "evict"} /\ UNCHANGED <<rows, disk, generated>>
        /\ send.msg \in Msg /\ send.msg <= generated /\ send.msg \notin uncounted
    BY <1>1, <1>0, SendingMessage
    DEF CountPending, TypeInv, TypeOK, HasMessage, SendState, bufferVars, LimitInv
  <2>2. CASE uncounted' = uncounted /\ (send'.pc = "insert" => ~IsFull(rows))
    <3>1. Limit' = Limit
      BY <2>2 DEF Limit
    <3>2. send'.pc = "insert" => Cardinality(Pending(rows)) < Limit
      BY <1>0, <2>2 DEF IsFull, Limit
    <3> QED BY <2>1, <2>2, <3>1, <3>2 DEF LimitInv
  <2>3. CASE uncounted' = uncounted \union {send.msg}
    <3>1. Cardinality(uncounted') = Cardinality(uncounted) + 1
      <4>1. IsFiniteSet(uncounted)
        BY UncountedFinite DEF TypeInv
      <4> QED BY <2>1, <2>3, <4>1, FS_AddElement, Zenon
    <3>2. Limit' = Limit + 1
      BY <1>0, <3>1 DEF Limit
    <3>3. /\ Cardinality(Pending(rows')) <= Limit
          /\ Cardinality(Pending(disk')) <= Limit
      BY <2>1 DEF LimitInv
    <3>4. \A m \in uncounted' : m <= generated'
      BY <2>1, <2>3 DEF LimitInv
    <3> QED BY <1>0, <2>1, <3>2, <3>3, <3>4 DEF LimitInv
  <2>4. \/ uncounted' = uncounted /\ (send'.pc = "insert" => ~IsFull(rows))
        \/ uncounted' = uncounted \union {send.msg}
    <3>1. PICK faulty \in BOOLEAN :
            /\ send' = [send EXCEPT !.pc = IF ~faulty /\ IsFull(rows)
                                           THEN "evict" ELSE "insert"]
            /\ uncounted' = IF faulty THEN uncounted \union {send.msg} ELSE uncounted
      BY <1>1 DEF CountPending
    <3> QED BY <3>1 DEF TypeInv, TypeOK, SendState
  <2> QED BY <2>2, <2>3, <2>4
<1>2. CASE EvictOldest
  <2>1. Cardinality(Pending(rows')) < Limit
    BY <1>0, <1>2, EvictMakesRoom DEF EvictOldest, LimitInv
  <2>2. send'.pc # "count" /\ Limit' = Limit
    BY <1>2 DEF EvictOldest, TypeInv, TypeOK, SendState, Limit
  <2> QED BY <1>0, <1>2, <2>1, <2>2 DEF EvictOldest, LimitInv
<1>3. CASE InsertRow
  <2>1. send.msg \in Msg
    BY <1>3, SendingMessage DEF InsertRow
  <2>2. Cardinality(Pending(rows')) <= Cardinality(Pending(rows)) + 1
    BY <1>0, <1>3, <2>1, InsertPending DEF InsertRow
  <2>3. send'.pc \notin {"insert", "count"} /\ Limit' = Limit
    BY <1>3 DEF InsertRow, TypeInv, TypeOK, SendState, historyVars, Limit
  <2> QED BY <1>0, <1>3, <2>2, <2>3 DEF InsertRow, LimitInv, historyVars
<1>4. CASE StopProducing
  <2>1. Cardinality(Pending(QueuedOperation)) <= Limit
    <3>1. CASE send.pc = "evict"
      <4>1. Cardinality(Pending(Evict(rows))) < Limit
        BY <1>0, EvictMakesRoom DEF LimitInv
      <4>2. Cardinality(Pending(Evict(rows))) \in Nat
        BY PendingFinite
      <4> QED BY <1>0, <3>1, <4>1, <4>2 DEF QueuedOperation
    <3>2. CASE send.pc = "insert"
      <4>1. Cardinality(Pending(Insert(rows, send.msg))) <= Cardinality(Pending(rows)) + 1
        BY <1>0, <3>2, SendingMessage, InsertPending
      <4>2. Cardinality(Pending(Insert(rows, send.msg))) \in Nat
        BY PendingFinite
      <4> QED BY <1>0, <3>2, <4>1, <4>2 DEF QueuedOperation, LimitInv
    <3>3. CASE send.pc = "mark"
      <4>1. Cardinality(Pending(MarkSent(rows, send.msg))) <= Cardinality(Pending(rows))
        BY <1>0, <3>3, SendingMessage, MarkAndCleanupPending
      <4>2. Cardinality(Pending(MarkSent(rows, send.msg))) \in Nat
        BY PendingFinite
      <4> QED BY <1>0, <3>3, <4>1, <4>2 DEF QueuedOperation, LimitInv
    <3>4. CASE send.pc \notin {"evict", "insert", "mark"}
      BY <3>4 DEF QueuedOperation, LimitInv
    <3> QED BY <3>1, <3>2, <3>3, <3>4
  <2>2. /\ rows' = QueuedOperation /\ (disk' = rows \/ disk' = disk)
        /\ send'.pc = "idle" /\ UNCHANGED <<generated, uncounted>>
    BY <1>4, IdleStates DEF StopProducing
  <2>3. Limit' = Limit
    BY <2>2 DEF Limit
  <2> QED BY <2>1, <2>2, <2>3 DEF LimitInv
<1>5. CASE Generate
  <2>1. /\ UNCHANGED <<rows, disk, uncounted>> /\ generated' = generated + 1
        /\ send'.pc = "count" /\ send'.msg = generated + 1
    BY <1>5 DEF Generate, bufferVars, historyVars
  <2>2. \A m \in uncounted : m \in Nat /\ m <= generated
    BY BoundsAssumption DEF TypeInv, TypeOK, Msg, LimitInv
  <2>3. Limit' = Limit
    BY <2>1 DEF Limit
  <2> QED BY <1>0, <2>1, <2>2, <2>3 DEF LimitInv
<1>6. CASE CommitAdd
  BY <1>0, <1>6, LimitKept, IdleStates
  DEF CommitAdd, AfterAdd, CountSent, TypeInv, TypeOK, SendState
<1>7. CASE AddFails
  <2>1. send'.pc \in {"send", "idle"}
    BY <1>7, IdleStates DEF AddFails, AfterAdd, CountSent, TypeInv, TypeOK, SendState
  <2> QED BY <1>0, <1>7, <2>1, LimitKept DEF AddFails, AfterAdd, bufferVars
<1>8. CASE MarkAfterSend \/ MarkAfterSendFails
  BY <1>0, <1>8, LimitKept, SendingMessage, IdleStates, MarkAndCleanupPending
  DEF MarkAfterSend, MarkAfterSendFails, CountSent, historyVars
<1>9. CASE FlushMark \/ FlushMarkFails
  BY <1>0, <1>9, LimitKept, MarkAndCleanupPending
  DEF FlushMark, FlushMarkFails, serviceVars, historyVars, TypeInv, HasMessage
<1>10. CASE Cleanup \/ CleanupCommit
  BY <1>0, <1>10, LimitKept, MarkAndCleanupPending
  DEF Cleanup, CleanupCommit, serviceVars, historyVars
<1>11. CASE Crash
  <2>1. Limit' = Limit
    BY <1>11 DEF Crash, Limit
  <2> QED BY <1>11, <2>1, IdleStates DEF Crash, LimitInv
<1>12. CASE \/ SendAcked \/ SendRefused \/ SendLinkError
            \/ StartProducing \/ UNCHANGED vars
  <2>1. send'.pc \notin {"insert", "count"} \/ send' = send
    BY <1>12, IdleStates
    DEF SendAcked, SendRefused, SendLinkError, CountSent, StartProducing,
        vars, serviceVars, TypeInv, TypeOK, SendState
  <2>2. UNCHANGED <<rows, disk, generated, uncounted>>
    BY <1>12 DEF SendAcked, SendRefused, SendLinkError, StartProducing,
                 vars, bufferVars, serviceVars, historyVars
  <2> QED BY <1>0, <2>1, <2>2, LimitKept
<1>13. CASE \/ FlushAsk \/ FlushFetch \/ FetchFails \/ FlushNext \/ FlushReturn
            \/ FlushAcked \/ FlushRefused \/ FlushLinkError
            \/ LinkUp \/ LinkDown \/ \E s \in Loop : KafkaAppend(s)
  <2>1. UNCHANGED <<rows, disk, generated, send, uncounted>>
    BY <1>13 DEF FlushAsk, FlushFetch, FetchFails, FlushNext, FlushReturn, FlushAcked,
                 FlushRefused, FlushLinkError, LinkUp, LinkDown, KafkaAppend, bufferVars,
                 serviceVars, historyVars
  <2> QED BY <1>0, <2>1, LimitKept
<1> QED
  BY <1>1, <1>2, <1>3, <1>4, <1>5, <1>6, <1>7, <1>8, <1>9, <1>10, <1>11, <1>12, <1>13
  DEF Next, ProduceStep, FlushStep

\* add() keeps the pending rows, on disk too, within BUFFER_MAX_SIZE and one
\* row more for each add() whose count failed.
THEOREM BufferBounded == Spec => []PendingWithinLimit
<1>1. TypeInv /\ LimitInv => PendingWithinLimit
  BY DEF LimitInv, Limit, PendingWithinLimit
<1> QED BY <1>1, TypeInit, TypeStep, LimitInit, LimitStep, PTL DEF Spec

----------------------------------------------------------------------------
\* The producer implements Outbox.

\* A message counted as sent was not resurrected: its pending row, if it has
\* one, is on disk.
CountedInv ==
  /\ \A m \in counted : m <= generated
  /\ send.pc \in {"count", "evict", "insert", "commit"} => send.msg \notin counted
  /\ \A m \in HandedOver :
       rows[m] = "pending" => disk[m] = "pending" \/ m \in evicted \union unbuffered

\* The messages in hand are messages.
LEMMA HandedOverTyped ==
  ASSUME TypeInv
  PROVE  HandedOver \subseteq Msg
<1>1. counted \subseteq Msg
  BY DEF TypeInv, TypeOK
<1>2. send.pc \in {"send", "mark"} => send.msg \in Msg
  BY SendingMessage
<1> QED BY <1>1, <1>2 DEF HandedOver

\* No message is counted at the beginning.
LEMMA CountedInit == Init => CountedInv
  BY IdleStates DEF Init, CountedInv, HandedOver

\* A step that inserts nothing and leaves no message newly counted or in hand.
LEMMA CountedKept ==
  ASSUME TypeInv, CountedInv, generated' = generated,
         counted' \subseteq counted \union {send.msg},
         send.pc # "idle" \/ counted' = counted,
         HandedOver' \subseteq HandedOver,
         send'.pc \in {"count", "evict", "insert", "commit"} =>
           /\ send'.msg = send.msg /\ counted' = counted
           /\ send.pc \in {"count", "evict", "insert", "commit"},
         evicted \subseteq evicted', unbuffered \subseteq unbuffered',
         \/ disk' = rows'
         \/ disk' = disk /\ \A m \in Msg : rows'[m] = "pending" => rows[m] = "pending"
  PROVE  CountedInv'
<1>1. HandedOver \subseteq Msg
  BY HandedOverTyped
<1>2. \A m \in counted' : m <= generated
  BY BoundsAssumption DEF CountedInv, TypeInv, HasMessage, TypeOK
<1> QED BY <1>1, <1>2 DEF CountedInv

\* Every step keeps it: a message is handed over after its own commit, or a failed add.
LEMMA CountedStep == TypeInv /\ CountedInv /\ [Next]_vars => CountedInv'
<1> SUFFICES ASSUME TypeInv, CountedInv, [Next]_vars PROVE CountedInv'
  OBVIOUS
<1>0. /\ send \in SendState /\ rows \in Table /\ generated \in Nat
      /\ HandedOver \subseteq Msg
  BY HandedOverTyped, BoundsAssumption DEF TypeInv, TypeOK
<1>1. CASE Generate
  <2>1. /\ HandedOver' = HandedOver /\ UNCHANGED <<rows, disk, counted, evicted, unbuffered>>
        /\ generated' = generated + 1
        /\ send'.pc = "count" /\ send'.msg = generated + 1
    BY <1>1 DEF Generate, HandedOver, bufferVars, historyVars
  <2>2. \A m \in counted : m \in Nat /\ m <= generated
    BY BoundsAssumption DEF CountedInv, TypeInv, TypeOK, Msg
  <2> QED BY <1>0, <2>1, <2>2 DEF CountedInv
<1>2. CASE CountPending
  <2>1. send'.pc \in {"evict", "insert"} /\ send'.msg = send.msg
    BY <1>0, <1>2 DEF CountPending, SendState
  <2> QED BY <1>2, <2>1, CountedKept DEF CountPending, HandedOver, bufferVars
<1>3. CASE EvictOldest
  <2>1. send'.pc = "insert" /\ send'.msg = send.msg
    BY <1>0, <1>3 DEF EvictOldest, SendState
  <2>2. \A m \in Msg : rows'[m] = "pending" => rows[m] = "pending"
    BY <1>3 DEF EvictOldest, Evict
  <2> QED BY <1>3, <2>1, <2>2, CountedKept DEF EvictOldest, HandedOver
<1>4. CASE InsertRow
  <2>1. /\ send'.pc = "commit" /\ send'.msg = send.msg
        /\ HandedOver' = counted /\ HandedOver = counted
        /\ UNCHANGED <<disk, generated, counted, evicted, unbuffered>>
    BY <1>0, <1>4 DEF InsertRow, HandedOver, historyVars, SendState
  <2>2. \A m \in counted : m # send.msg /\ m \in Msg
    BY <1>4 DEF InsertRow, CountedInv, TypeInv, TypeOK
  <2>3. \A m \in counted : rows'[m] = rows[m]
    BY <1>0, <1>4, <2>2 DEF InsertRow, Insert, Table
  <2> QED BY <1>4, <2>1, <2>2, <2>3 DEF InsertRow, CountedInv
<1>5. ASSUME AfterAdd, send.pc \in {"evict", "insert", "commit"}, rows' = rows,
             \/ disk' = rows /\ unbuffered' = unbuffered
             \/ disk' = disk /\ unbuffered' = unbuffered \union {send.msg}
      PROVE  CountedInv'
  <2>1. /\ HandedOver' = counted \union {send.msg} /\ HandedOver = counted
        /\ counted' \subseteq counted \union {send.msg}
        /\ UNCHANGED <<generated, evicted>>
        /\ send'.pc \in {"send", "idle"}
    BY <1>0, <1>5, IdleStates DEF AfterAdd, CountSent, HandedOver, SendState
  <2>2. \A m \in counted' : m <= generated
    BY <1>5, <2>1 DEF CountedInv, TypeInv, HasMessage
  <2> QED BY <1>5, <2>1, <2>2 DEF CountedInv
<1>6. CASE CommitAdd
  BY <1>5, <1>6 DEF CommitAdd
<1>7. CASE AddFails
  BY <1>5, <1>7 DEF AddFails, bufferVars
<1>8. CASE SendAcked
  <2>1. send'.pc = "mark" /\ send'.msg = send.msg
    BY <1>0, <1>8 DEF SendAcked, SendState
  <2> QED BY <1>8, <2>1, CountedKept DEF SendAcked, HandedOver, bufferVars, historyVars
<1>9. CASE MarkAfterSend
  BY <1>9, CountedKept, IdleStates DEF MarkAfterSend, CountSent, HandedOver
<1>10. CASE MarkAfterSendFails
  <2>1. \A m \in Msg : rows'[m] = "pending" => rows[m] = "pending"
    BY <1>0, <1>10, SendingMessage DEF MarkAfterSendFails, MarkSent, Table
  <2> QED BY <1>10, <2>1, CountedKept, IdleStates
          DEF MarkAfterSendFails, HandedOver, historyVars
<1>11. CASE SendRefused
  BY <1>11, CountedKept, IdleStates DEF SendRefused, CountSent, HandedOver, bufferVars
<1>12. CASE SendLinkError
  BY <1>12, CountedKept, IdleStates DEF SendLinkError, CountSent, HandedOver, bufferVars
<1>13. CASE StopProducing
  <2>1. /\ HandedOver' = counted /\ counted \subseteq HandedOver /\ send'.pc = "idle"
        /\ UNCHANGED <<generated, counted, unbuffered>> /\ evicted \subseteq evicted'
        /\ rows' = QueuedOperation
    BY <1>13, IdleStates DEF StopProducing, HandedOver
  <2>2. CASE send.pc = "commit"
    BY <1>13, <2>1, <2>2, CountedKept DEF StopProducing, QueuedOperation
  <2>3. CASE send.pc = "insert"
    <3>1. \A m \in counted : m # send.msg /\ m \in Msg
      BY <2>3 DEF CountedInv, TypeInv, TypeOK
    <3>2. \A m \in counted : rows'[m] = rows[m]
      BY <1>0, <2>1, <2>3, <3>1 DEF QueuedOperation, Insert, Table
    <3> QED BY <1>13, <2>1, <2>3, <3>2 DEF StopProducing, CountedInv
  <2>4. CASE send.pc \notin {"commit", "insert"}
    <3>1. CASE send.pc = "evict"
      BY <3>1, <2>1 , <1>13, CountedKept DEF QueuedOperation, Evict, StopProducing
    <3>2. CASE send.pc = "mark"
      <4>1. \A m \in Msg : rows'[m] = "pending" => rows[m] = "pending"
        BY <1>0, <2>1, <3>2, SendingMessage DEF QueuedOperation, MarkSent, Table
      <4> QED BY <1>13, <2>1, <3>2, <4>1, CountedKept DEF StopProducing
    <3>3. CASE send.pc \notin {"evict", "mark"}
      BY <1>13, <2>1, <2>4, <3>3, CountedKept DEF QueuedOperation, StopProducing
    <3> QED BY <3>1, <3>2, <3>3
  <2> QED BY <2>2, <2>3, <2>4
<1>14. CASE \/ FlushMark \/ FlushMarkFails \/ Cleanup \/ CleanupCommit
  <2>1. UNCHANGED <<generated, counted, send, evicted, unbuffered>>
    BY <1>14 DEF FlushMark, FlushMarkFails, Cleanup, CleanupCommit, serviceVars, historyVars
  <2>2. \/ disk' = rows'
        \/ disk' = disk /\ \A m \in Msg : rows'[m] = "pending" => rows[m] = "pending"
    BY <1>0, <1>14 DEF FlushMark, FlushMarkFails, Cleanup, CleanupCommit, CleanupSent,
                       MarkSent, Table
  <2> QED BY <2>1, <2>2, CountedKept DEF HandedOver
<1>15. CASE Crash
  BY <1>15, CountedKept, IdleStates DEF Crash, HandedOver
<1>16. CASE StartProducing \/ UNCHANGED vars
  BY <1>16, CountedKept
  DEF StartProducing, vars, HandedOver, bufferVars, serviceVars, historyVars
<1>17. CASE \/ FlushAsk \/ FlushFetch \/ FetchFails \/ FlushNext \/ FlushReturn
            \/ FlushAcked \/ FlushRefused \/ FlushLinkError
            \/ LinkUp \/ LinkDown \/ \E s \in Loop : KafkaAppend(s)
  <2>1. UNCHANGED <<rows, disk, generated, send, counted, evicted, unbuffered>>
    BY <1>17 DEF FlushAsk, FlushFetch, FetchFails, FlushNext, FlushReturn, FlushAcked,
                 FlushRefused, FlushLinkError, LinkUp, LinkDown, KafkaAppend, bufferVars,
                 serviceVars, historyVars
  <2> QED BY <2>1, CountedKept DEF HandedOver
<1> QED
  BY <1>1, <1>2, <1>3, <1>4, <1>6, <1>7, <1>8, <1>9, <1>10, <1>11, <1>12, <1>13,
     <1>14, <1>15, <1>16, <1>17 DEF Next, ProduceStep, FlushStep

\* What the code does to the variables of Outbox.
Held == Pending(disk)
Dropped == evicted \union unbuffered

\* A commit of the shared transaction, whichever loop issues it, is one of the outbox.
LEMMA OutboxCommit ==
  ASSUME IInv, CountedInv, [Next]_vars, UNCHANGED <<Published, Dropped>>,
         counted' \ counted \subseteq Held' \union Published \union Dropped,
         counted \subseteq counted'
  PROVE  Outbox!Commit
<1>1. Held' \subseteq Msg /\ Held \ Held' \subseteq Published \union Dropped
  <2>1. \A m \in Msg : disk[m] = "pending" =>
                         rows[m] = "pending" \/ m \in Published \union evicted
    BY DEF IInv, SafeToCommit
  <2>2. ASSUME NEW m \in Msg, disk[m] = "pending", disk'[m] # "pending"
        PROVE  m \in Published \union evicted
    BY <2>1, <2>2, CommitKinds, MarkPreserves
  <2> QED BY <2>2 DEF Held, Pending, Dropped
<1>2. (Held' \ Held) \intersect counted \subseteq Dropped
  <2>1. \A m \in counted : rows[m] = "pending" => disk[m] = "pending" \/ m \in Dropped
    BY DEF CountedInv, HandedOver, Dropped
  <2>2. ASSUME NEW m \in Msg, disk'[m] = "pending" PROVE disk[m] = "pending" \/ rows[m] = "pending"
    BY <2>2, CommitKinds, MarkPreserves
  <2> QED BY <2>1, <2>2 DEF Held, Pending
<1> QED BY <1>1, <1>2 DEF Outbox!Commit, Outbox!Accepts, Outbox!Safe, Held, Dropped

\* The initial states and the steps of the producer are those of the outbox.
LEMMA RefineInit == Init => Outbox!Init
<1> SUFFICES ASSUME Init PROVE Outbox!Init
  OBVIOUS
<1>1. Published = {} /\ Pending(disk) = {}
  BY DEF Init, Published, Pending, EmptyTable
<1> QED BY <1>1 DEF Init, Outbox!Init

\* A step is one of the outbox's, or one that it does not see.
LEMMA RefineStep ==
  IInv /\ CountedInv /\ [Next]_vars => [Outbox!Next]_Outbox!vars
<1> SUFFICES ASSUME IInv, CountedInv, [Next]_vars
             PROVE  Outbox!Next \/ UNCHANGED <<counted, Held, Published, Dropped>>
  BY DEF Outbox!vars, Held, Dropped
<1>0. TypeInv /\ (log' = log => Published' = Published)
      /\ (disk' = disk => Held' = Held)
  BY DEF IInv, Published, Held
<1>1. ASSUME UNCHANGED <<disk, log, counted, evicted, unbuffered>>
      PROVE  UNCHANGED <<counted, Held, Published, Dropped>>
  BY <1>0, <1>1 DEF Dropped
<1>2. CASE \/ Generate \/ CountPending \/ InsertRow \/ SendAcked \/ MarkAfterSendFails
           \/ StartProducing \/ FlushAsk \/ FlushFetch \/ FetchFails \/ FlushNext
           \/ FlushReturn \/ FlushAcked \/ Cleanup \/ FlushMarkFails \/ FlushRefused \/ FlushLinkError
           \/ LinkUp \/ LinkDown \/ Crash \/ UNCHANGED vars
  BY <1>1, <1>2
  DEF Generate, CountPending, InsertRow, SendAcked, MarkAfterSendFails, StartProducing,
      FlushAsk, FlushFetch, FetchFails, FlushNext, FlushReturn, FlushAcked, Cleanup,
      FlushMarkFails, FlushRefused, FlushLinkError, LinkUp, LinkDown, Crash, vars, bufferVars, serviceVars,
      kafkaVars, historyVars
<1>3. CASE SendRefused \/ SendLinkError
  <2>1. /\ UNCHANGED <<disk, log, evicted, unbuffered>>
        /\ counted' = counted \union {send.msg} /\ send.msg \in HandedOver
    BY <1>3 DEF SendRefused, SendLinkError, CountSent, HandedOver, bufferVars, kafkaVars
  <2>2. send.msg \in Held \union Published \union Dropped
    BY <2>1, HandedOverTyped, <1>0 DEF IInv, NoSilentLoss, Held, Pending, Dropped
  <2> QED BY <1>0, <2>1, <2>2
          DEF Outbox!Next, Outbox!Accept, Outbox!Accepts, Outbox!Safe, Held, Dropped
<1>4. CASE CommitAdd
  <2>1. /\ UNCHANGED <<Published, Dropped>> /\ disk' = rows
        /\ counted \subseteq counted' /\ counted' \subseteq counted \union {send.msg}
        /\ send.msg \in Msg
    BY <1>0, <1>4, SendingMessage DEF CommitAdd, AfterAdd, CountSent, Dropped
  <2>2. send.msg \in Held' \union Published \union Dropped
    BY <1>4, <2>1 DEF CommitAdd, IInv, SafeToCommit, Held, Pending, Dropped
  <2> QED BY <2>1, <2>2, OutboxCommit DEF Outbox!Next
<1>5. CASE MarkAfterSend
  <2>1. /\ UNCHANGED <<Published, Dropped>>
        /\ counted' = counted \union {send.msg}
        /\ send.msg \in Published
    BY <1>0, <1>5 DEF MarkAfterSend, CountSent, kafkaVars, Dropped, IInv, MarksAcked
  <2> QED BY <2>1, OutboxCommit DEF Outbox!Next
<1>6. CASE FlushMark \/ CleanupCommit
  <2>1. UNCHANGED <<Published, Dropped, counted>>
    BY <1>0, <1>6 DEF FlushMark, CleanupCommit, serviceVars, kafkaVars, historyVars, Dropped
  <2> QED BY <2>1, OutboxCommit DEF Outbox!Next
<1>7. ASSUME NEW k, Dropped' = Dropped \union {k}, k \in Msg,
             UNCHANGED <<Held, Published>>, counted \subseteq counted',
             counted' \subseteq counted \union {k}
      PROVE  Outbox!Next
  BY <1>7 DEF Outbox!Next, Outbox!Drop, Outbox!Accepts, Outbox!Safe, Held, Dropped
<1>8. CASE AddFails
  <2>1. /\ UNCHANGED <<Held, Published>> /\ Dropped' = Dropped \union {send.msg}
        /\ counted \subseteq counted' /\ counted' \subseteq counted \union {send.msg}
        /\ send.msg \in Msg
    BY <1>0, <1>8, SendingMessage
    DEF AddFails, AfterAdd, CountSent, bufferVars, Dropped
  <2> QED BY <1>7, <2>1
<1>9. ASSUME evicted' = evicted \union Victims(rows),
             UNCHANGED <<disk, log, counted, unbuffered>>
      PROVE  Outbox!Next \/ UNCHANGED <<counted, Held, Published, Dropped>>
  <2>1. UNCHANGED <<Held, Published, counted>>
    BY <1>0, <1>9
  <2>2. CASE Victims(rows) = {}
    BY <1>9, <2>1, <2>2 DEF Dropped
  <2>3. CASE Victims(rows) # {}
    <3>1. PICK k \in Msg : Victims(rows) = {k}
      BY <2>3, VictimsPending DEF Victims, Pending
    <3>2. Dropped' = Dropped \union {k}
      BY <1>9, <3>1 DEF Dropped
    <3> QED BY <1>7, <2>1, <3>2
  <2> QED BY <2>2, <2>3
<1>10. CASE EvictOldest
  BY <1>9, <1>10 DEF EvictOldest, kafkaVars
<1>11. CASE StopProducing
  <2>1. CASE send.pc = "evict"
    BY <1>9, <1>11, <2>1 DEF StopProducing, kafkaVars
  <2>2. CASE send.pc # "evict"
    <3>1. UNCHANGED <<Published, Dropped, counted>>
      BY <1>0, <1>11, <2>2 DEF StopProducing, kafkaVars, Dropped
    <3> QED BY <3>1, OutboxCommit DEF Outbox!Next
  <2> QED BY <2>1, <2>2
<1>12. ASSUME NEW s \in Loop, KafkaAppend(s) PROVE Outbox!Next
  <2>1. /\ Published' = Published \union {InFlight(s).msg} /\ InFlight(s).msg \in Msg
        /\ UNCHANGED <<disk, counted, evicted, unbuffered>>
    BY <1>0, <1>12, PublishedGrows DEF KafkaAppend, bufferVars, historyVars
  <2>2. UNCHANGED <<Held, counted, Dropped>>
    BY <1>0, <2>1 DEF Dropped
  <2> QED BY <2>1, <2>2 DEF Outbox!Next, Outbox!Publish, Held, Dropped
<1> QED
  BY <1>2, <1>3, <1>4, <1>5, <1>6, <1>8, <1>10, <1>11, <1>12
  DEF Next, ProduceStep, FlushStep

\* The producer, loops, transactions, faults and crashes included, implements
\* the outbox: what it reports as sent is safe, and stays so.
THEOREM ProducerKeepsPromise == Spec => Promise
<1>1. IInv /\ CountedInv /\ [Next]_vars => CountedInv'
  BY CountedStep DEF IInv
<1>2. Init => Outbox!Init
  BY InvInit, RefineInit
<1> QED BY <1>1, <1>2, InvInit, InvStep, CountedInit, RefineStep, PTL
        DEF Spec, Promise, Outbox!Spec
----------------------------------------------------------------------------
\* What the loops hold; module Pipeline needs it for the order of the topic.

\* The produce loop is at the last message generated, and the flush loop sends
\* none that is not generated.
InHandInv ==
  /\ send.pc # "idle" => send.msg = generated
  /\ flush.pc = "send" => flush.msg <= generated
  /\ \A m \in flush.batch : m <= generated

\* Both loops begin with empty hands.
LEMMA InHandInit == Init => InHandInv
  BY IdleStates DEF Init, InHandInv, FlushIdle

\* A step that takes up no message.
LEMMA InHandKept ==
  ASSUME InHandInv, generated' = generated,
         send'.pc # "idle" => send.pc # "idle" /\ send'.msg = send.msg,
         flush'.pc = "send" => flush.pc = "send" /\ flush'.msg = flush.msg,
         flush'.batch \subseteq flush.batch
  PROVE  InHandInv'
  BY DEF InHandInv

\* A message is taken up when it is generated, from the table, or from the batch.
LEMMA InHandStep == IInv /\ InHandInv /\ [Next]_vars => InHandInv'
<1> SUFFICES ASSUME IInv, InHandInv, [Next]_vars PROVE InHandInv'
  OBVIOUS
<1>0. /\ send \in SendState /\ flush \in FlushState /\ generated \in Nat
      /\ SendIdle.pc = "idle" /\ FlushIdle.pc = "sleep" /\ FlushIdle.batch = {}
  BY IdleStates, BoundsAssumption DEF IInv, TypeInv, TypeOK, FlushIdle
<1>1. CASE Generate
  <2>1. /\ generated' = generated + 1 /\ send'.msg = generated + 1 /\ flush' = flush
    BY <1>1 DEF Generate
  <2>2. /\ flush.pc = "send" => flush.msg \in Nat
        /\ \A m \in flush.batch : m \in Nat
    BY <1>0, BoundsAssumption DEF IInv, TypeInv, HasMessage, FlushState, Msg
  <2> QED BY <1>0, <2>1, <2>2 DEF InHandInv
<1>2. ASSUME NEW B \in SUBSET Msg, B # {}, \A m \in B : m <= generated,
             NEW progress, FlushSend(Oldest(B), B, progress), UNCHANGED serviceVars
      PROVE  InHandInv'
  <2>1. Oldest(B) \in B
    BY <1>2, OldestInSet
  <2>2. flush'.msg = Oldest(B) /\ flush'.batch = B \ {Oldest(B)}
    BY <1>2 DEF FlushSend
  <2> QED BY <1>2, <2>1, <2>2 DEF InHandInv, serviceVars
<1>3. CASE FlushFetch
  <2>1. GetPending(rows) \in SUBSET Msg /\ \A m \in GetPending(rows) : rows[m] = "pending"
    BY DEF GetPending, Pending
  <2>2. \A m \in GetPending(rows) : m <= generated
    BY <1>0, <2>1, BoundsAssumption DEF IInv, FreshRows, Msg
  <2> QED BY <1>2, <1>3, <2>1, <2>2 DEF FlushFetch
<1>4. CASE FlushNext
  BY <1>0, <1>2, <1>4 DEF FlushNext, FlushState, InHandInv
<1>5. CASE \/ CountPending \/ EvictOldest \/ InsertRow \/ CommitAdd \/ AddFails
           \/ SendAcked \/ MarkAfterSend \/ MarkAfterSendFails \/ SendRefused \/ SendLinkError
  <2>1. generated' = generated /\ flush' = flush
    BY <1>5 DEF CountPending, EvictOldest, InsertRow, CommitAdd, AddFails, AfterAdd,
                SendAcked, MarkAfterSend, MarkAfterSendFails, SendRefused, SendLinkError
  <2>2. send'.pc # "idle" => send.pc # "idle" /\ send'.msg = send.msg
    BY <1>0, <1>5 DEF CountPending, EvictOldest, InsertRow, CommitAdd, AddFails, AfterAdd,
                SendAcked, MarkAfterSend, MarkAfterSendFails, SendRefused, SendLinkError,
                CountSent, SendState
  <2> QED BY <2>1, <2>2, InHandKept
<1>6. CASE StartProducing \/ StopProducing \/ Cleanup \/ CleanupCommit \/ LinkUp \/ LinkDown
           \/ Crash \/ (\E s \in Loop : KafkaAppend(s)) \/ UNCHANGED vars
  <2>1. generated' = generated /\ send' \in {send, SendIdle} /\ flush' \in {flush, FlushIdle}
    BY <1>6 DEF StartProducing, StopProducing, Cleanup, CleanupCommit, LinkUp, LinkDown,
                Crash, KafkaAppend, vars, serviceVars
  <2> QED BY <1>0, <2>1, InHandKept
<1>7. CASE \/ FlushAsk \/ FetchFails \/ FlushReturn \/ FlushAcked \/ FlushMark
           \/ FlushMarkFails \/ FlushRefused \/ FlushLinkError
  <2>1. UNCHANGED serviceVars
    BY <1>7 DEF FlushAsk, FetchFails, FlushReturn, FlushAcked, FlushMark, FlushMarkFails,
                FlushRefused, FlushLinkError
  <2>2. flush'.pc # "send" /\ flush'.batch \subseteq flush.batch
    BY <1>0, <1>7 DEF FlushAsk, FetchFails, FlushReturn, FlushAcked, FlushMark,
                      FlushMarkFails, FlushRefused, FlushLinkError, FlushIdle, FlushState
  <2> QED BY <2>1, <2>2, InHandKept DEF serviceVars
<1> QED
  BY <1>1, <1>3, <1>4, <1>5, <1>6, <1>7 DEF Next, ProduceStep, FlushStep
=============================================================================
