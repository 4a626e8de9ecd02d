------------------------------ MODULE Producer ------------------------------
(***************************************************************************)
(* The HAMq producer: the produce loop of ProducerService, the send path   *)
(* and the flush and cleanup loops of ResilientKafkaProducer, and the      *)
(* SQLite buffer they share.                                               *)
(*                                                                         *)
(* Everything runs on one asyncio event loop: a step of this model is what *)
(* a coroutine does between two awaits, together with the operation the    *)
(* await waited for.  The names of the program counters say which await a  *)
(* loop is parked on.                                                      *)
(*                                                                         *)
(* The connection to Kafka appears as the flag `_connected` alone: it may  *)
(* come up and drop at any step.  How the reconnect tasks drive it is the  *)
(* subject of module KafkaLink.  The topic log is external: it is kept up  *)
(* to duplicates, as the sequence of first appends.                        *)
(***************************************************************************)
EXTENDS MessageBuffer, Sequences

CONSTANTS
  MaxCrashes,   \* bound: crashes (or shutdowns) of the producer process
  DbFaults      \* TRUE if SQLite operations may raise

ASSUME FaultsAssumption == MaxCrashes \in Nat /\ DbFaults \in BOOLEAN

VARIABLES
  rows,       \* the messages table as the shared connection sees it
  disk,       \* the messages table as last committed
  running,    \* ProducerService._running
  generated,  \* messages generated so far (the next id)
  send,       \* the produce loop: where it waits, and its message
  flush,      \* the flush loop: where it waits, its message, its batch
  connected,  \* ResilientKafkaProducer._connected
  ahead,      \* of two sends in flight, the loop whose send came first
  log,        \* the topic: first append of each message, in order
  counted,    \* messages the loop put in _recent_messages / _sent_count
  evicted,    \* messages some add() has evicted
  unbuffered, \* messages whose add() returned False
  uncounted,  \* messages whose add() could not count the buffer
  crashes

bufferVars  == <<rows, disk>>
serviceVars == <<running, generated, send>>
kafkaVars   == <<connected, ahead, log>>
lossVars == <<evicted, unbuffered, uncounted>>
historyVars == <<counted, lossVars, crashes>>
vars == <<bufferVars, serviceVars, flush, kafkaVars, historyVars>>

NoMsg == 0

SendIdle == [pc |-> "idle", msg |-> NoMsg]
FlushIdle == [pc |-> "sleep", msg |-> NoMsg, batch |-> {}, progress |-> FALSE]

\* The messages in the topic.
Published == {log[i] : i \in DOMAIN log}

Init ==
  /\ rows = EmptyTable
  /\ disk = EmptyTable
  /\ running = TRUE
  /\ generated = 0
  /\ send = SendIdle
  /\ flush = FlushIdle
  /\ connected = FALSE
  /\ ahead = "produce"
  /\ log = <<>>
  /\ counted = {}
  /\ evicted = {}
  /\ unbuffered = {}
  /\ uncounted = {}
  /\ crashes = 0

----------------------------------------------------------------------------
(* The produce loop: _generate_message, send_message, MessageBuffer.add.   *)

\* The message leaves the loop counted as sent, delivered or not.
CountSent ==
  /\ counted' = counted \union {send.msg}
  /\ send' = SendIdle

Generate ==
  /\ running
  /\ send.pc = "idle"
  /\ generated < MaxMessages
  /\ generated' = generated + 1
  /\ send' = [pc |-> "count", msg |-> generated + 1]
  /\ UNCHANGED <<bufferVars, running, flush, kafkaVars, historyVars>>

\* The count that decides the eviction.  count_pending() answers 0 when its
\* query raises, so that a fault reads as an empty buffer.
CountPending ==
  /\ send.pc = "count"
  /\ \E faulty \in {f \in BOOLEAN : f => DbFaults} :
       /\ send' = [send EXCEPT !.pc = IF ~faulty /\ IsFull(rows)
                                      THEN "evict" ELSE "insert"]
       /\ uncounted' = IF faulty THEN uncounted \union {send.msg} ELSE uncounted
  /\ UNCHANGED <<bufferVars, running, generated, flush, kafkaVars,
                 counted, evicted, unbuffered, crashes>>

\* The DELETE.  It is not committed yet, and the count it relies on may be old.
EvictOldest ==
  /\ send.pc = "evict"
  /\ rows' = Evict(rows)
  /\ evicted' = evicted \union Victims(rows)
  /\ send' = [send EXCEPT !.pc = "insert"]
  /\ UNCHANGED <<disk, running, generated, flush, kafkaVars,
                 counted, unbuffered, uncounted, crashes>>

InsertRow ==
  /\ send.pc = "insert"
  /\ rows' = Insert(rows, send.msg)
  /\ send' = [send EXCEPT !.pc = "commit"]
  /\ UNCHANGED <<disk, running, generated, flush, kafkaVars, historyVars>>

\* send_message after add(): send at once when connected, else leave the row
\* to the flush loop.  The value add() returned is not looked at.
AfterAdd ==
  /\ UNCHANGED <<running, generated, flush, connected, log, evicted, uncounted,
                 crashes>>
  /\ \/ /\ connected
        /\ send' = [send EXCEPT !.pc = "send"]
        /\ ahead' = IF flush.pc = "send" THEN "flush" ELSE "produce"
        /\ UNCHANGED counted
     \/ /\ ~connected
        /\ CountSent
        /\ UNCHANGED ahead

\* Seeded fault: the commit is forgotten.
ForgetCommit ==
  /\ send.pc = "commit"
  /\ AfterAdd
  /\ UNCHANGED <<bufferVars, unbuffered>>

CommitAdd ==
  /\ send.pc = "commit"
  /\ disk' = rows
  /\ AfterAdd
  /\ UNCHANGED <<rows, unbuffered>>

\* The DELETE, the INSERT or the commit raises: add() returns False, and what
\* it already did stays in the open transaction.
AddFails ==
  /\ DbFaults
  /\ send.pc \in {"evict", "insert", "commit"}
  /\ unbuffered' = unbuffered \union {send.msg}
  /\ AfterAdd
  /\ UNCHANGED bufferVars

\* send_and_wait returns: the brokers acknowledged.
SendAcked ==
  /\ send.pc = "send"
  /\ send.msg \in Published
  /\ send' = [send EXCEPT !.pc = "mark"]
  /\ UNCHANGED <<bufferVars, running, generated, flush, kafkaVars, historyVars>>

\* mark_sent: UPDATE and commit.
MarkAfterSend ==
  /\ send.pc = "mark"
  /\ rows' = MarkSent(rows, send.msg)
  /\ disk' = rows'
  /\ CountSent
  /\ UNCHANGED <<running, generated, flush, kafkaVars,
                 lossVars, crashes>>

\* The UPDATE or the commit of mark_sent raises; the UPDATE may have happened.
\* The produce loop counts an error, not the message.
MarkAfterSendFails ==
  /\ DbFaults
  /\ send.pc = "mark"
  /\ rows' \in {rows, MarkSent(rows, send.msg)}
  /\ send' = SendIdle
  /\ UNCHANGED <<disk, running, generated, flush, kafkaVars, historyVars>>

\* Seeded fault: the row is marked whatever the brokers answered.
SendRefusedMarks ==
  /\ send.pc = "send"
  /\ rows' = MarkSent(rows, send.msg)
  /\ disk' = rows'
  /\ CountSent
  /\ UNCHANGED <<running, generated, flush, kafkaVars, lossVars, crashes>>

\* A KafkaError that leaves the connection up: send_message returns False.
SendRefused ==
  /\ send.pc = "send"
  /\ CountSent
  /\ UNCHANGED <<bufferVars, running, generated, flush, kafkaVars,
                 lossVars, crashes>>

\* KafkaConnectionError or KafkaTimeoutError: the connection is given up.
SendLinkError ==
  /\ send.pc = "send"
  /\ connected' = FALSE
  /\ CountSent
  /\ UNCHANGED <<bufferVars, running, generated, flush, ahead, log,
                 lossVars, crashes>>

StartProducing ==
  /\ ~running
  /\ running' = TRUE
  /\ UNCHANGED <<bufferVars, generated, send, flush, kafkaVars, historyVars>>

\* What the database operation a cancelled coroutine was parked on still does:
\* it is already queued on the connection's thread.
QueuedOperation ==
  CASE send.pc = "evict"  -> Evict(rows)
    [] send.pc = "insert" -> Insert(rows, send.msg)
    [] send.pc = "mark"   -> MarkSent(rows, send.msg)
    [] OTHER              -> rows

\* stop_producing cancels the loop at whatever await it is parked on.
StopProducing ==
  /\ running
  /\ running' = FALSE
  /\ send' = SendIdle
  /\ rows' = QueuedOperation
  /\ disk' = IF send.pc = "commit" THEN rows ELSE disk
  /\ evicted' = IF send.pc = "evict" THEN evicted \union Victims(rows) ELSE evicted
  /\ UNCHANGED <<generated, flush, kafkaVars, counted, unbuffered, uncounted,
                 crashes>>

----------------------------------------------------------------------------
(* The flush loop: _flush_loop, _flush_buffer, _send_single.               *)

\* The loop turns to message m of batch B.
FlushSend(m, B, progress) ==
  /\ flush' = [pc |-> "send", msg |-> m, batch |-> B \ {m}, progress |-> progress]
  /\ ahead' = IF send.pc = "send" THEN "produce" ELSE "flush"

\* get_pending is asked at the loop's wake-up, and again after a batch in which
\* some send succeeded.
FlushAsk ==
  /\ \/ flush.pc = "sleep" /\ connected
     \/ flush.pc = "loop" /\ flush.batch = {} /\ flush.progress
  /\ flush' = [FlushIdle EXCEPT !.pc = "fetch"]
  /\ UNCHANGED <<bufferVars, serviceVars, kafkaVars, historyVars>>

\* get_pending answers, and the loop turns to the first row of the batch.
FlushFetch ==
  /\ flush.pc = "fetch"
  /\ connected
  /\ GetPending(rows) # {}
  /\ FlushSend(Oldest(GetPending(rows)), GetPending(rows), FALSE)
  /\ UNCHANGED <<bufferVars, serviceVars, connected, log, historyVars>>

\* The SELECT raises: get_pending answers with an empty list, which the loop
\* takes for an empty buffer.
FetchFails ==
  /\ DbFaults
  /\ flush.pc = "fetch"
  /\ connected
  /\ GetPending(rows) # {}
  /\ flush' = FlushIdle
  /\ UNCHANGED <<bufferVars, serviceVars, kafkaVars, historyVars>>

FlushNext ==
  /\ flush.pc = "loop"
  /\ flush.batch # {}
  /\ connected
  /\ FlushSend(Oldest(flush.batch), flush.batch, flush.progress)
  /\ UNCHANGED <<bufferVars, serviceVars, connected, log, historyVars>>

\* _flush_buffer returns: the connection is lost, nothing is pending, or no send
\* of the batch worked.
PassIsOver ==
  \/ flush.pc = "fetch" /\ (~connected \/ GetPending(rows) = {})
  \/ flush.pc = "loop" /\ flush.batch # {} /\ ~connected
  \/ flush.pc = "loop" /\ flush.batch = {} /\ ~flush.progress

\* Seeded fault: a lost connection ends the loop.
FlushLoopEnds ==
  /\ PassIsOver
  /\ flush' = [FlushIdle EXCEPT !.pc = IF connected THEN "sleep" ELSE "ended"]
  /\ UNCHANGED <<bufferVars, serviceVars, kafkaVars, historyVars>>

FlushReturn ==
  /\ PassIsOver
  /\ flush' = FlushIdle
  /\ UNCHANGED <<bufferVars, serviceVars, kafkaVars, historyVars>>

\* Seeded fault: any answer of the client is taken for an acknowledgement.
FlushAckedBlindly ==
  /\ flush.pc = "send"
  /\ flush' = [flush EXCEPT !.pc = "mark"]
  /\ UNCHANGED <<bufferVars, serviceVars, kafkaVars, historyVars>>

FlushAcked ==
  /\ flush.pc = "send"
  /\ flush.msg \in Published
  /\ flush' = [flush EXCEPT !.pc = "mark"]
  /\ UNCHANGED <<bufferVars, serviceVars, kafkaVars, historyVars>>

FlushMark ==
  /\ flush.pc = "mark"
  /\ rows' = MarkSent(rows, flush.msg)
  /\ disk' = rows'
  /\ flush' = [flush EXCEPT !.pc = "loop", !.progress = TRUE]
  /\ UNCHANGED <<serviceVars, kafkaVars, historyVars>>

\* As above, but _flush_loop swallows the exception and sleeps.
FlushMarkFails ==
  /\ DbFaults
  /\ flush.pc = "mark"
  /\ rows' \in {rows, MarkSent(rows, flush.msg)}
  /\ flush' = FlushIdle
  /\ UNCHANGED <<disk, serviceVars, kafkaVars, historyVars>>

FlushRefused ==
  /\ flush.pc = "send"
  /\ flush' = [flush EXCEPT !.pc = "loop"]
  /\ UNCHANGED <<bufferVars, serviceVars, kafkaVars, historyVars>>

\* The rest of the batch is dropped at once: the loop finds the flag it reset.
FlushLinkError ==
  /\ flush.pc = "send"
  /\ connected' = FALSE
  /\ flush' = IF flush.batch = {} THEN [flush EXCEPT !.pc = "loop"] ELSE FlushIdle
  /\ UNCHANGED <<bufferVars, serviceVars, ahead, log, historyVars>>

\* cleanup_sent, the DELETE: rows marked sent more than an hour ago go.
Cleanup ==
  /\ \E k \in Msg :
       /\ rows[k] = "sent"
       /\ rows' = CleanupSent(rows, k)
  /\ UNCHANGED <<disk, serviceVars, flush, kafkaVars, historyVars>>

\* cleanup_sent, the commit, which takes along whatever else is in the open
\* transaction.  A pass that finds nothing to delete commits as well, so that a
\* commit is due at any time; one that raises leaves its DELETE to a later one.
CleanupCommit ==
  /\ disk' = rows
  /\ UNCHANGED <<rows, serviceVars, flush, kafkaVars, historyVars>>

----------------------------------------------------------------------------
(* The environment: brokers, connection, process.                          *)

Loop == {"produce", "flush"}
InFlight(s) == IF s = "produce" THEN send ELSE flush
Other(s) == IF s = "produce" THEN "flush" ELSE "produce"

\* The brokers append a message in flight; whether the loop hears of it is
\* another matter.  A client sends to the partition in the order it was called.
KafkaAppend(s) ==
  /\ InFlight(s).pc = "send"
  /\ InFlight(s).msg \notin Published
  /\ \/ ahead = s
     \/ InFlight(Other(s)).pc # "send"
     \/ InFlight(Other(s)).msg \in Published
  /\ log' = Append(log, InFlight(s).msg)
  /\ UNCHANGED <<bufferVars, serviceVars, flush, connected, ahead, historyVars>>

LinkUp ==
  /\ ~connected
  /\ connected' = TRUE
  /\ UNCHANGED <<bufferVars, serviceVars, flush, ahead, log, historyVars>>

LinkDown ==
  /\ connected
  /\ connected' = FALSE
  /\ UNCHANGED <<bufferVars, serviceVars, flush, ahead, log, historyVars>>

\* The process dies and its successor opens the same file: the open
\* transaction is rolled back and the loops start anew.
Crash ==
  /\ crashes < MaxCrashes
  /\ crashes' = crashes + 1
  /\ rows' = disk
  /\ send' = SendIdle
  /\ flush' = FlushIdle
  /\ connected' = FALSE
  /\ running' \in BOOLEAN
  /\ UNCHANGED <<disk, generated, ahead, log, counted, lossVars>>

ProduceStep ==
  \/ Generate \/ CountPending \/ EvictOldest \/ InsertRow \/ CommitAdd \/ AddFails
  \/ SendAcked \/ MarkAfterSend \/ MarkAfterSendFails \/ SendRefused \/ SendLinkError

FlushStep ==
  \/ FlushAsk \/ FlushFetch \/ FetchFails \/ FlushNext \/ FlushReturn \/ FlushAcked
  \/ FlushMark \/ FlushMarkFails \/ FlushRefused \/ FlushLinkError

Next ==
  \/ ProduceStep
  \/ StartProducing \/ StopProducing
  \/ FlushStep
  \/ Cleanup \/ CleanupCommit
  \/ \E s \in Loop : KafkaAppend(s)
  \/ LinkUp \/ LinkDown
  \/ Crash

Spec == Init /\ [][Next]_vars

\* Both loops are tasks the event loop always runs again: sleeps are bounded and
\* send_and_wait times out.  Of the brokers the liveness run assumes that a
\* message the flush loop sends again and again is not refused every time; of the
\* database nothing, EventuallyFlushed names what it needs.
LiveSpec ==
  /\ Spec
  /\ WF_vars(ProduceStep)
  /\ WF_vars(FlushStep)
  /\ SF_vars(FlushAcked)
  /\ SF_vars(KafkaAppend("flush"))

----------------------------------------------------------------------------
(* Properties.                                                             *)

SendPC == {"idle", "count", "evict", "insert", "commit", "send", "mark"}
FlushPC == {"sleep", "fetch", "loop", "send", "mark"}

SendState == [pc : SendPC, msg : Msg \union {NoMsg}]
FlushState == [pc : FlushPC, msg : Msg \union {NoMsg},
               batch : SUBSET Msg, progress : BOOLEAN]

\* The state has its type; a row is absent, pending or sent, nothing else.
TypeOK ==
  /\ rows \in Table
  /\ disk \in Table
  /\ running \in BOOLEAN
  /\ generated \in 0..MaxMessages
  /\ send \in SendState
  /\ flush \in FlushState
  /\ connected \in BOOLEAN
  /\ ahead \in Loop
  /\ log \in Seq(Msg)
  /\ counted \subseteq Msg
  /\ evicted \subseteq Msg
  /\ unbuffered \subseteq Msg
  /\ uncounted \subseteq Msg
  /\ crashes \in 0..MaxCrashes

\* The messages send_message has taken charge of: those being sent by the
\* produce loop and those it has counted as sent.
HandedOver ==
  counted \union (IF send.pc \in {"send", "mark"} THEN {send.msg} ELSE {})

\* A message the producer reports as sent is never silently lost: it is
\* committed as pending, or in the topic, or else an overflowing add() evicted
\* it or its own add() failed.  It holds in every interleaving of the two
\* loops, across cancellation, failed writes and crashes (send_message
\* persists before it sends; mark_sent only follows the acknowledgement).
NoSilentLoss ==
  \A m \in HandedOver :
    disk[m] = "pending" \/ m \in Published \/ m \in evicted \union unbuffered

\* A row is flagged sent, in the open transaction or on disk, only if its own
\* message is in the topic (_send_single marks after send_and_wait returns).
SentImpliesPublished ==
  \A m \in Msg : "sent" \in {rows[m], disk[m]} => m \in Published

\* The pending rows exceed BUFFER_MAX_SIZE by no more than the adds whose count
\* raised and read as "empty", although add() counts, deletes and inserts in
\* three awaits on a connection that the flush loop uses as well (add).
PendingWithinLimit ==
  \A t \in {rows, disk} :
    Cardinality(Pending(t)) <= BufferMax + Cardinality(uncounted)

\* What a commit, whichever loop issues it, may do to a durable row: a pending
\* one stays until its message is in the topic or evicted, and one marked sent
\* is never pending again, so that no restart resends it.
DurableRowLifecycle ==
  [][\A m \in Msg :
       /\ disk[m] = "pending" /\ disk'[m] # "pending" => m \in Published \union evicted
       /\ disk[m] = "sent" => disk'[m] # "pending"]_vars

\* What the users of the producer rely on, with the loops, the transaction and
\* the crashes hidden: every step of the code is one of Outbox, or no change at
\* all.  A message is reported as sent only where it is safe, leaves the disk
\* only for the topic (or the log of losses), and never comes back.
Outbox == INSTANCE Outbox WITH
  accepted  <- counted,
  held      <- Pending(disk),
  published <- Published,
  dropped   <- evicted \union unbuffered

Promise == Outbox!Spec

\* Once the connection stays up and neither get_pending nor mark_sent raises any
\* more, every committed pending message reaches the topic unless it is evicted:
\* the flush loop starves none, also after a crash (_flush_buffer).  Both
\* conditions are needed: a get_pending that raises every time reads as an empty
\* buffer for ever.
EventuallyFlushed ==
  (<>[]connected /\ <>[][~FlushMarkFails /\ ~FetchFails]_vars) =>
    \A m \in Msg : disk[m] = "pending" ~> m \in Published \union evicted

\* The module promises that the flush is FIFO, so that sequence numbers arrive
\* in order: first appends are in generation order.
ArriveInOrder ==
  \A i, j \in DOMAIN log : i < j => log[i] < log[j]

=============================================================================
