------------------------------ MODULE Consumer ------------------------------
(***************************************************************************)
(* The HAMq consumer: the control plane and the consume loop of            *)
(* KafkaConsumerService, the offsets of its consumer group, and the SQLite *)
(* MessageStore it fills.                                                  *)
(*                                                                         *)
(* start() and stop() are coroutines of the same event loop as the consume *)
(* loop, so that a start can run while a stop waits.  A step is what a     *)
(* coroutine does from one await to the next; program counters name the    *)
(* await.                                                                  *)
(*                                                                         *)
(* The topic has one partition and the group one member with a partition:  *)
(* the client that joined last.  Topic, group and AIOKafkaConsumer are     *)
(* external.  The flags and counters that only the status page shows are   *)
(* left out (connected, received_count, checksum_errors, lag_estimate).    *)
(***************************************************************************)
EXTENDS Naturals, Sequences

CONSTANTS
  Msg,            \* message ids
  Refused,        \* those of records that save() cannot take: a field is missing
  Loop,           \* bound: names for consume loops, reused once they end
  Client,         \* bound: names for client objects, reused likewise
  MaxLog,         \* bound: records appended to the topic
  MaxCrashes,     \* bound: crashes of the consumer process
  SerialControl   \* TRUE if no start is called before the last stop returned

ASSUME ConsumerAssumption ==
  /\ Refused \subseteq Msg
  /\ 0 \notin Loop \union Client
  /\ Client \subseteq Nat
  /\ MaxLog \in Nat
  /\ MaxCrashes \in Nat
  /\ SerialControl \in BOOLEAN

VARIABLES
  topic,      \* the partition: message ids in offset order
  committed,  \* the group's committed offset: the next record to deliver
  rows,       \* the messages table, by received_at, as the connection sees it
  disk,       \* the messages table as last committed
  pruned,     \* messages the retention cleanup has deleted, committed or not
  running,    \* KafkaConsumerService.running
  handle,     \* _task: the last loop created, or None
  consumer,   \* _consumer: the client of the moment, or None
  loop,       \* the consume loops
  stop,       \* the stop() in progress
  live,       \* clients started and not stopped
  assigned,   \* the client that holds the partition, or None
  position,   \* its next fetch offset
  crashes

tableVars == <<rows, disk, pruned>>
kafkaVars == <<topic, committed>>
clientVars == <<consumer, live, assigned, position>>
vars == <<kafkaVars, tableVars, running, handle, loop, stop, clientVars, crashes>>

None == 0

Rows(t) == {t[i] : i \in DOMAIN t}

\* A loop waits at pc, for client when it waits for one, with records
\* first..last of the topic still to handle.
At(pc) == [pc |-> pc, client |-> None, first |-> 1, last |-> 0]
AtClient(pc, c) == [At(pc) EXCEPT !.client = c]

StopIdle == [pc |-> "idle", client |-> None]

\* The state of a fresh process that starts n loops, none or one.
Boot(n) ==
  /\ running' = (n # None)
  /\ handle' = n
  /\ loop' = [l \in Loop |-> At(IF l = n THEN "top" ELSE "gone")]
  /\ stop' = StopIdle
  /\ consumer' = None
  /\ live' = {}
  /\ assigned' = None
  /\ position' = 1

Init ==
  /\ topic = <<>>
  /\ committed = 1
  /\ rows = <<>>
  /\ disk = <<>>
  /\ pruned = {}
  /\ running = FALSE
  /\ handle = None
  /\ loop = [l \in Loop |-> At("gone")]
  /\ stop = StopIdle
  /\ consumer = None
  /\ live = {}
  /\ assigned = None
  /\ position = 1
  /\ crashes = 0

----------------------------------------------------------------------------
(* Clients.                                                                *)

\* An unused name for a client.
FreshClients ==
  Client \ ({consumer, stop.client, assigned} \union live
            \union {loop[l].client : l \in Loop})

\* Stopping client c: its fetches fail, and a start of it in progress fails.
Dropping(c, ls) ==
  [l \in Loop |-> IF ls[l].pc = "starting" /\ ls[l].client = c
                  THEN At("failed") ELSE ls[l]]

ClientStopped(c) ==
  /\ live' = live \ {c}
  /\ assigned' = IF assigned = c THEN None ELSE assigned
  /\ UNCHANGED position

\* _connect creates a client and awaits its start().
CreateClient(l, ls) ==
  \E c \in FreshClients :
    /\ \A d \in FreshClients : c <= d
    /\ consumer' = c
    /\ loop' = [ls EXCEPT ![l] = AtClient("starting", c)]

----------------------------------------------------------------------------
(* The control plane.                                                      *)

\* Seeded fault: the test of `running` is gone.
StartAgain ==
  /\ SerialControl => stop.pc = "idle"
  /\ \E l \in Loop :
       /\ loop[l].pc = "gone"
       /\ handle' = l
       /\ loop' = [loop EXCEPT ![l] = At("top")]
  /\ running' = TRUE
  /\ UNCHANGED <<kafkaVars, tableVars, stop, clientVars, crashes>>

Start ==
  /\ ~running
  /\ SerialControl => stop.pc = "idle"
  /\ \E l \in Loop :
       /\ loop[l].pc = "gone"
       /\ handle' = l
       /\ loop' = [loop EXCEPT ![l] = At("top")]
  /\ running' = TRUE
  /\ UNCHANGED <<kafkaVars, tableVars, stop, clientVars, crashes>>

\* _close_consumer as the end of stop(), up to the await of the client's stop().
StopCloses ==
  stop' = IF consumer = None THEN StopIdle
          ELSE [pc |-> "closing", client |-> consumer]

\* Seeded fault: a plain INSERT, into a table without the primary key.
InsertAgain(l) ==
  IF loop[l].pc = "insert" THEN Append(rows, topic[loop[l].first]) ELSE rows

\* An INSERT or a commit the cancelled loop was parked on is already queued on
\* the connection's thread.
QueuedInsert(l) ==
  IF loop[l].pc = "insert" /\ topic[loop[l].first] \notin Rows(rows)
  THEN Append(rows, topic[loop[l].first]) ELSE rows

\* stop(): clear the flag; cancel the loop `_task` refers to, if it is alive.
StopCalled ==
  /\ stop.pc = "idle"
  /\ running' = FALSE
  /\ \/ /\ handle # None
        /\ loop[handle].pc # "gone"
        /\ loop' = [loop EXCEPT ![handle] = At("cancelled")]
        /\ rows' = QueuedInsert(handle)
        /\ disk' = IF loop[handle].pc = "dbcommit" THEN rows ELSE disk
        /\ stop' = [StopIdle EXCEPT !.pc = "waiting"]
     \/ /\ handle # None => loop[handle].pc = "gone"
        /\ StopCloses
        /\ UNCHANGED <<loop, rows, disk>>
  /\ UNCHANGED <<kafkaVars, pruned, handle, clientVars, crashes>>

\* The cancelled loop ends; stop() is scheduled to resume.
CancelledEnds(l) ==
  /\ loop[l].pc = "cancelled"
  /\ loop' = [loop EXCEPT ![l] = At("gone")]
  /\ stop' = [stop EXCEPT !.pc = "resumed"]
  /\ UNCHANGED <<kafkaVars, tableVars, running, handle, clientVars, crashes>>

\* stop() forgets `_task`, which a start may have set meanwhile.
StopResumes ==
  /\ stop.pc = "resumed"
  /\ handle' = None
  /\ StopCloses
  /\ UNCHANGED <<kafkaVars, tableVars, running, loop, clientVars, crashes>>

StopEnds ==
  /\ stop.pc = "closing"
  /\ consumer' = None
  /\ ClientStopped(stop.client)
  /\ loop' = Dropping(stop.client, loop)
  /\ stop' = StopIdle
  /\ UNCHANGED <<kafkaVars, tableVars, running, handle, crashes>>

----------------------------------------------------------------------------
(* The consume loop: _run_loop, _connect, _consume, _handle_record, save.  *)

LoopGoes(l, state) ==
  /\ loop' = [loop EXCEPT ![l] = state]
  /\ UNCHANGED <<running, handle, stop, crashes>>

\* The top of `while self.running`: first turn, or after a backoff.
Turn(l) ==
  /\ loop[l].pc \in {"top", "failed"}
  /\ UNCHANGED <<kafkaVars, tableVars, live, assigned, position>>
  /\ \/ /\ ~running
        /\ LoopGoes(l, At("gone"))
        /\ UNCHANGED consumer
     \/ /\ running
        /\ consumer # None
        /\ LoopGoes(l, AtClient("closing", consumer))
        /\ UNCHANGED consumer
     \/ /\ running
        /\ consumer = None
        /\ CreateClient(l, loop)
        /\ UNCHANGED <<running, handle, stop, crashes>>

\* The old client is stopped and replaced at once.
Reopen(l) ==
  /\ loop[l].pc = "closing"
  /\ CreateClient(l, Dropping(loop[l].client, loop))
  /\ ClientStopped(loop[l].client)
  /\ UNCHANGED <<kafkaVars, tableVars, running, handle, stop, crashes>>

\* The inner `while self.running`: call getmany on the client of the moment, if
\* it is one of the clients started.
Polling(started) ==
  IF ~running THEN At("gone")
  ELSE IF consumer \in started THEN AtClient("poll", consumer)
  ELSE At("failed")

\* Seeded fault: consumption resumes at the end of the topic.
ConnectedAtEnd(l) ==
  /\ loop[l].pc = "starting"
  /\ live' = live \union {loop[l].client}
  /\ assigned' = loop[l].client
  /\ position' = Len(topic) + 1
  /\ LoopGoes(l, Polling(live \union {loop[l].client}))
  /\ UNCHANGED <<kafkaVars, tableVars, consumer>>

\* Seeded fault: the new client goes on where the old one had fetched to.
ConnectedInPlace(l) ==
  /\ loop[l].pc = "starting"
  /\ live' = live \union {loop[l].client}
  /\ assigned' = loop[l].client
  /\ LoopGoes(l, Polling(live \union {loop[l].client}))
  /\ UNCHANGED <<kafkaVars, tableVars, consumer, position>>

\* start() of the client returns: it joins the group, takes the partition over
\* and resumes at the committed offset.  The first poll follows at once.
Connected(l) ==
  /\ loop[l].pc = "starting"
  /\ live' = live \union {loop[l].client}
  /\ assigned' = loop[l].client
  /\ position' = committed
  /\ LoopGoes(l, Polling(live \union {loop[l].client}))
  /\ UNCHANGED <<kafkaVars, tableVars, consumer>>

\* _update_lag returns, whatever happened to the client meanwhile.
Poll(l) ==
  /\ loop[l].pc = "next"
  /\ LoopGoes(l, Polling(live))
  /\ UNCHANGED <<kafkaVars, tableVars, clientVars>>

\* Seeded fault: a record that save() cannot take is skipped.
SkipRefused(first, last) ==
  [At(IF topic[first] \in Refused THEN "offset" ELSE "insert")
     EXCEPT !.first = first, !.last = last]

\* A record is taken up: save() parks on its INSERT, or raises before it.
Handle(first, last) ==
  IF topic[first] \in Refused THEN At("failed")
  ELSE [At("insert") EXCEPT !.first = first, !.last = last]

\* getmany returns the records from the client's position on.
Fetched(l) ==
  /\ loop[l].pc = "poll"
  /\ loop[l].client = assigned
  /\ position <= Len(topic)
  /\ \E last \in position..Len(topic) :
       /\ LoopGoes(l, Handle(position, last))
       /\ position' = last + 1
  /\ UNCHANGED <<kafkaVars, tableVars, consumer, live, assigned>>

FetchedNothing(l) ==
  /\ loop[l].pc = "poll"
  /\ loop[l].client \in live
  /\ loop[l].client = assigned => position > Len(topic)
  /\ LoopGoes(l, At("next"))
  /\ UNCHANGED <<kafkaVars, tableVars, clientVars>>

\* INSERT OR IGNORE
InsertRow(l) ==
  /\ loop[l].pc = "insert"
  /\ rows' = QueuedInsert(l)
  /\ LoopGoes(l, [loop[l] EXCEPT !.pc = "dbcommit"])
  /\ UNCHANGED <<kafkaVars, disk, pruned, clientVars>>

CommitRow(l) ==
  /\ loop[l].pc = "dbcommit"
  /\ disk' = rows
  /\ LoopGoes(l, [loop[l] EXCEPT !.pc = "offset"])
  /\ UNCHANGED <<kafkaVars, rows, pruned, clientVars>>

\* The next record of the batch, or else _update_lag and the next poll.
NextRecord(l) ==
  IF loop[l].first < loop[l].last
  THEN Handle(loop[l].first + 1, loop[l].last)
  ELSE At("next")

\* Seeded fault: the offset committed is the end of the batch.
CommitBatch(l) ==
  /\ loop[l].pc = "offset"
  /\ consumer = assigned
  /\ consumer # None
  /\ committed' = loop[l].last + 1
  /\ LoopGoes(l, NextRecord(l))
  /\ UNCHANGED <<topic, tableVars, clientVars>>

\* commit({tp: record.offset + 1}) through the client of the moment, which need
\* not be the one the record came from.
CommitOffset(l) ==
  /\ loop[l].pc = "offset"
  /\ consumer = assigned
  /\ consumer # None
  /\ committed' = loop[l].first + 1
  /\ LoopGoes(l, NextRecord(l))
  /\ UNCHANGED <<topic, tableVars, clientVars>>

\* Seeded fault: the exception leaves the loop, as if it were not caught.
LoopDies(l) ==
  /\ loop[l].pc \in {"starting", "poll", "insert", "dbcommit", "offset"}
  /\ LoopGoes(l, At("died"))
  /\ UNCHANGED <<kafkaVars, tableVars, clientVars>>

\* Any of the awaits raises: back off, then reconnect.  A row inserted but not
\* committed stays in the open transaction.  An offset commit that raises though
\* the brokers took it is CommitOffset with a failure at the next await.
Fails(l) ==
  /\ loop[l].pc \in {"starting", "poll", "insert", "dbcommit", "offset"}
  /\ LoopGoes(l, At("failed"))
  /\ UNCHANGED <<kafkaVars, tableVars, clientVars>>

LoopStep(l) ==
  \/ Turn(l) \/ Reopen(l) \/ Connected(l) \/ Poll(l) \/ Fetched(l)
  \/ FetchedNothing(l) \/ InsertRow(l) \/ CommitRow(l) \/ CommitOffset(l)
  \/ Fails(l) \/ CancelledEnds(l)

----------------------------------------------------------------------------
(* Maintenance and environment.                                            *)

\* cleanup_old, the DELETE: the rows received before a cutoff go.
Cleanup ==
  /\ \E k \in DOMAIN rows :
       /\ rows' = SubSeq(rows, k + 1, Len(rows))
       /\ pruned' = pruned \union {rows[i] : i \in 1..k}
  /\ UNCHANGED <<kafkaVars, disk, running, handle, loop, stop, clientVars, crashes>>

\* cleanup_old, the commit, which takes the open transaction along.  A pass that
\* finds nothing to delete commits as well, so that a commit is due at any time;
\* one that raises leaves its DELETE to a later one.
CleanupCommit ==
  /\ disk' = rows
  /\ UNCHANGED <<kafkaVars, rows, pruned, running, handle, loop, stop, clientVars,
                 crashes>>

\* The producer appends; it may send a message again.
Produce ==
  /\ Len(topic) < MaxLog
  /\ \E m \in Msg : topic' = Append(topic, m)
  /\ UNCHANGED <<committed, tableVars, running, handle, loop, stop, clientVars, crashes>>

\* The process dies, and its successor starts consuming or waits for a start.
Crash ==
  /\ crashes < MaxCrashes
  /\ crashes' = crashes + 1
  /\ rows' = disk
  /\ \E n \in Loop \union {None} : Boot(n)
  /\ UNCHANGED <<kafkaVars, disk, pruned>>

StopStep == StopResumes \/ StopEnds

Next ==
  \/ Start
  \/ StopCalled
  \/ StopStep
  \/ \E l \in Loop : LoopStep(l)
  \/ Cleanup \/ CleanupCommit
  \/ Produce
  \/ Crash

Spec == Init /\ [][Next]_vars

\* The event loop resumes every coroutine whose await has ended, and they end.
LiveSpec ==
  /\ Spec
  /\ WF_vars(StopStep)
  /\ \A l \in Loop : WF_vars(LoopStep(l))

----------------------------------------------------------------------------
(* Properties.                                                             *)

LoopPC == {"gone", "top", "closing", "starting", "next", "poll", "insert",
           "dbcommit", "offset", "failed", "cancelled"}

Offset == 1..(MaxLog + 1)

LoopState == [pc : LoopPC, client : Client \union {None},
              first : Offset, last : Nat]
StopState == [pc : {"idle", "waiting", "resumed", "closing"},
              client : Client \union {None}]

\* The state has its type; a loop waits at an await of the code, or is over.
TypeOK ==
  /\ topic \in Seq(Msg) /\ Len(topic) <= MaxLog
  /\ committed \in Offset
  /\ rows \in Seq(Msg)
  /\ disk \in Seq(Msg)
  /\ pruned \subseteq Msg
  /\ running \in BOOLEAN
  /\ handle \in Loop \union {None}
  /\ consumer \in Client \union {None}
  /\ loop \in [Loop -> LoopState]
  /\ stop \in StopState
  /\ live \subseteq Client
  /\ assigned \in Client \union {None}
  /\ position \in Offset
  /\ crashes \in 0..MaxCrashes

\* _consume promises at-least-once delivery: a record below the committed
\* offset, which no restart delivers again, is durably stored (or was, until
\* its retention ran out).
CommittedIsStored ==
  \A i \in 1..(committed - 1) : topic[i] \in Rows(disk) \union pruned

\* A message is stored only after all that precede it in the topic, so that the
\* greatest number in the table, which the arbiter takes as a watermark, says
\* how far the consumer has come: through redelivered batches, new members that
\* resume at the offset, and rows that another loop's commit takes along.
StoredInOrder ==
  \A m \in Rows(disk) :
    \E j \in DOMAIN topic :
      topic[j] = m /\ \A i \in 1..(j - 1) : topic[i] \in Rows(disk) \union pruned

\* A message is stored once, whatever was delivered twice (INSERT OR IGNORE),
\* by whichever loop: no two rows of the table hold the same id.
StoredOnce ==
  \A i, j \in DOMAIN rows : rows[i] = rows[j] => i = j

\* When control calls wait for each other there is one consume loop, and none
\* once a stop has returned.
OneLoop ==
  SerialControl =>
    /\ \A l, k \in Loop : loop[l].pc # "gone" /\ loop[k].pc # "gone" => l = k
    /\ ~running /\ stop.pc = "idle" => \A l \in Loop : loop[l].pc = "gone"

\* A consumer left running, once polls, writes and commits stop failing, stores
\* the topic up to the first record that save() cannot take, which holds up all
\* that come after it: the backoff resumes from the committed offset.
EventuallyStored ==
  (/\ <>[](running /\ stop.pc = "idle")
   /\ <>[][\A l \in Loop : ~Fails(l)]_vars)
  => \A i \in 1..MaxLog :
       (i <= Len(topic) /\ \A j \in 1..i : topic[j] \notin Refused)
         ~> (i <= Len(topic) /\ topic[i] \in Rows(disk) \union pruned)

\* What the users of the consumer rely on, with clients, loops, the transaction
\* and crashes hidden: every step is one of Inbox, or no change at all.  The
\* offset moves by one record at a time and never past one that is not stored.
Inbox == INSTANCE Inbox WITH
  next   <- committed,
  stored <- Rows(disk)

Promise == Inbox!Spec
=============================================================================
