---------------------------- MODULE Orchestrator ----------------------------
(***************************************************************************)
(* The HAMq test orchestrator: a producer that sends 1, 2 ... counter_max, *)
(* 1 ... to a topic of its own, a consumer, and the Judge, which tells     *)
(* from the counters received which ones are missing.                      *)
(*                                                                         *)
(* The handlers start, stop and reset wait for Kafka; a step is what a     *)
(* handler does from one await to the next, and one call of each kind may  *)
(* be in progress.  The topic is one partition (all records have one key), *)
(* without an idempotent producer: a record is lost after send() returned, *)
(* or appended, and a retry appends its whole batch again.  A send() that  *)
(* fails changes nothing and is tried again.  Topic, group and the two     *)
(* clients are external.                                                   *)
(*                                                                         *)
(* Rates, totals, history, the number of cycles, first-missing times and   *)
(* AUTOSTART are left out; of update_config, the counter_max, which the    *)
(* next start reads.                                                       *)
(***************************************************************************)
EXTENDS Naturals, Sequences

CONSTANTS
  CounterMax,    \* COUNTER_MAX, also the largest counter_max a test is given
  Maxima,        \* the values update_config may give counter_max
  MaxSends,      \* bound: records sent, and batches sent again
  MaxBatch,      \* bound: records of a batch that is sent again
  MaxCrashes,    \* bound: crashes and shutdowns of the process
  SerialControl  \* TRUE if a handler is called only when no other is in progress

ASSUME OrchestratorAssumption ==
  /\ CounterMax \in Nat \ {0}
  /\ Maxima \subseteq 1..CounterMax
  /\ MaxSends \in Nat
  /\ MaxBatch \in Nat
  /\ MaxCrashes \in Nat
  /\ SerialControl \in BOOLEAN

VARIABLES
  running,   \* app.state.running
  counterMax,  \* app.state.counter_max
  maxVal,    \* the counter_max that the start in progress has read, or 0
  call,      \* where each handler waits
  prod,      \* CounterProducer: _running, the counter its loop sends next, and
             \* the one after which it begins anew
  sentCounter,  \* CounterProducer.sent_counter
  cons,      \* CounterConsumer: _running, and whether its loop runs
  received,  \* Judge.received
  topic,     \* the records since the last purge, in offset order
  position,  \* the consumer's next offset
  committed, \* the group's offset
  delivered, \* records of the topic delivered at least once
  round,     \* how often this test's counter has come round to 1
  lost,      \* the records of this test that were lost
  doubtful,  \* the records of the topic up to here may mislead the judge
  sends,
  crashes

configVars == <<counterMax, maxVal>>
controlVars == <<running, configVars, call>>
groupVars == <<position, committed, delivered>>
testVars == <<round, lost, doubtful>>
truthVars == <<testVars, sends, crashes>>
vars == <<controlVars, prod, sentCounter, cons, received, topic, groupVars, truthVars>>

Handler == {"start", "stop", "reset"}
Counter == 1..CounterMax
Rec == [n : Counter, round : Nat]

NoLoop == [running |-> FALSE, next |-> 0, max |-> 0]

Init ==
  /\ running = FALSE
  /\ counterMax = CounterMax
  /\ maxVal = 0
  /\ call = [h \in Handler |-> "idle"]
  /\ prod = NoLoop
  /\ sentCounter = 0
  /\ cons = [running |-> FALSE, loop |-> FALSE]
  /\ received = {}
  /\ topic = <<>>
  /\ position = 0 /\ committed = 0 /\ delivered = 0
  /\ round = 0 /\ lost = {} /\ doubtful = 0 /\ sends = 0 /\ crashes = 0

----------------------------------------------------------------------------
(* The Judge.                                                              *)

\* Seeded fault: cycles are run together.
RecordAlways(set, n) == set \union {n}

Record(set, n) == IF n = 1 THEN {1} ELSE set \union {n}

Missing == {i \in Counter \ received : \E n \in received : i < n}

----------------------------------------------------------------------------
(* The handlers.                                                           *)

Called(h) ==
  /\ call[h] = "idle"
  /\ SerialControl => \A other \in Handler : call[other] = "idle"

Waits(h, pc) == call' = [call EXCEPT ![h] = pc]

\* Seeded fault: the counter of the last test is kept, and gone on from.
KeepCounter ==
  /\ received' = {}
  /\ round' = 0 /\ lost' = {} /\ doubtful' = Len(topic)
  /\ UNCHANGED sentCounter

\* What the topic has now is of an earlier test.
ClearResults ==
  /\ received' = {}
  /\ sentCounter' = 0
  /\ round' = 0 /\ lost' = {} /\ doubtful' = Len(topic)

Start ==
  /\ Called("start")
  /\ ~ running
  /\ running' = TRUE
  /\ maxVal' = counterMax
  /\ ClearResults
  /\ Waits("start", "purge")
  /\ UNCHANGED <<counterMax, prod, cons, topic, groupVars, sends, crashes>>

Reset ==
  /\ Called("reset")
  /\ ~ running
  /\ ClearResults
  /\ Waits("reset", "purge")
  /\ UNCHANGED <<running, configVars, prod, cons, topic, groupVars, sends, crashes>>

AfterPurge(h) == Waits(h, IF h = "start" THEN "consumer" ELSE "idle")

\* The committed offset falls before the log: the group starts at its start.
Purge(h) ==
  /\ call[h] = "purge"
  /\ topic' = <<>>
  /\ position' = 0 /\ committed' = 0 /\ delivered' = 0
  /\ doubtful' = 0
  /\ AfterPurge(h)
  /\ UNCHANGED <<running, configVars, prod, sentCounter, cons, received, round, lost,
                 sends, crashes>>

\* describe_topics answers nothing, or an error code: purge_topic() takes it for
\* a topic that does not exist and returns as if all were well.
PurgeSkipped(h) ==
  /\ call[h] = "purge"
  /\ AfterPurge(h)
  /\ UNCHANGED <<running, configVars, prod, sentCounter, cons, received, topic, groupVars, truthVars>>

\* cons.start(); the handler waits for the client to join.
StartConsumer ==
  /\ call["start"] = "consumer"
  /\ cons' = [cons EXCEPT !.running = TRUE]
  /\ Waits("start", IF cons.running THEN "sleep" ELSE "join")
  /\ UNCHANGED <<running, configVars, prod, sentCounter, received, topic, groupVars, truthVars>>

\* If stop() has taken the client meanwhile, the loop ends at once.
Joined ==
  /\ call["start"] = "join"
  /\ cons' = [cons EXCEPT !.loop = cons.running]
  /\ position' = committed
  /\ Waits("start", "sleep")
  /\ UNCHANGED <<running, configVars, prod, sentCounter, received, topic, committed, delivered, truthVars>>

\* prod.start(), after the sleep; it returns at once if already running.
StartProducer ==
  /\ call["start"] = "sleep"
  /\ prod' = [prod EXCEPT !.running = TRUE]
  /\ Waits("start", IF prod.running THEN "idle" ELSE "connect")
  /\ maxVal' = IF prod.running THEN 0 ELSE maxVal
  /\ UNCHANGED <<running, counterMax, sentCounter, cons, received, topic, groupVars, truthVars>>

Connected ==
  /\ call["start"] = "connect"
  /\ prod' = IF prod.running
             THEN [running |-> TRUE,
                   next |-> IF sentCounter > 0 THEN sentCounter ELSE 1,
                   max |-> maxVal]
             ELSE NoLoop
  /\ maxVal' = 0
  /\ Waits("start", "idle")
  /\ UNCHANGED <<running, counterMax, sentCounter, cons, received, topic, groupVars, truthVars>>

\* Kafka does not answer: the exception leaves the handler as it is.
CallFails(h) ==
  /\ call[h] \in {"purge", "join", "connect"}
  /\ Waits(h, "idle")
  /\ maxVal' = IF h = "start" THEN 0 ELSE maxVal
  /\ UNCHANGED <<running, counterMax, prod, sentCounter, cons, received, topic, groupVars, truthVars>>

\* cons.stop(): with a last commit, or without.  If the loop had died, its
\* exception leaves stop() before the client is closed: such a client goes on as
\* a member that reads nothing, and while it has the partition nothing is
\* consumed.
ConsumerStops ==
  /\ cons' = [running |-> FALSE, loop |-> FALSE]
  /\ committed' \in {committed, position}

\* prod.stop() waits only if there is a client to close.
Stop ==
  /\ Called("stop")
  /\ running
  /\ running' = FALSE
  /\ prod' = NoLoop
  /\ IF prod.running THEN Waits("stop", "producer") /\ UNCHANGED <<cons, committed>>
                     ELSE ConsumerStops /\ UNCHANGED call
  /\ UNCHANGED <<configVars, sentCounter, received, topic, position, delivered, truthVars>>

StopConsumer ==
  /\ call["stop"] = "producer"
  /\ ConsumerStops
  /\ Waits("stop", "idle")
  /\ UNCHANGED <<running, configVars, prod, sentCounter, received, topic, position, delivered, truthVars>>

\* A test in progress keeps the counter_max it began with.
UpdateConfig ==
  /\ counterMax' \in Maxima
  /\ UNCHANGED <<running, maxVal, call, prod, sentCounter, cons, received, topic,
                 groupVars, truthVars>>

----------------------------------------------------------------------------
(* The loops, and Kafka.                                                   *)

\* Seeded fault: the counter goes on after counter_max.
OneMore(n) == n + 1

NextCounter(n) == (n % prod.max) + 1

Send ==
  /\ prod.next > 0
  /\ sends < MaxSends
  /\ sends' = sends + 1
  /\ sentCounter' = prod.next
  /\ prod' = [prod EXCEPT !.next = NextCounter(prod.next)]
  /\ round' = IF NextCounter(prod.next) = 1 THEN round + 1 ELSE round
  /\ LET record == [n |-> prod.next, round |-> round] IN
     \/ topic' = Append(topic, record) /\ UNCHANGED lost
     \/ lost' = lost \union {record} /\ UNCHANGED topic
  /\ UNCHANGED <<controlVars, cons, received, groupVars, doubtful, crashes>>

\* The record sent next after this one.
Successor(record) ==
  [n |-> NextCounter(record.n),
   round |-> IF NextCounter(record.n) = 1 THEN record.round + 1 ELSE record.round]

\* The records of the topic after the first f were sent by this test one after
\* the other, so that they may be one batch.
OneBatch(f) ==
  /\ f >= doubtful
  /\ \A i \in (f + 1)..(Len(topic) - 1) : topic[i + 1] = Successor(topic[i])

\* The brokers took the last k records, but not their answer the client: it
\* sends them again.  If a new round begins in their midst, the end of the old
\* round comes after the new one's beginning, until that comes again; the bound
\* is that such a batch is sent again once.  A retry while stop() flushes is as
\* good as one before.
Repeat(k) ==
  /\ prod.next > 0
  /\ sends < MaxSends
  /\ sends' = sends + 1
  /\ k <= Len(topic)
  /\ OneBatch(Len(topic) - k)
  /\ topic' = topic \o SubSeq(topic, Len(topic) - k + 1, Len(topic))
  /\ \/ /\ \A i \in (Len(topic) - k + 2)..Len(topic) : topic[i].n # 1
        /\ UNCHANGED doubtful
     \/ \E w \in (Len(topic) - k + 2)..Len(topic) :
          /\ topic[w].n = 1 /\ \A i \in (w + 1)..Len(topic) : topic[i].n # 1
          /\ doubtful' = w + k - 1
  /\ UNCHANGED <<controlVars, prod, sentCounter, cons, received, groupVars, round, lost, crashes>>

Consume ==
  /\ cons.loop
  /\ position < Len(topic)
  /\ received' = Record(received, topic[position + 1].n)
  /\ position' = position + 1
  /\ delivered' = IF position = delivered THEN position + 1 ELSE delivered
  /\ UNCHANGED <<controlVars, prod, sentCounter, cons, topic, committed, truthVars>>

AutoCommit ==
  /\ cons.loop
  /\ committed' = position
  /\ UNCHANGED <<controlVars, prod, sentCounter, cons, received, topic, position, delivered, truthVars>>

\* The group rebalances, as when a broker goes: back to the last commit.
Rejoin ==
  /\ cons.loop
  /\ position' = committed
  /\ UNCHANGED <<controlVars, prod, sentCounter, cons, received, topic, committed, delivered, truthVars>>

\* An error of the client ends the loop; nobody restarts it.
LoopDies ==
  /\ cons.loop
  /\ cons' = [cons EXCEPT !.loop = FALSE]
  /\ UNCHANGED <<controlVars, prod, sentCounter, received, topic, groupVars, truthVars>>

\* The process dies or shuts down, the latter with a last commit of the group's
\* offset.  Nothing but the topic and that offset survives.
Crash ==
  /\ crashes < MaxCrashes
  /\ crashes' = crashes + 1
  /\ running' = FALSE
  /\ counterMax' = CounterMax
  /\ maxVal' = 0
  /\ call' = [h \in Handler |-> "idle"]
  /\ prod' = NoLoop
  /\ ConsumerStops
  /\ ClearResults
  /\ UNCHANGED <<topic, position, delivered, sends>>

Next ==
  \/ Start \/ Reset \/ Stop
  \/ \E h \in Handler : Purge(h) \/ PurgeSkipped(h) \/ CallFails(h)
  \/ StartConsumer \/ Joined \/ StartProducer \/ Connected \/ StopConsumer
  \/ UpdateConfig \/ Crash
  \/ Send \/ (\E k \in 1..MaxBatch : Repeat(k))
  \/ Consume \/ AutoCommit \/ Rejoin \/ LoopDies

Spec == Init /\ [][Next]_vars

----------------------------------------------------------------------------

\* The state has its type; the producer's counter stays within counter_max.
TypeOK ==
  /\ running \in BOOLEAN
  /\ call \in [Handler -> {"idle", "purge", "consumer", "join", "sleep", "connect", "producer"}]
  /\ counterMax \in Counter /\ maxVal \in 0..CounterMax
  /\ prod \in [running : BOOLEAN, next : 0..CounterMax, max : 0..CounterMax]
  /\ sentCounter \in 0..CounterMax
  /\ cons \in [running : BOOLEAN, loop : BOOLEAN]
  /\ received \subseteq Counter
  /\ topic \in Seq(Rec)
  /\ position \in 0..Len(topic) /\ committed \in 0..Len(topic) /\ delivered \in 0..Len(topic)
  /\ round \in Nat /\ lost \subseteq Rec /\ doubtful \in 0..Len(topic) /\ sends \in 0..MaxSends /\ crashes \in 0..MaxCrashes

\* No record misleads the judge any more: there was none, or it has seen a 1
\* after them, with which it begins anew.
Trusted == doubtful = 0 \/ \E i \in (doubtful + 1)..delivered : topic[i].n = 1

\* The judge accuses no one wrongly: once the consumer is back where it was,
\* a counter it reports missing is one this test sent and Kafka lost, however
\* often records came twice and whatever earlier tests left (Judge.record,
\* purge_topic and the order of start_test).  That fails, until the next 1, after
\* a purge that was skipped over records of an earlier test, and after a batch
\* that went over a 1 and was sent twice.
MissingWasLost ==
  position = delivered /\ Trusted => \A n \in Missing : \E l \in lost : l.n = n

\* The judge misses no gap of the current round: if the round's 1 got through,
\* a counter lost before the last one received is reported (the reset of
\* Judge.record on a 1), with the same two exceptions.
GapIsReported ==
  position = delivered /\ delivered > 0 /\ Trusted =>
    LET last == topic[delivered] IN
    [n |-> 1, round |-> last.round] \notin lost =>
      \A l \in lost : l.round = last.round /\ l.n < last.n => l.n \in Missing

=============================================================================
