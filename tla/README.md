# HAMq in TLA+

TLA+ models, TLC runs and TLAPS proofs of the HAMq test bed in this repository:
a message pipeline of a **producer** with a disk buffer, Kafka, and a
**consumer** with a database; an **arbiter** that audits the pipeline; a
**controller** that breaks the cluster under it on purpose; and a
**test orchestrator** with a pipeline and a judge of its own. Every service is
a FastAPI process with one asyncio event loop, so the grain of every module is
the same: *a step is what one coroutine does from one `await` to the next*.
Between two steps any other coroutine may run, the process may crash, Kafka may
go away or a call may fail, where the code can meet it.

Contents: [the system](#1-the-system), [modules and
code](#2-modules-and-code), [runs](#3-runs), [bounds](#4-bounds),
[fairness](#5-fairness), [proofs](#6-proofs), [divergences](#7-divergences),
[what is left out](#8-what-is-left-out), [plan](#9-plan).

To check a module: `tlc -config X.cfg M`; to check its proofs: `tlapm MProofs.tla`.

## 1. The system

```
            start/stop                                      start/stop
                |                                               |
   +-------- producer ---------+        Kafka        +------ consumer ------+
   | produce loop   flush loop |---> hamq topic ---> | consume loop         |
   |        \        /         |                     |      |               |
   |      SQLite buffer        |                     |  SQLite messages     |
   +---------------------------+                     +----------------------+
        ^ /api/messages/recent                          ^ /api/stats, /missing-sequences
        +----------------------- arbiter ---------------+---> audits, alerts
                        (loop pass, manual pass)
   controller ---> Kubernetes API (cordon, drain, delete, NetworkPolicy), virsh (links), audit log
   test-orchestrator ---> its own topic: counter producer -> counter consumer -> judge
```

| component (source) | state | operations | interacts with | what is hard | what makes it correct |
|---|---|---|---|---|---|
| producer buffer (`buffer.py`) | one SQLite table, one connection, one open transaction | add (count, evict, insert, commit), mark_sent, get_pending, cleanup_sent | called by the produce, flush and cleanup loops | four awaits in `add`, a transaction shared by three loops, failing writes, crash | bounded; a durable pending row stays until published or evicted |
| producer send path (`kafka_producer.py`) | `_connected`, the flush batch | send_message, _send_single, _flush_buffer, _cleanup_loop | buffer, brokers | two loops send the same messages; crash between acknowledgement and mark; stale batch; starvation | nothing reported sent is silently lost; sent means published; the backlog drains |
| producer connection (`kafka_producer.py`) | `_producer`, `_connected`, reconnect tasks | start, stop, reconnect loop and one-shot reconnects | brokers, senders | no lock: tasks close and replace the client under each other and under senders | the flag stands over a running client; a reachable Kafka is connected to |
| producer service (`producer_service.py`) | `_running`, counters, recent messages | start_producing, stop_producing, loop, reset_stats, set_frequency | send path, HTTP API; the arbiter reads the recent messages | cancellation of a send half way; recent messages emptied under an audit | see send path and arbiter |
| consumer loop (`kafka_consumer.py`) | `running`, `_task`, `_consumer`, group offset | start, stop, connect, consume, backoff | group coordinator, store | start during stop, rebalance, failure between save and commit | at-least-once, one loop, progress |
| consumer store (`storage.py`) | SQLite table | save, cleanup_old, statistics, missing sequences | consume loop, arbiter | crash between insert and commit, redelivery | stored once |
| consumer service (`consumer_service.py`) | cached statistics | start, stop, statistics loop | arbiter reads the cache | stale watermark | never ahead of the table |
| arbiter, what a pass finds (`reconciler.py`) | `_running`, `_http`, the audits being made | start, stop, loop pass, manual pass | producer and consumer APIs | three reads at three times, calls that fail, a restarted producer | no false all-clear, no false alarm beyond held-back messages, real losses reported |
| arbiter, what a pass leaves behind (`reconciler.py`, `audit_store.py`, `main.py`, the WebSocket in `api/routes.py`) | cached token, `_http`, audits table and its transaction, `_last_report`, what was pushed | login, retry after a 401, save, alert, report, push, start, stop | producers, SQLite, webhook, dashboard | two passes share token, client and transaction; cancellation between two calls; late reports | what is told is kept, no pass or producer costs another its audit, the report on show is pushed, passes end |
| controller (`k8s_client.py`, `chaos_engine.py`) | rate-limit time | cordon, uncordon, delete, restart, drain, chaos | Kubernetes API, scheduler | pods move while a drain goes on; gate checked before awaits and set after | a drain accounts for every evictable pod |
| isolation (`k8s_client.py`, `virsh_client.py`, `event_store.py`, `api/routes.py`) | `_cut_nodes` in memory, audit log | create and delete partition, cut, restore, reset, reboot | Kubernetes, hypervisor, SQLite | several commands per request, overlapping requests, one shared transaction, crash | answers are in the log; partitions are accounted for; the page tells the truth |
| test orchestrator (`judge.py`, `counter_*.py`, `api/routes.py`) | `running`, `counter_max`, judge's set, counters | start, stop, reset, update_config, send, record | its own topic and group | lost, duplicated and redelivered records, rounds, a purge that is skipped, crash, a maximum changed during a test | missing means lost, lost means missing |
| HTTP APIs, authentication, metrics, frontends, deployment | - | read, or call the operations above | - | - | - |

`PROJECT.json` lists every component with its sources, and 40 hazards, each at
its line with the properties that would catch it.

## 2. Modules and code

| module | the code it stands for | form | extends or instantiates |
|---|---|---|---|
| `Outbox` | what the producer promises | abstract specification | - |
| `Inbox` | what the consumer promises | abstract specification | - |
| `AuditLog` | what the arbiter promises of its audits and the controller of its events | abstract specification | - |
| `MessageBuffer` | the table operations of `MessageBuffer` | operators on one table | - |
| `Producer` | produce, flush and cleanup loops over the shared transaction | state machine, implements `Outbox` | `MessageBuffer` |
| `KafkaLink` | the connection of `ResilientKafkaProducer` | state machine | - |
| `Consumer` | `KafkaConsumerService` and `MessageStore` | state machine, implements `Inbox` | - |
| `Pipeline` | the detailed producer and the detailed consumer over one topic | composition | `Consumer`; instance of `Producer` with its theorems |
| `Arbiter` | `Reconciler` over an abstract pipeline: what an audit finds | state machine | - |
| `AuditTrail` | `Reconciler`, `AuditStore`, lifespan, WebSocket: what becomes of an audit | state machine, implements `AuditLog` | - |
| `Controller` | cordon, drain, delete, chaos | state machine | - |
| `MCController` | - | `Controller` with the symmetry of its requests, for TLC | `Controller` |
| `Isolation` | partitions, links, audit log | state machine, implements `AuditLog` | - |
| `Orchestrator` | counter pipeline, judge, control handlers | state machine | - |
| `ProducerProofs`, `KafkaLinkProofs`, `ConsumerProofs`, `ArbiterProofs`, `AuditTrailProofs`, `ControllerProofs`, `IsolationProofs`, `OrchestratorProofs` | - | theorems | their module; `ConsumerProofs` also `Pipeline` |

How they fit together. `Producer!Promise` and `Consumer!Promise` are refinement
mappings: with loops, transaction and crashes hidden, every step of the detailed
module is a step of `Outbox` or `Inbox`, or no change. `Pipeline` puts the two
detailed modules together over one topic, which is all the two services share: a
record arrives when the brokers append a message in flight, for the first time or
again, and every other step is one of a single service. Of it is shown what neither
service promises alone: no message the producer has taken charge of vanishes between
its loops and the consumer's store, whatever crashes in between (`NothingVanishes`);
and a message that is not stored while a later one is was left behind by the produce
loop (`OnlyDetouredLagBehind`), which is what lets the arbiter compare up to the
greatest number stored. `detoured` is a history variable for it: the messages that
were not in the topic when the produce loop was done with them.

| hidden by the mapping | in `Outbox` / `Inbox` |
|---|---|
| rows pending on disk; open transaction, loops, batch, connection hidden | `held` |
| the first appends (`log`) | `published` |
| evicted by an overflowing `add`, or refused by the database: both are logged | `dropped` |
| `_sent_count` and the recent messages | `accepted` |
| committed rows of the table; loops, clients and transaction hidden | `stored` |
| the group's committed offset | `next` |

Two services keep an audit log in SQLite behind one connection that all coroutines
share, and both implement `AuditLog`. There, `kept` is the committed table; `told`
what the arbiter's alerts, answers and reports speak of, or the requests that the
controller has answered.

`Producer` uses the connection as a flag that may rise and fall at any step;
`KafkaLink` shows what the flag means. `Arbiter` uses the pipeline through the same
promises, as a message's way: to the topic directly, or through the buffer later,
or evicted; stored in the order of the topic. That the detailed services give it
this much is `NothingVanishes`, `OnlyDetouredLagBehind` and `Consumer!StoredInOrder`;
the composition itself is still to be done (section 9). `AuditTrail` follows the audits that
`Arbiter` makes, as pairs of a pass and a producer, so that here several
producers and the shared client, token and transaction can be told apart and
there what an audit says. `Controller` and `Isolation` are the two halves of the
controller process, split because they share no state (a chaos partition is, in
`Isolation`, one more request). `Orchestrator` stands alone, as the service does.

**MessageBuffer, Producer.** `rows` is the table as the shared connection sees
it, `disk` as last committed: every commit, by whichever loop, makes
`disk' = rows`, which is what one `aiosqlite` connection does. The program
counter of `send` names the await of `send_message` and `add`: `count`, `evict`,
`insert`, `commit`, `send`, `mark`; that of `flush` the awaits of the flush loop.
A row is absent, `pending` or `sent`. A crash sets `rows' = disk`; a graceful
shutdown is one of its behaviours, as the code does no final flush. The UPDATE of
`mark_sent` and its commit are one step when both succeed; when the commit fails,
or the loop is cancelled there, the mark stays in the open transaction. The cleanup's
DELETE and its commit are two steps, and either may fail. `FlushAsk` is the flush loop
that asks for a batch, `FlushFetch` the answer; `FetchFails` is a `get_pending` that
raises: it answers an empty list all the same, and the flush pass is over. The
brokers appear as `KafkaAppend`, which may happen before or without the
acknowledgement. `log` keeps the first append of each message: duplicates are
what at-least-once allows. An append after the client has given up on the send
is not modelled.

**KafkaLink.** Tasks: the reconnect loop, `stop()`, and the one-shot tasks failed
sends create. Each holds the client object it closes or connects while
suspended; `live` are the clients started and not stopped. Client names are
recycled when no variable or suspended frame refers to the object (`Held`).
When `stop()` cancels the loop in the middle of closing a client, the client
counts as stopped.

**Consumer.** `topic`, `committed`, `assigned` and `position` are the group: the
member that joined last holds the partition. `loop` has one record per consume
loop, each with the client it uses, and `handle` is `_task`. `Refused` are messages
that `save()` raises on before it reaches the database, each time they come: the
loop backs off, reconnects and fetches them again. An operation of the database that a cancelled loop was waiting
for is already queued on the connection's thread and happens all the same
(`QueuedInsert`). The cleanup of the store is two steps, as the producer's. SQLite runs with `synchronous=NORMAL`: `Crash` is a crash of
the process, not of the machine. A client leaked with its partition, the
connected flag and the counters are left out.

**Arbiter.** Each pass is a record with the await it is parked on and the audit
it makes. Messages are numbered as generated; `SequenceOf` is the number the
program sees, which starts again at 1 when the producer restarts. `FetchMissing`
compares by sequence number, as `get_missing_sequences` does;
`FetchFails` is a call that fails: the code then goes on with no sequences, no
watermark, or nothing received. An audit is `Alarming` when its loss rate is at the
threshold or above, so that with a threshold of 0 every audit alerts. Logging in and the retry after a 401 are part of the call they
precede. `ResetStats` is the producer's `reset_stats`, which empties the recent
messages while the numbering goes on.

**AuditTrail.** A pass's record has the await it is parked on (`pc`), its number
(`run`), the producer it is at, the token its request was given, and what it will report:
`audits` saved and told, and producers `excused` for a reason outside the
arbiter (unreachable, nothing to compare, a database that fails, a login that
fails). One reason is the arbiter's own and is kept apart: `cut` are the audits that
a pass was making when `stop()` closed the client under it (`StopCloses`), or for which
there was no client any more (`ClientClosed`). The pass itself goes on, as `routes.py:424`
has it, but without them. `calls` is the queue of the database's thread: an INSERT and its COMMIT
are two calls, a call of a cancelled pass is still carried out, and a COMMIT takes
along the rows of the other pass. `token` is the one cached token, `http` the one
client, which `stop()` closes after the cancelled loop has ended, also under a
manual pass or a start that has come since. `last` is `_last_report`, `pushed`
the `last_report_id` of one dashboard's connection. A shutdown is a crash that
commits nothing more.

**Controller.** `where` and `cordoned` are the cluster; `req` the requests in
progress, drains and chaos runs, one call to the Kubernetes API per step, with
operators and the scheduler between them. A drain is asked for with its parameters
(`Drained(ignore_daemonsets, force)`): pods of a DaemonSet are evicted when they are not
ignored, pods without an owner when it is forced. Chaos drains have the defaults. A
cordon keeps the scheduler from binding evictable pods only. `held` records whether nobody uncordoned the
node since this drain cordoned it. Termination of a pod is instantaneous.

**Isolation.** `policies` and `down` are the world, `cutNodes` the flag in memory,
`events`/`disk` the audit log with its shared transaction. `blurred` is a history
variable: the machines about which the code cannot know (see `FlagTellsLinks`). A virsh
command may fail, which the request notes and goes on, or its call may raise
(`VirshRaises`), with the command carried out or not: then the request ends half way,
without an event.

**Orchestrator.** One call of each handler may be in progress. `topic` holds
records with their round; `position`, `committed`, `delivered` are the group's
offsets; `round`, `lost` are history that the judge does not see and is judged by.
`counterMax` is what `update_config` sets, `maxVal` what the start in progress read
before its awaits, `prod.max` what the loop was given. The purge empties the topic, raises, or
is skipped: when `describe_topics` answers nothing or any error code, `purge_topic` logs
"topic not found" and returns as if the topic were empty (`PurgeSkipped`), and the records
of earlier tests stay. A retry of the client sends a whole batch again (`Repeat`), up to
`MaxBatch` records that this test sent one after the other. Both can lead the judge astray:
`doubtful` says up to which record, and the judge is `Trusted` again once it has received
a 1 after that, with which it begins anew.

## 3. Runs

| run | module, cfg | checks | what it shows |
|---|---|---|---|
| producer | Producer | TypeOK, NoSilentLoss, SentImpliesPublished, PendingWithinLimit, DurableRowLifecycle, Promise, EventuallyFlushed | nothing reported as sent is silently lost, in any interleaving of the loops with failing writes, cancellation and a crash; the buffer exceeds its limit by failed counts only; the producer implements `Outbox`; the flush loop empties the buffer of a database that answers |
| producer_order | ProducerOrder | ArriveInOrder | *violated*: section 7 |
| link | KafkaLink | TypeOK, ConnectedHasLiveClient, EventuallyConnected | overlapping reconnect tasks never leave the flag over a stopped client, and settle |
| consumer | Consumer | TypeOK, CommittedIsStored, StoredInOrder, StoredOnce, OneLoop, Promise, EventuallyStored | at-least-once, in the order of the topic, deduplication, the consumer implements `Inbox`, progress up to a record that cannot be saved |
| consumer_race | ConsumerRace | CommittedIsStored | *violated*: section 7 |
| arbiter | Arbiter | TypeOK, VouchedWasStored, OnlyDetouredIsMissing, LossIsReported | what an audit says and does not say |
| audit_trail | AuditTrail | TypeOK, ToldIsKept, OnlyTheUnreachedAreLeftOut, Promise, LatestIsPushed, PassesEnd | the arbiter implements `AuditLog`; alerts, answers and reports speak of durable audits only; overlapping passes and failing producers cost each other nothing, only a `stop()` does; a report on show is pushed; passes end |
| arbiter_catchup | ArbiterCatchUp | CatchingUpIsNotLoss | *violated*: section 7 |
| controller | MCController, Controller.cfg | TypeOK, DrainLeavesOnlyRefused | drains are complete among moving pods |
| controller_chaos | ControllerChaos | ChaosRunsApart | *violated*: section 7 |
| isolation | Isolation | TypeOK, AnsweredIsAudited, PoliciesAreAccountedFor, FlagTellsLinks, Promise | the controller implements `AuditLog`; audit log and status page tell the truth |
| orchestrator | Orchestrator | TypeOK, MissingWasLost, GapIsReported | the judge's verdict is exact, except after a purge that was skipped over old records or a batch repeated over a 1, and then only until the next 1 |

Every property of a passing run has a mutant in `PROJECT.json`: a plausible bug
(an off-by-one, a dropped guard, a commit that is forgotten, a flag set at the
wrong moment) written as an operator beside the original, under which TLC finds
the property violated. That the property can fail is thus shown and not assumed.

Distinct states of the passing runs: producer 881,288, link 294,390, consumer 205,392, arbiter
483,032, audit_trail 272,725, controller 5,920,740 (under symmetry), isolation 4,832,300,
orchestrator 3,572,760.

`OnlyDetouredIsMissing` says more about the system than it seems: a message that
waited in the producer's buffer *is* reported missing while it waits, because
later messages raise the consumer's watermark past it. That is the price of an
audit by watermark, not an error of the code: the report disappears when the
message arrives. `VouchedWasStored` and `LossIsReported` likewise say what the
audit cannot see: a message whose number a previous run of the producer has
already used.

## 4. Bounds

| cfg | bounds | why they suffice |
|---|---|---|
| Producer | 2 messages, buffer 1, batch 2, 1 crash, failing database | one message in the buffer and one being added is where eviction, the shared commit and the count meet; a failed count puts both in the buffer, so that a batch has two; the theorems of section 6 remove the bounds |
| ProducerOrder | 3 messages, buffer 2, batch 2 | one waits, one overtakes |
| KafkaLink | 2 senders (the code's two), 2 one-shot tasks, 5 clients | two one-shot tasks and the loop overlap pairwise and all three; a client per task and one per sender can be in hand at once |
| Consumer | 2 messages and a refused one, a log of 3, 2 loops, 2 clients, 1 crash | a duplicate, a redelivered batch of two, a record that is refused before, between and after good ones, a second generation of loop and client, reuse of names |
| ConsumerRace | 2 messages, a log of 2, 2 loops, 4 clients | two loops with a client each and their successors |
| Arbiter | 2 messages, window 2, 1 restart, 2 passes (the code's two kinds) | one stored and one held back, before and after a restart of the numbers |
| AuditTrail | 2 producers, 2 passes, 1 stop or crash | each producer voids the other's token; the two passes overlap at every await, the older one may end last; a stop, or a crash, hits every call |
| ArbiterCatchUp | the same without faults and restarts | the violation needs neither |
| Controller, ControllerChaos | 2 nodes (one worker), an evictable pod, a daemon and a static pod, 2 requests | two drains of one node with different parameters, a drain and a chaos run, a pod that moves away and back |
| Isolation | 3 requests, 1 policy, 1 machine with 2 links and the host | create and delete of one policy, a cut, a restore and a third request over one machine |
| Orchestrator | counter_max 2 or 3, 5 sends or repeated batches of at most 2, 1 crash or shutdown | a whole round and most of the next one of 3, or two and a half of 2, so that the counter comes round to 1 with every loss pattern, and a batch goes over that 1; six sends were explored once, without an error (21,945,496 states); the code's lower limit of 10 for `counter_max` is stood in for by 2 |

Each bound on a counter is a constant named in the module with the comment
`bound`, and appears only in a guard. Another bound is in the model itself: a batch that
goes over a 1 is repeated once (`Repeat`; a second time it would move `doubtful`
further on). No cfg replaces a definition. Only `MCController` uses symmetry, of requests, which no
property of its run names; it has no liveness. Deadlock is checked in every run. `Pipeline` has no run of its own, since the product of two detailed
services is too large for a run of minutes. Explored once, while the cleanups were single steps and without an error: both of its
invariants, with two messages, a topic of two, one client and neither faults nor calls of stop
(1,100,672 states; with `detoured` left out of `OnlyDetouredLagBehind` TLC finds a
violation), and, before `detoured` was added, `NothingVanishes` with
two messages and a topic of two without faults (9,043,416 states), and with one message, a
topic of two, a failing database and a crash of each service (7,391,168 states). The
theorems of section 6 have no bounds.

## 5. Fairness

Only the liveness runs have fairness, and only of steps that the event loop or
the code's timeouts guarantee.

- **producer**: weak fairness of the produce loop's and of the flush loop's
  steps: both are tasks of the event loop, sleeps are bounded and
  `send_and_wait` times out. Strong fairness of the append and of the
  acknowledgement of what the flush loop sends: brokers that are asked again and
  again do not refuse each time. Without the last, a message that the brokers
  always refuse would stop the batch after it, which the code cannot help. Nothing is
  assumed of the database by the specification. The property names what it needs as its
  antecedent: `<>[]connected`, and that from some time on neither `get_pending` nor
  `mark_sent` raises (`<>[][~FlushMarkFails /\ ~FetchFails]_vars`). Both are needed. A
  `get_pending` that raises each time looks to the flush loop like an empty buffer, for
  ever (`buffer.py:227`), and nothing is flushed.
- **link**: weak fairness per task and sender; Kafka may come and go for ever,
  and the antecedent is that it stays up and nobody calls stop.
- **consumer**: weak fairness per loop and of the stop in progress; the antecedent
  is that the consumer stays running and that failures end. The property is
  about the records before the first one that `save()` refuses; that one, and all
  after it, are retried for ever.
- **arbiter**: weak fairness of the loop's pass, of the consumer and of its
  statistics loop; the antecedent is that calls stop failing. The manual pass,
  restarts and retention are not fair.
- **audit_trail**: weak fairness of each pass's steps (every awaited HTTP call has
  the client's timeout), of the database's thread, and of the WebSocket's push,
  a loop that sleeps two seconds. Nothing is assumed about answers.

## 6. Proofs

`tlapm` proves the following for every value of the constants that the
`ASSUME`s in the modules allow (sizes are naturals; buffer, batch, window and
number of producers positive; the threshold a percentage; worker nodes are nodes,
daemons and static pods are pods, refused messages are messages; "nowhere" is no node and
"none" no loop and no client).

| theorem | states |
|---|---|
| `ProducerProofs!TypeCorrect` | `Spec => []TypeOK` |
| `ProducerProofs!NothingSilentlyLost` | `Spec => []NoSilentLoss` |
| `ProducerProofs!SentRowsArePublished` | `Spec => []SentImpliesPublished` |
| `ProducerProofs!DurableRows` | `Spec => DurableRowLifecycle` |
| `ProducerProofs!BufferBounded` | `Spec => []PendingWithinLimit` |
| `ProducerProofs!ProducerKeepsPromise` | `Spec => Promise` (implements `Outbox`) |
| `ConsumerProofs!TypeCorrect`, `AtMostOneLoop`, `NothingStoredTwice` | `[]TypeOK`, `[]OneLoop`, `[]StoredOnce` |
| `ConsumerProofs!NothingSkipped` | with `SerialControl`, `[]CommittedIsStored` |
| `ConsumerProofs!ConsumerKeepsPromise` | with `SerialControl`, `Promise` (implements `Inbox`) |
| `ConsumerProofs!StoredAsInTopic` | with `SerialControl`, `[]StoredInOrder` |
| `ConsumerProofs!EndToEnd`, `WatermarkIsFair` | of `Pipeline`, with `SerialControl`: `PipelineSpec => []NothingVanishes` and `PipelineSpec => []OnlyDetouredLagBehind` |
| `KafkaLinkProofs!TypeCorrect`, `ConnectedIsUsable` | `[]TypeOK`, `[]ConnectedHasLiveClient` |
| `ArbiterProofs!TypeCorrect`, `OnlyTheStoredIsVouchedFor`, `OnlyTheDetouredIsAccused` | `[]TypeOK`, `[]VouchedWasStored`, `[]OnlyDetouredIsMissing` |
| `AuditTrailProofs!TypeCorrect`, `WhatIsToldIsKept`, `NoneIsLeftOut` | `[]TypeOK`, `[]ToldIsKept`, `[]OnlyTheUnreachedAreLeftOut` |
| `AuditTrailProofs!KeepsItsLog`, `IsolationProofs!KeepsItsLog` | `Spec => Promise` (both implement `AuditLog`) |
| `ControllerProofs!TypeCorrect`, `DrainsAreComplete` | `[]TypeOK`, `[]DrainLeavesOnlyRefused` |
| `IsolationProofs!TypeCorrect`, `AnswersAreAudited`, `FlagIsTrue`, `PartitionsAreAccountedFor` | `[]TypeOK`, `[]AnsweredIsAudited`, `[]FlagTellsLinks`, `[]PoliciesAreAccountedFor` |
| `OrchestratorProofs!TypeCorrect` | `[]TypeOK` |
| `OrchestratorProofs!JudgeIsJust`, `JudgeIsThorough` | with `SerialControl`, `[]MissingWasLost`, `[]GapIsReported` |

**Producer.** `NoSilentLoss` is not inductive: a message may be in the open
transaction only, and a commit may come from the other loop. The invariant
`IInv` adds what makes *any commit at any time* harmless. `SafeToCommit`: the
open transaction differs from the disk only in ways that are allowed (a row
pending on disk is pending, published or evicted; one sent on disk is not
pending), and the row of a message about to be committed is in the transaction.
`MarksAcked`: `mark_sent` is reached with a published message only.
`FreshRows`: no row has the id of a message that is not generated yet, and that
of the message being added is not there before its INSERT, so that
`INSERT OR IGNORE` inserts. `DurableRows` is the same invariant, read on a step.
The bound of the buffer needs `LimitInv`: between a count that answered (or the
DELETE) and the INSERT there is room for one row, as no other loop adds; a count
that raised is remembered in `uncounted` and paid for once. The first lemmas of the module say
what each operation of the table does to the number of pending rows (the oldest
row exists, from well-foundedness of `<`). The refinement needs `CountedInv`:
a message is counted as sent after its own `add` is over, so that no later commit
makes a counted message pending for the first time. A commit maps to
`Outbox!Commit`, an eviction or a failed `add` to `Drop`, an append to `Publish`,
the end of a send to `Accept`; the rest changes nothing the mapping shows.

**Consumer.** With serial control calls there is at most one loop (`OneLoopInv`
follows a stop through its awaits), and the argument needs nothing about clients:
a loop that polls does so from the committed offset, and a loop that works on a
record works on the one at the committed offset, which is in the transaction
after the INSERT and on disk after the commit. The offset then moves by one over
a stored record, which is both `CommittedIsStored` and the step of `Inbox`.
`StoredInOrder` follows from where a new row can come from: from the record at the
committed offset, below which everything is stored or pruned (`OrderInv`, which also
keeps the rows of the open transaction in order, as any commit takes them along).
`StoredOnce` needs none of it and holds for any control calls. The run
consumer_race shows that a skipped record is possible without `SerialControl`.

**Pipeline.** Every step of the composition is a step of the producer or one it does
not notice, and likewise of the consumer (`PipelineSteps`). So the invariants of both
hold of it as they are: those of the producer are cited from `ProducerProofs` under
its names here, not proved again. What joins the two is `SameMessages`: the ids of the
topic's records are the messages the producer's history has published. A message that
the producer has handed over is then pending, logged as lost, or a record (`NoSilentLoss`),
and a record is ahead of the group's offset or stored (`CommittedIsStored`).

`OnlyDetouredLagBehind` joins three facts. `Accounted`: every message that the produce
loop has finished with is in the topic or detoured. `TopicOrder`: whatever precedes a
record's message is in the topic before that record, or detoured. An append
preserves it because no message in flight is later than the one that the produce loop
works on (`InHandInv`, of the producer alone), so that the loop is done with all that
come before it, and these are accounted for when it gets its place at the end of the topic. And `StoredInOrder`, which carries the order of the topic into
the table.

**KafkaLink.** A client is stopped in the step that also takes the flag down, or
that takes down a client which is not `_producer`. What makes this inductive is
`stop()`, which cancels the reconnect loop and with it the closing of a client:
`ClosingHoldsClient` says that a task refers to a client of its own only while it
closes it, so that otherwise nothing is taken down. One lemma (`BecomesKeeps`)
carries every step: the clients still referenced include `_producer`.

**Controller.** `HeldIsCordoned`: a drain that was not interfered with works on a
cordoned node, to which the scheduler binds nothing; `DrainHasNode` gives it a
node. What the list returned then covers what runs there, and every eviction
removes a pod from both sides or moves it to the refused ones.

**Isolation.** The audit half needs only that a committing request has inserted
its event (`Rows`): whoever commits takes everything along, and nobody rolls
back. The half about links needs `Placed` (a request that thinks itself alone
*is* alone on its machine), `Working` (what an undisturbed request has set so far
is set as it wants), and `SharpIsTold`/`CutByRequest` for the finished ones.

A policy has its account (`AccountStep`): each step of a request keeps what
the request accounts for, and the one that adds a policy accounts for it from then
on, through the insert and the commit or as a call without an answer.

**Arbiter.** `InOrder`: a message that went straight to the topic is ahead of
every later one, in the topic or in the table, because the consumer takes the topic in
order; so if a later message is stored, it is. `MarkReached`: the watermark, the
greatest number in the table when the statistics were refreshed, is reached by every message below
it that was not held back. `PassInv` carries this through the three awaits of a
pass: what is eligible was stored when the watermark was read, and what is stored
stays stored or is pruned, so what the consumer then does not know was held back or pruned. That
an audit vouches for stored numbers only is the set difference of what was asked
and what was answered, at whatever moment each was read.

**AuditTrail.** `Kept`: a COMMIT is queued only after the INSERT of its row, rows
are only added while the process lives and a crash takes back what is not on
disk, so the end of a COMMIT finds its row durable, and only then is it told.
`Through`: a pass has dealt with every producer before the one it is at, and its
retry carries the token of that login, never one that another pass has cached in
between: a second refusal is then the producer's own.
The refinement of `AuditLog` adds that no step shrinks the table on disk: a commit makes
it what the connection sees, which `Kept` says holds all of it. The same lemma
(`DiskGrows`) and `AuditInv` give the refinement of `Isolation`.

**Orchestrator.** `MissingWasLost` compares the judge's set with what Kafka lost, but what
the judge holds depends on the way there: the purge of a start, the offsets, and rounds
that begin anew. `SerialInv` has three parts. `Control`: one control call works at a time,
a producer or consumer that runs was started by a start that had its purge, and until
the producer sends, all that the topic holds is `doubtful`. `Offsets`: committed,
position and delivered are in this order. `DataInv` is about the records after the
doubtful ones, of which a skipped purge leaves some: the counters that precede a record's
are earlier in the topic with nothing after them but greater ones of the round, or lost (`Gapless`, and
`Prepared` of the record to come, which is what lets a whole batch be repeated); that record is
new (`Fresh`), so that none is both lost and in the topic (`Exclusive`); counters stay within
their test's maximum (`Bounded`); and the judge's set is the counters delivered since the last 1, once
a redelivery has come back to that 1 and that 1 is not doubtful (`Judged`, which has `Trusted` as
a premise). A
counter below the greatest the judge holds is thus received or lost, and a lost one
is not among the records. A redelivery changes no part of `DataInv` but `Judged`, which is stated for
offsets that have caught up; the last lemmas lead from `position = delivered` back to it.
`TypeCorrect` needs none of this and holds when control calls overlap.

**Only model-checked.** Liveness under fairness (`EventuallyFlushed`,
`EventuallyConnected`, `EventuallyStored`, `LossIsReported`, `LatestIsPushed`,
`PassesEnd`): it rests on ENABLED, which is out of the prover's reach. Likewise
induction over recursive data, which no module here needs. Every invariant and every
safety action property of the passing runs has its theorem. The violated properties are
shown by counterexample, which needs no proof.

## 7. Divergences

Found by a run (its counterexample is a behaviour of the code):

1. `producer_order`: `send_message` sends a new message at once when connected
   (`kafka_producer.py:167`), past the backlog that the flush loop still works on;
   the module docstring promises that "sequence numbers arrive in order".
2. `consumer_race`: a `start` while a `stop` waits for the cancelled loop creates a
   loop whose handle `stop` then overwrites (`kafka_consumer.py:96`). After one
   more `start` two loops share a client, and one commits the offset of a later
   record before the other has saved an earlier one; a crash then loses it, where
   the docstring of `_consume` promises at-least-once.
3. `arbiter_catchup`: before the consumer's first statistics there is no
   watermark, and everything that waits in the topic is reported lost
   (`reconciler.py:351`), the case the comment above it says is prevented.
4. `controller_chaos`: the interval is checked before a chaos run and set after
   it (`chaos_engine.py:174`), so two requests pass it together.

Met while reading, without a run of their own:

- `add` may evict from a buffer that is no longer full: the count (`buffer.py:137`)
  is old when the DELETE runs (144), where the docstring (115) says "if full".
  `NoSilentLoss` counts these as evictions.
- `docs/architecture.md` and `docs/components/producer.md` let a full buffer
  pause generation; the code evicts the oldest.
- The producer's `main.py:102` announces a final flush; the buffer is closed
  without one (nothing is lost: the rows are on disk).
- The consumer's documentation speaks of auto-commit; the code commits by hand,
  per record, after the save.
- The reconciler's docstring (42-45) skips a pass when the consumer does not
  answer; the code takes the empty set, compares and alerts on a 100% loss.
- The arbiter's `stop` handler says that "in-flight reconcile passes are allowed to
  finish" (`api/routes.py:424`); the loop's is cancelled, and a manual one loses
  its HTTP client (`reconciler.py:191`): it does finish, but reports without the
  producers it had not asked yet. `OnlyTheUnreachedAreLeftOut` excepts these by name
  (`cut`).
- `purge_topic` returns normally with nothing deleted when the topic's metadata come
  with an error (`kafka_purge.py:43`), also one that is passing, and `start_test` goes on over the
  records of the last test. Until the next 1 the judge may then report counters missing
  that Kafka did not lose; `MissingWasLost` and `GapIsReported` except that stretch
  (`Trusted`).
- The WebSocket says that it pushes "immediately after each completed reconcile
  pass" (`api/routes.py:447`); it looks every two seconds, so that of two passes
  which end together only the later one's report is pushed (`LatestIsPushed` is
  about the report on show).
- Of two overlapping passes the one that *ends* last sets `_last_report`, also if it
  began first; `last_reconcile_at` is its beginning and goes back in time.
- A pass that reaches no producer reports a loss of 0.0.
- The documented window of recent messages is 100; the code keeps 50.
- `docs/components/controller.md:95`: the controller removes a partition after
  `duration_seconds`; the code does not use the parameter.
- The gauge of active partitions counts requests, also failed ones
  (`routes.py:616`), until the next status request corrects it.
- With `SerialControl = FALSE`, `Orchestrator` violates `MissingWasLost`: a stop
  during a start's awaits returns before the start makes the producer run.

## 8. What is left out

- **Authentication, metrics, settings, WebSockets, frontends**: they read, or guard
  a handler without state of their own.
- **Deployment, infrastructure, CI, monitoring**: templates and scripts. The
  brokers, the group coordinator, the Kubernetes API, the scheduler and the
  hypervisor are environment actions, marked external in `PROJECT.json` and
  modelled from how the code uses them.
- **Producer**: a second produce loop after a start that overtakes a stop,
  `set_frequency`, the rate metric.
- **Consumer**: paging and search queries, checksum counts, lag estimate.
- **Arbiter**: the history queries and the metrics; in `Arbiter` there is one producer,
  in `AuditTrail` the contents of an audit are a choice.
- **Controller**: the gauge, the lists, disruption budgets beyond "an eviction is
  refused"; an error other than `ApiException` leaves the handler without setting
  the timer, which is modelled. Resetting and rebooting a machine are requests
  with an event but no effect on links.
- **Orchestrator**: history, rates; AUTOSTART, which is off unless set and starts
  producer and consumer without the purge, so that the judge also reads what earlier tests left
  until the next 1 comes round. While the consumer
  catches up on records it had before (`position < delivered`) the judge may report
  falsely for a moment; the properties speak of the time after. A lost "1" merges
  two rounds, which `GapIsReported` excepts.

## 9. Plan

Done, in this order: `MessageBuffer` and `Producer` with their proofs, since losing
no message is what the test bed is for; `KafkaLink`; `Consumer`; `Arbiter`;
`Orchestrator`; `Controller`; `Isolation`; the promises `Outbox` and `Inbox`, their
refinements; `AuditTrail`; the proofs of `Consumer`, `Arbiter`, `AuditTrail` and of the
partitions; the proofs of `Orchestrator`, and `Pipeline` from the detailed modules with its
theorem; the order of messages through consumer and pipeline, and `AuditLog` with its two
refinements.

Next, in this order:

1. The control calls of the producer: a start that overtakes a stop, with a second
   loop over the same buffer, and what the row counts then are worth.
2. The orchestrator's control races as a run of their own, and AUTOSTART.
3. Disruption budgets and the worker count in `Controller`: can repeated chaos
   drains leave no schedulable worker.
4. `Arbiter` over `Pipeline`, with the way of a message taken from the detailed services
   instead of stated again: what arrives and in which order is proved, the arbiter's reads
   are to be put on top.
5. Two consumers of one group, and a partition handed over between them.
