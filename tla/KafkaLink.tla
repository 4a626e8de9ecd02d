------------------------------ MODULE KafkaLink ------------------------------
(***************************************************************************)
(* The connection of the HAMq producer to Kafka (ResilientKafkaProducer):  *)
(* the reconnect loop, the one-shot reconnect tasks that a failing send    *)
(* creates, the two loops that send, and the client object they share.     *)
(*                                                                         *)
(* All of them are coroutines of one event loop.  They take no lock: each  *)
(* reads and writes `_producer` and `_connected` between awaits, and what  *)
(* it read may be old when it writes.  A step is what a coroutine does     *)
(* from one await to the next.                                             *)
(*                                                                         *)
(* AIOKafkaProducer is external: start() succeeds while Kafka is up, a     *)
(* call that was pending while Kafka was down may fail, stop() always ends *)
(* and stopping twice does no harm.                                        *)
(***************************************************************************)
EXTENDS Naturals

CONSTANTS
  Sender,   \* the coroutines that call _send_single
  Spawned,  \* bound: reconnect tasks created by failed sends, alive at once
  Client    \* bound: client objects referenced at once (names are reused)

ASSUME SizesAssumption == Sender # {} /\ Client \subseteq Nat \ {0}

VARIABLES
  up,        \* Kafka is reachable
  connected, \* _connected
  producer,  \* _producer, or NoClient
  task,      \* the reconnect tasks and stop()
  sender,    \* the sends in flight
  live,      \* clients started and not stopped that are still referenced
  stopped    \* stop() was called

vars == <<up, connected, producer, task, sender, live, stopped>>

NoClient == 0

Loop == "reconnect_loop"
Stopper == "stop"
Task == {Loop, Stopper} \union Spawned

Parked(pc) == [pc |-> pc, client |-> NoClient]

\* The clients some variable or suspended frame still refers to.
Held(p, ts, ss) ==
  {p} \union {ts[t].client : t \in Task} \union {ss[s].client : s \in Sender}

\* The references after a step, of which l are the clients running.  A client
\* that loses its last reference is never stopped: it leaks.
Becomes(l, p, ts, ss) ==
  /\ producer' = p
  /\ task' = ts
  /\ sender' = ss
  /\ live' = l \intersect Held(p, ts, ss)

Init ==
  /\ up \in BOOLEAN
  /\ connected = FALSE
  /\ producer = NoClient
  /\ task = [t \in Task |-> Parked(IF t = Loop THEN "idle" ELSE "gone")]
  /\ sender = [s \in Sender |-> Parked("idle")]
  /\ live = {}
  /\ stopped = FALSE

----------------------------------------------------------------------------
(* Reconnection.                                                           *)

\* Where a reconnect task waits once its attempt is over.
Finished(t) == Parked(IF t = Loop THEN "idle" ELSE "gone")

\* Awaiting AIOKafkaProducer.start().
Connecting == Parked(IF up THEN "connecting" ELSE "failing")

\* Where task t goes when there is no client left to stop.
Closed(t) == IF t = Stopper THEN Finished(t) ELSE Connecting

\* _close_producer up to its first await: stop the current client, if any.
CloseProducer(t) ==
  /\ Becomes(live, producer,
             [task EXCEPT ![t] = IF producer = NoClient THEN Closed(t)
                                 ELSE [pc |-> "closing", client |-> producer]],
             sender)
  /\ UNCHANGED <<up, connected, stopped>>

LoopWakes ==
  /\ task[Loop].pc = "idle"
  /\ ~connected
  /\ CloseProducer(Loop)

\* A task created by a failed send, or stop() past its cancellations.
TaskStarts(t) ==
  /\ task[t].pc = "ready"
  /\ CloseProducer(t)

\* Seeded fault: the flag is not reset with the reference.
CloseForgetsFlag(t) ==
  /\ task[t].pc = "closing"
  /\ Becomes(live \ {task[t].client}, NoClient,
             [task EXCEPT ![t] = Closed(t)], sender)
  /\ UNCHANGED <<up, connected, stopped>>

\* stop() of the client returns or raises, and the `finally` clause drops
\* whatever `_producer` now refers to.
CloseDone(t) ==
  /\ task[t].pc = "closing"
  /\ Becomes(live \ {task[t].client}, NoClient,
             [task EXCEPT ![t] = Closed(t)], sender)
  /\ connected' = FALSE
  /\ UNCHANGED <<up, stopped>>

\* _create_producer returns a client; it replaces whatever was there.
ConnectOk(t) ==
  /\ task[t].pc \in {"connecting", "failing"}
  /\ up
  /\ LET fresh == Client \ Held(producer, task, sender)
     IN \E c \in fresh :
          /\ \A d \in fresh : c <= d
          /\ Becomes(live \union {c}, c, [task EXCEPT ![t] = Finished(t)], sender)
  /\ connected' = TRUE
  /\ UNCHANGED <<up, stopped>>

\* Seeded fault: the failed attempt is not caught and ends its task.
ConnectFailureEndsTask(t) ==
  /\ task[t].pc = "failing"
  /\ Becomes(live, producer, [task EXCEPT ![t] = Parked("raised")], sender)
  /\ connected' = FALSE
  /\ UNCHANGED <<up, stopped>>

\* The attempt fails: the flag goes down even if another task just put it up.
ConnectFails(t) ==
  /\ task[t].pc = "failing"
  /\ Becomes(live, producer, [task EXCEPT ![t] = Finished(t)], sender)
  /\ connected' = FALSE
  /\ UNCHANGED <<up, stopped>>

----------------------------------------------------------------------------
(* Sending.                                                                *)

\* send_and_wait is called on the client of the moment.
SendStarts(s) ==
  /\ ~stopped
  /\ sender[s].pc = "idle"
  /\ connected
  /\ Becomes(live, producer, task,
             [sender EXCEPT ![s] = [pc |-> IF up THEN "waiting" ELSE "failing",
                                    client |-> producer]])
  /\ UNCHANGED <<up, connected, stopped>>

\* The acknowledgement arrives, or the client was stopped under the send
\* (ProducerClosed, a KafkaError that leaves the connection alone).
SendReturns(s) ==
  /\ sender[s].pc \in {"waiting", "failing"}
  /\ up \/ sender[s].client \notin live
  /\ Becomes(live, producer, task, [sender EXCEPT ![s] = Parked("idle")])
  /\ UNCHANGED <<up, connected, stopped>>

\* KafkaConnectionError or KafkaTimeoutError: a reconnect task is created,
\* whatever the state the connection has reached by now.
SendFails(s) ==
  /\ sender[s].pc = "failing"
  /\ \E t \in Spawned :
       /\ task[t].pc = "gone"
       /\ Becomes(live, producer, [task EXCEPT ![t] = Parked("ready")],
                  [sender EXCEPT ![s] = Parked("idle")])
  /\ connected' = FALSE
  /\ UNCHANGED <<up, stopped>>

----------------------------------------------------------------------------
(* Shutdown and environment.                                               *)

\* stop() cancels the loops, and the reconnect loop inside its `finally` if it
\* was closing a client, which then counts as stopped.  Tasks created by failed
\* sends are not cancelled, and may run before stop() closes the client.
Stop ==
  /\ ~stopped
  /\ stopped' = TRUE
  /\ Becomes(live \ {task[Loop].client},
             IF task[Loop].pc = "closing" THEN NoClient ELSE producer,
             [task EXCEPT ![Loop] = Parked("gone"), ![Stopper] = Parked("ready")],
             [s \in Sender |-> Parked("idle")])
  /\ connected' = (connected /\ task[Loop].pc # "closing")
  /\ UNCHANGED up

KafkaUp ==
  /\ ~up
  /\ up' = TRUE
  /\ UNCHANGED <<connected, producer, task, sender, live, stopped>>

\* Every call in flight may now fail.
KafkaDown ==
  /\ up
  /\ up' = FALSE
  /\ Becomes(live, producer,
             [t \in Task |-> IF task[t].pc = "connecting"
                             THEN Parked("failing") ELSE task[t]],
             [s \in Sender |-> IF sender[s].pc = "waiting"
                               THEN [sender[s] EXCEPT !.pc = "failing"]
                               ELSE sender[s]])
  /\ UNCHANGED <<connected, stopped>>

TaskStep(t) ==
  \/ t = Loop /\ LoopWakes
  \/ TaskStarts(t)
  \/ CloseDone(t) \/ ConnectOk(t) \/ ConnectFails(t)

SendStep(s) == SendStarts(s) \/ SendReturns(s) \/ SendFails(s)

Next ==
  \/ \E t \in Task : TaskStep(t)
  \/ \E s \in Sender : SendStep(s)
  \/ Stop
  \/ KafkaUp \/ KafkaDown

Spec == Init /\ [][Next]_vars

\* The event loop runs every ready coroutine, sleeps and Kafka calls end.
LiveSpec ==
  /\ Spec
  /\ \A t \in Task : WF_vars(TaskStep(t))
  /\ \A s \in Sender : WF_vars(SendStep(s))

----------------------------------------------------------------------------
(* Properties.                                                             *)

TaskState == [pc : {"idle", "gone", "ready", "closing", "connecting", "failing"},
              client : Client \union {NoClient}]
SenderState == [pc : {"idle", "waiting", "failing"},
                client : Client \union {NoClient}]

\* The state has its type; a task or send waits at an await it can wait at.
TypeOK ==
  /\ up \in BOOLEAN
  /\ connected \in BOOLEAN
  /\ producer \in Client \union {NoClient}
  /\ task \in [Task -> TaskState]
  /\ sender \in [Sender -> SenderState]
  /\ live \subseteq Client
  /\ stopped \in BOOLEAN

\* Whoever finds `_connected` set finds a client that was started and not yet
\* stopped, however the reconnect tasks interleave: _send_single dereferences
\* `_producer` without a test of its own.
ConnectedHasLiveClient == connected => producer \in live

\* When Kafka stays reachable the producer ends up connected for good: the
\* tasks that close a healthy client and the late failures that reset the flag
\* run out, and the loop repairs what they leave.
EventuallyConnected == <>[](up /\ ~stopped) => <>[]connected
=============================================================================
