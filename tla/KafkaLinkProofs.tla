-------------------------- MODULE KafkaLinkProofs --------------------------
(***************************************************************************)
(* What holds of the producer's connection for any number of senders,      *)
(* reconnect tasks and clients: the state has its type, and the flag       *)
(* `_connected` is only up while `_producer` is a running client.          *)
(*                                                                         *)
(* The flag alone is not inductive: stop() takes down the client that the  *)
(* reconnect loop is closing, which must not be `_producer` unless the     *)
(* flag goes down too.  ClosingHoldsClient says that a task refers to a    *)
(* client only while it closes it.                                         *)
(***************************************************************************)
EXTENDS KafkaLink, TLAPS

\* A task refers to a client of its own only while it is closing it.
ClosingHoldsClient ==
  \A t \in Task : task[t].pc # "closing" => task[t].client = NoClient

IInv == TypeOK /\ ConnectedHasLiveClient /\ ClosingHoldsClient

\* A table of tasks that a step may leave behind.
Sound(ts) ==
  /\ ts \in [Task -> TaskState]
  /\ \A t \in Task : ts[t].pc # "closing" => ts[t].client = NoClient

\* A task that waits for no client is well typed.
LEMMA ParkedTask ==
  ASSUME NEW pc \in {"idle", "gone", "ready", "connecting", "failing"}
  PROVE  Parked(pc) \in TaskState /\ Parked(pc).client = NoClient /\ Parked(pc).pc = pc
  BY DEF Parked, TaskState

\* A send that waits for no client is well typed.
LEMMA ParkedSender ==
  ASSUME NEW pc \in {"idle", "waiting", "failing"}
  PROVE  Parked(pc) \in SenderState
  BY DEF Parked, SenderState

\* A task that ends an attempt, or starts one, is parked.
LEMMA EndsParked ==
  ASSUME NEW t
  PROVE  /\ Finished(t) \in TaskState /\ Finished(t).client = NoClient
         /\ Closed(t) \in TaskState /\ Closed(t).client = NoClient
  BY ParkedTask DEF Finished, Closed, Connecting

\* One task moving to a state without a client leaves the tasks sound.
LEMMA TaskMoves ==
  ASSUME Sound(task), NEW t \in Task, NEW state \in TaskState,
         state.pc # "closing" => state.client = NoClient
  PROVE  Sound([task EXCEPT ![t] = state])
  BY DEF Sound

\* The step Becomes keeps the invariant if what it is given is well typed and
\* the flag is only left up over a running client.
LEMMA BecomesKeeps ==
  ASSUME NEW l \in SUBSET Client, NEW p \in Client \union {NoClient},
         NEW ts, NEW ss \in [Sender -> SenderState], Sound(ts),
         Becomes(l, p, ts, ss),
         up' \in BOOLEAN, connected' \in BOOLEAN, stopped' \in BOOLEAN,
         connected' => p \in l
  PROVE  IInv'
  <1>1. live' \subseteq l /\ (p \in l => p \in live')
    BY DEF Becomes, Held
  <1>2. producer' = p /\ task' = ts /\ sender' = ss
    BY DEF Becomes
  <1>3. TypeOK'
    BY <1>1, <1>2 DEF TypeOK, Sound
  <1>4. ConnectedHasLiveClient'
    BY <1>1, <1>2 DEF ConnectedHasLiveClient
  <1>5. ClosingHoldsClient'
    BY <1>2 DEF ClosingHoldsClient, Sound
  <1> QED
    BY <1>3, <1>4, <1>5 DEF IInv

\* The invariant holds at the start.
LEMMA InitIInv == Init => IInv
  <1> SUFFICES ASSUME Init PROVE IInv
    OBVIOUS
  <1>1. TypeOK
    BY ParkedTask, ParkedSender DEF Init, TypeOK
  <1>2. ConnectedHasLiveClient
    BY DEF Init, ConnectedHasLiveClient
  <1>3. ClosingHoldsClient
    BY ParkedTask DEF Init, ClosingHoldsClient
  <1> QED
    BY <1>1, <1>2, <1>3 DEF IInv

\* Every step keeps it.
LEMMA StepIInv == IInv /\ [Next]_vars => IInv'
  <1> SUFFICES ASSUME IInv, [Next]_vars PROVE IInv'
    OBVIOUS
  <1>0. /\ up \in BOOLEAN /\ connected \in BOOLEAN /\ stopped \in BOOLEAN
        /\ producer \in Client \union {NoClient} /\ live \in SUBSET Client
        /\ sender \in [Sender -> SenderState] /\ task \in [Task -> TaskState]
    BY DEF IInv, TypeOK
  <1>1. Sound(task)
    BY DEF IInv, TypeOK, ClosingHoldsClient, Sound
  <1>2. connected => producer \in live
    BY DEF IInv, ConnectedHasLiveClient
  <1>3. ASSUME NEW t \in Task, CloseProducer(t) PROVE IInv'
    <2> DEFINE state == IF producer = NoClient THEN Closed(t)
                        ELSE [pc |-> "closing", client |-> producer]
    <2>1. state \in TaskState /\ (state.pc # "closing" => state.client = NoClient)
      BY <1>0, EndsParked DEF TaskState
    <2>2. Sound([task EXCEPT ![t] = state])
      BY <1>1, <2>1, TaskMoves
    <2> QED
      BY <1>0, <1>2, <1>3, <2>2, BecomesKeeps DEF CloseProducer
  <1>4. ASSUME NEW t \in Task, CloseDone(t) PROVE IInv'
    <2>1. Sound([task EXCEPT ![t] = Closed(t)])
      BY <1>1, EndsParked, TaskMoves
    <2>2. live \ {task[t].client} \in SUBSET Client
      BY <1>0
    <2> QED
      BY <1>0, <1>4, <2>1, <2>2, BecomesKeeps DEF CloseDone
  <1>5. ASSUME NEW t \in Task, ConnectOk(t) PROVE IInv'
    <2>1. PICK c \in Client : Becomes(live \union {c}, c, [task EXCEPT ![t] = Finished(t)], sender)
      BY <1>5 DEF ConnectOk
    <2>2. Sound([task EXCEPT ![t] = Finished(t)])
      BY <1>1, EndsParked, TaskMoves
    <2>3. live \union {c} \in SUBSET Client
      BY <1>0
    <2> QED
      BY <1>0, <1>5, <2>1, <2>2, <2>3, BecomesKeeps DEF ConnectOk
  <1>6. ASSUME NEW t \in Task, ConnectFails(t) PROVE IInv'
    <2>1. Sound([task EXCEPT ![t] = Finished(t)])
      BY <1>1, EndsParked, TaskMoves
    <2> QED
      BY <1>0, <1>6, <2>1, BecomesKeeps DEF ConnectFails
  <1>7. ASSUME NEW s \in Sender, SendStarts(s) PROVE IInv'
    <2> DEFINE state == [pc |-> IF up THEN "waiting" ELSE "failing", client |-> producer]
    <2>1. state \in SenderState
      BY <1>0 DEF SenderState
    <2>2. [sender EXCEPT ![s] = state] \in [Sender -> SenderState]
      BY <1>0, <2>1
    <2> QED
      BY <1>0, <1>1, <1>2, <1>7, <2>2, BecomesKeeps DEF SendStarts
  <1>8. ASSUME NEW s \in Sender, SendReturns(s) PROVE IInv'
    <2>1. [sender EXCEPT ![s] = Parked("idle")] \in [Sender -> SenderState]
      BY <1>0, ParkedSender
    <2> QED
      BY <1>0, <1>1, <1>2, <1>8, <2>1, BecomesKeeps DEF SendReturns
  <1>9. ASSUME NEW s \in Sender, SendFails(s) PROVE IInv'
    <2>1. PICK t \in Spawned : Becomes(live, producer, [task EXCEPT ![t] = Parked("ready")],
                                       [sender EXCEPT ![s] = Parked("idle")])
      BY <1>9 DEF SendFails
    <2>2. Sound([task EXCEPT ![t] = Parked("ready")])
      BY <1>1, ParkedTask, TaskMoves DEF Task
    <2>3. [sender EXCEPT ![s] = Parked("idle")] \in [Sender -> SenderState]
      BY <1>0, ParkedSender
    <2> QED
      BY <1>0, <1>9, <2>1, <2>2, <2>3, BecomesKeeps DEF SendFails
  <1>10. CASE Stop
    <2> DEFINE p == IF task[Loop].pc = "closing" THEN NoClient ELSE producer
               ts == [task EXCEPT ![Loop] = Parked("gone"), ![Stopper] = Parked("ready")]
               l == live \ {task[Loop].client}
               ss == [s \in Sender |-> Parked("idle")]
    <2>1. Sound(ts)
      BY <1>1, ParkedTask DEF Sound, Task
    <2>2. l \in SUBSET Client /\ p \in Client \union {NoClient}
          /\ ss \in [Sender -> SenderState]
      BY <1>0, ParkedSender
    <2>3. connected' => p \in l
      <3> SUFFICES ASSUME connected' PROVE p \in l
        OBVIOUS
      <3>1. connected /\ task[Loop].pc # "closing"
        BY <1>10 DEF Stop
      <3>2. task[Loop].client = NoClient
        BY <1>1, <3>1 DEF Sound, Task
      <3>3. NoClient \notin live
        BY <1>0, SizesAssumption DEF NoClient
      <3> QED
        BY <1>2, <3>1, <3>2, <3>3
    <2>4. connected' \in BOOLEAN /\ up' \in BOOLEAN /\ stopped' \in BOOLEAN
      BY <1>0, <1>10 DEF Stop
    <2>5. Becomes(l, p, ts, ss)
      BY <1>10 DEF Stop
    <2> HIDE DEF p, ts, l, ss
    <2> QED
      BY <2>1, <2>2, <2>3, <2>4, <2>5, BecomesKeeps
  <1>11. CASE KafkaUp
    BY <1>0, <1>11 DEF KafkaUp, IInv, TypeOK, ConnectedHasLiveClient, ClosingHoldsClient
  <1>12. CASE KafkaDown
    <2> DEFINE ts == [t \in Task |-> IF task[t].pc = "connecting"
                                     THEN Parked("failing") ELSE task[t]]
               ss == [s \in Sender |-> IF sender[s].pc = "waiting"
                                       THEN [sender[s] EXCEPT !.pc = "failing"]
                                       ELSE sender[s]]
    <2>1. Sound(ts)
      BY <1>1, ParkedTask DEF Sound
    <2>2. ss \in [Sender -> SenderState]
      BY <1>0 DEF SenderState
    <2>3. Becomes(live, producer, ts, ss) /\ up' \in BOOLEAN
          /\ connected' = connected /\ stopped' = stopped
      BY <1>12 DEF KafkaDown
    <2> HIDE DEF ts, ss
    <2> QED
      BY <1>0, <1>2, <2>1, <2>2, <2>3, BecomesKeeps
  <1>13. CASE UNCHANGED vars
    BY <1>13 DEF vars, IInv, TypeOK, ConnectedHasLiveClient, ClosingHoldsClient
  <1> QED
    BY <1>3, <1>4, <1>5, <1>6, <1>7, <1>8, <1>9, <1>10, <1>11, <1>12, <1>13
       DEF Next, TaskStep, TaskStarts, LoopWakes, SendStep, Task

\* IInv is an invariant.
LEMMA Invariance == Spec => []IInv
  BY InitIInv, StepIInv, PTL DEF Spec

\* The state of the connection always has its type.
THEOREM TypeCorrect == Spec => []TypeOK
  <1>1. IInv => TypeOK
    BY DEF IInv
  <1> QED
    BY Invariance, <1>1, PTL

\* Whatever the reconnect tasks, the senders and stop() do between two awaits,
\* a coroutine that finds `_connected` set sends on a running client.
THEOREM ConnectedIsUsable == Spec => []ConnectedHasLiveClient
  <1>1. IInv => ConnectedHasLiveClient
    BY DEF IInv
  <1> QED
    BY Invariance, <1>1, PTL

=============================================================================
