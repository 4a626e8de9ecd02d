------------------------------- MODULE Pipeline -------------------------------
(***************************************************************************)
(* The HAMq pipeline: the detailed producer (module Producer, its names    *)
(* under Sender) and the detailed consumer (this module's own names), over *)
(* one topic.  The two services share nothing else.                        *)
(*                                                                         *)
(* A record arrives when the brokers append a message in flight, for the   *)
(* first time or again: to the consumer it is a new record, to the         *)
(* producer's history a first append or nothing.  Every other step is one  *)
(* of a single service.                                                    *)
(*                                                                         *)
(* The topic keeps its records until the consumer has read them: its       *)
(* retention in Kafka is the cluster's and outlives the consumer's lag.    *)
(***************************************************************************)
EXTENDS Consumer

CONSTANTS
  MaxMessages,    \* bound: messages generated
  BufferMax,      \* settings.BUFFER_MAX_SIZE of the producer
  BatchLimit,     \* the limit that _flush_buffer passes to get_pending
  SenderCrashes,  \* bound: crashes of the producer process
  DbFaults        \* TRUE if the producer's SQLite operations may raise

VARIABLES
  buffer, bufferDisk,  \* the producer's messages table, open and committed
  producing,           \* ProducerService._running
  generated, send, flush, connected, ahead, log,
  counted, evicted, unbuffered, uncounted,
  senderCrashes,
  detoured             \* history: messages that the produce loop left behind
                       \* when they were not in the topic

senderVars ==
  <<buffer, bufferDisk, producing, generated, send, flush, connected, ahead, log,
    counted, evicted, unbuffered, uncounted, senderCrashes>>
receiverVars ==
  <<committed, tableVars, running, handle, loop, stop, clientVars, crashes>>
pipelineVars == <<vars, senderVars, detoured>>

Sender == INSTANCE ProducerProofs WITH
  MaxCrashes <- SenderCrashes,
  rows       <- buffer,
  disk       <- bufferDisk,
  running    <- producing,
  crashes    <- senderCrashes

\* Every message the producer generates is one the consumer may be sent.
PipelineAssumption ==
  /\ Sender!BoundsAssumption
  /\ Sender!FaultsAssumption
  /\ Sender!Msg \subseteq Msg

PipelineInit == Sender!Init /\ Init /\ detoured = {}

\* The messages that the produce loop is done with.
Finished == (1..generated) \ (IF send.pc = "idle" THEN {} ELSE {send.msg})

\* The brokers append a message again: a retry whose first send did arrive.
AppendedAgain(s) ==
  /\ Sender!InFlight(s).pc = "send"
  /\ Sender!InFlight(s).msg \in Sender!Published
  /\ UNCHANGED senderVars

Arrive(s) ==
  /\ Sender!KafkaAppend(s) \/ AppendedAgain(s)
  /\ topic' = Append(topic, Sender!InFlight(s).msg)
  /\ Produce

SenderStep ==
  /\ Sender!Next
  /\ UNCHANGED <<log, topic, receiverVars>>

ReceiverStep ==
  /\ Next
  /\ UNCHANGED <<topic, senderVars>>

PipelineNext ==
  /\ SenderStep \/ ReceiverStep \/ \E s \in Sender!Loop : Arrive(s)
  /\ detoured' = detoured \union (Finished' \ Sender!Published')

PipelineSpec == PipelineInit /\ [][PipelineNext]_pipelineVars

\* The records the consumer has not acknowledged: a restart reads them.
Ahead == {topic[i] : i \in {j \in DOMAIN topic : j >= committed}}

\* Every message the producer has taken charge of is in a place where it is
\* still to be looked for: its committed buffer, the topic ahead of the
\* consumer, the consumer's committed store.  If it is in none of them, its loss
\* was logged or the retention removed it after it was stored.
NothingVanishes ==
  \A m \in Sender!HandedOver :
    \/ bufferDisk[m] = "pending"
    \/ m \in Ahead
    \/ m \in Rows(disk)
    \/ m \in evicted \union unbuffered \union pruned

\* The other half of what the arbiter takes for granted when it compares up to
\* the greatest number stored: a message that is not stored while a later one
\* is was not in the topic when the produce loop had finished with it, or the
\* retention has removed it.
OnlyDetouredLagBehind ==
  \A n \in Rows(disk) : \A m \in 1..(n - 1) :
    m \in Rows(disk) \union pruned \union detoured

===============================================================================
