------------------------------- MODULE Arbiter -------------------------------
(***************************************************************************)
(* The HAMq arbiter: the passes of the Reconciler, which compare what the  *)
(* producer says it sent with what the consumer says it stored.  The loop  *)
(* and a manual trigger may run passes at the same time, and every pass    *)
(* reads its three sources one await after the other while the pipeline    *)
(* moves on.                                                               *)
(*                                                                         *)
(* The pipeline is the abstract view of modules Producer and Consumer: a   *)
(* message goes to the topic at once, or to the producer's buffer and from *)
(* there to the topic later or nowhere (evicted); the consumer stores the  *)
(* topic in order and prunes what is old.  Messages are numbered as they   *)
(* are generated; their sequence numbers start again at 1 when the         *)
(* producer restarts, and the consumer answers by sequence number.         *)
(*                                                                         *)
(* Logging in, and the one retry after a 401, are part of the call they    *)
(* precede.  One producer URL is modelled: a pass takes them one by one.   *)
(* What becomes of the audits is module AuditTrail; metrics are left out.  *)
(***************************************************************************)
EXTENDS Integers, Sequences, FiniteSets

CONSTANTS
  MaxMessages,  \* bound: messages generated
  RecentCap,    \* _RECENT_MESSAGES_CAPACITY of the producer
  Threshold,    \* ALERT_LOSS_RATE_THRESHOLD, in percent
  MaxRestarts,  \* bound: producer restarts
  ApiFaults     \* TRUE if calls to the APIs and the audit database may fail

ASSUME ArbiterAssumption ==
  /\ MaxMessages \in Nat /\ RecentCap \in Nat \ {0}
  /\ Threshold \in 0..100 /\ MaxRestarts \in Nat /\ ApiFaults \in BOOLEAN

VARIABLES
  generated,  \* messages generated so far
  starts,     \* numbers of messages that preceded each start of the producer
  since,      \* messages generated before _recent_messages was last emptied
  buffered,   \* messages waiting in the producer's buffer
  detoured,   \* messages that were ever buffered
  queue,      \* the topic from the consumer's position on
  stored,     \* messages in the consumer's database
  pruned,     \* messages its retention has deleted
  cache,      \* MAX(sequence) when the consumer last refreshed its statistics
  running,    \* Reconciler._running
  http,       \* _http is an open client
  pass        \* the passes in progress, each with the audit it is making

pipelineVars ==
  <<generated, starts, since, buffered, detoured, queue, stored, pruned, cache>>
serviceVars == <<running, http>>
vars == <<pipelineVars, serviceVars, pass>>

Msg == 1..MaxMessages
Pass == {"loop", "manual"}

MaxOf(S) == CHOOSE x \in S : \A y \in S : y <= x

\* The number a message carries: its rank in its run of the producer.
SequenceOf(m) == m - MaxOf({s \in starts : s < m})

\* GET /api/messages/recent: the tail of what was generated since the producer
\* started, or its counters were reset.
Recent == {m \in Msg : m <= generated /\ m > generated - RecentCap /\ m > since}

NoPass == [pc |-> "idle", sent |-> {}, missing |-> {}, known |-> FALSE, answered |-> TRUE]
At(pc) == [NoPass EXCEPT !.pc = pc]

Init ==
  /\ generated = 0
  /\ starts = {0}
  /\ since = 0
  /\ buffered = {}
  /\ detoured = {}
  /\ queue = <<>>
  /\ stored = {}
  /\ pruned = {}
  /\ cache = 0
  /\ running = TRUE
  /\ http = TRUE
  /\ pass = [p \in Pass |-> NoPass]

----------------------------------------------------------------------------
(* The pipeline.                                                           *)

Generate ==
  /\ generated < MaxMessages
  /\ generated' = generated + 1
  /\ \/ /\ queue' = Append(queue, generated')
        /\ UNCHANGED <<buffered, detoured>>
     \/ /\ buffered' = buffered \union {generated'}
        /\ detoured' = detoured \union {generated'}
        /\ UNCHANGED queue
  /\ UNCHANGED <<starts, since, stored, pruned, cache, serviceVars, pass>>

\* The producer's flush loop sends a buffered message, or an add() evicts it.
LeaveBuffer ==
  /\ \E m \in buffered :
       /\ buffered' = buffered \ {m}
       /\ queue' \in {queue, Append(queue, m)}
  /\ UNCHANGED <<generated, starts, since, detoured, stored, pruned, cache,
                 serviceVars, pass>>

RestartProducer ==
  /\ Cardinality(starts) <= MaxRestarts
  /\ starts' = starts \union {generated}
  /\ since' = generated
  /\ UNCHANGED <<generated, buffered, detoured, queue, stored, pruned, cache,
                 serviceVars, pass>>

\* reset_stats empties the recent messages; the numbering goes on.
ResetStats ==
  /\ since' = generated
  /\ UNCHANGED <<generated, starts, buffered, detoured, queue, stored, pruned, cache,
                 serviceVars, pass>>

Store ==
  /\ queue # <<>>
  /\ stored' = stored \union {Head(queue)}
  /\ queue' = Tail(queue)
  /\ UNCHANGED <<generated, starts, since, buffered, detoured, pruned, cache,
                 serviceVars, pass>>

\* The consumer's retention deletes a row, whichever was received first.
Prune ==
  /\ \E m \in stored : stored' = stored \ {m} /\ pruned' = pruned \union {m}
  /\ UNCHANGED <<generated, starts, since, buffered, detoured, queue, cache,
                 serviceVars, pass>>

\* Seeded fault: the maximum over no rows is not told from a number.
RefreshStatsNull ==
  /\ cache' = IF stored = {} THEN -1 ELSE MaxOf({SequenceOf(m) : m \in stored})
  /\ UNCHANGED <<generated, starts, since, buffered, detoured, queue, stored, pruned,
                 serviceVars, pass>>

\* The consumer's stats loop: MAX(sequence), over every run of the producer.
RefreshStats ==
  /\ cache' = IF stored = {} THEN 0 ELSE MaxOf({SequenceOf(m) : m \in stored})
  /\ UNCHANGED <<generated, starts, since, buffered, detoured, queue, stored, pruned,
                 serviceVars, pass>>

----------------------------------------------------------------------------
(* A pass: run_once and _reconcile_producer.                               *)

PassGoes(p, state) ==
  /\ pass' = [pass EXCEPT ![p] = state]
  /\ UNCHANGED <<pipelineVars, running>>

BeginPass(p) ==
  /\ pass[p].pc = "idle"
  /\ p = "loop" => running
  /\ PassGoes(p, At("recent"))
  /\ http' = TRUE

\* No sequences: the producer is skipped.
FetchSent(p) ==
  /\ pass[p].pc = "recent"
  /\ http
  /\ PassGoes(p, IF Recent = {} THEN NoPass ELSE [At("watermark") EXCEPT !.sent = Recent])
  /\ UNCHANGED http

\* Seeded fault: one sequence beyond the watermark is let through.
EligibleAndNext(sent, mark) == {m \in sent : SequenceOf(m) <= mark + 1}

Eligible(sent, mark) == {m \in sent : SequenceOf(m) <= mark}

\* Compare only what the consumer has reached.  Without a watermark (nothing
\* stored when the statistics were made) everything is compared.
FetchWatermark(p) ==
  /\ pass[p].pc = "watermark"
  /\ http
  /\ LET sent == Eligible(pass[p].sent, cache)
     IN PassGoes(p, IF cache = 0 THEN [pass[p] EXCEPT !.pc = "missing"]
                    ELSE IF sent = {} THEN NoPass
                    ELSE [At("missing") EXCEPT !.sent = sent, !.known = TRUE])
  /\ UNCHANGED http

\* Seeded fault: the watermark alone is taken for what was received.
ReceivedUpTo(sent) ==
  {m \in sent : \E k \in stored : SequenceOf(k) >= SequenceOf(m)}

\* The sequence numbers in range that the consumer does not call missing.
Received(sent) ==
  {m \in sent : \E k \in stored : SequenceOf(k) = SequenceOf(m)}

FetchMissing(p) ==
  /\ pass[p].pc = "missing"
  /\ http
  /\ PassGoes(p, [pass[p] EXCEPT !.pc = "save",
                                 !.missing = pass[p].sent \ Received(pass[p].sent)])
  /\ UNCHANGED http

\* Seeded fault: no answer about the missing reads as "nothing is missing".
FetchFailsSilently(p) ==
  /\ ApiFaults
  /\ http
  /\ \/ pass[p].pc = "recent" /\ PassGoes(p, NoPass)
     \/ pass[p].pc = "watermark" /\ PassGoes(p, [pass[p] EXCEPT !.pc = "missing"])
     \/ pass[p].pc = "missing" /\ PassGoes(p, [pass[p] EXCEPT !.pc = "save"])
  /\ UNCHANGED http

\* A call fails: no sequences, no watermark, or nothing received.
FetchFails(p) ==
  /\ ApiFaults
  /\ http
  /\ \/ pass[p].pc = "recent" /\ PassGoes(p, NoPass)
     \/ pass[p].pc = "watermark" /\ PassGoes(p, [pass[p] EXCEPT !.pc = "missing"])
     \/ /\ pass[p].pc = "missing"
        /\ PassGoes(p, [pass[p] EXCEPT !.pc = "save", !.missing = pass[p].sent,
                                       !.answered = FALSE])
  /\ UNCHANGED http

\* The loss rate missing / sent is at the threshold or above it: at a threshold
\* of 0 also when nothing is missing.
Alarming(missing, sent) == 100 * Cardinality(missing) >= Threshold * Cardinality(sent)

\* The audit is saved; an alarming one is followed by an alert.
Save(p) ==
  /\ pass[p].pc = "save"
  /\ PassGoes(p, IF Alarming(pass[p].missing, pass[p].sent)
                 THEN [pass[p] EXCEPT !.pc = "alert"] ELSE NoPass)
  /\ UNCHANGED http

\* The webhook is best effort: the pass ends whether it was delivered or not.
Alert(p) ==
  /\ pass[p].pc = "alert"
  /\ PassGoes(p, NoPass)
  /\ UNCHANGED http

\* save_result raises, or stop() closed the client: run_once counts the error.
PassFails(p) ==
  /\ \/ pass[p].pc = "save" /\ ApiFaults
     \/ pass[p].pc \in {"recent", "watermark", "missing"} /\ ~http
  /\ PassGoes(p, NoPass)
  /\ UNCHANGED http

PassStep(p) ==
  \/ FetchSent(p) \/ FetchWatermark(p) \/ FetchMissing(p) \/ FetchFails(p)
  \/ Save(p) \/ Alert(p) \/ PassFails(p)

Start ==
  /\ ~running
  /\ running' = TRUE
  /\ http' = TRUE
  /\ UNCHANGED <<pipelineVars, pass>>

\* stop() cancels the loop's pass wherever it is, and closes the client under a
\* manual pass.  An INSERT the pass waited for may be done.
Stop ==
  /\ running
  /\ running' = FALSE
  /\ http' = FALSE
  /\ pass' = [pass EXCEPT !["loop"] = NoPass]
  /\ UNCHANGED pipelineVars

Next ==
  \/ Generate \/ LeaveBuffer \/ RestartProducer \/ ResetStats \/ Store \/ Prune \/ RefreshStats
  \/ \E p \in Pass : BeginPass(p) \/ PassStep(p)
  \/ Start \/ Stop

Spec == Init /\ [][Next]_vars

\* The loop runs and its calls end; the consumer consumes and refreshes.
LiveSpec ==
  /\ Spec
  /\ WF_vars(BeginPass("loop") \/ PassStep("loop"))
  /\ WF_vars(Store)
  /\ WF_vars(RefreshStats)

----------------------------------------------------------------------------
(* Properties.                                                             *)

PassState == [pc : {"idle", "recent", "watermark", "missing", "save", "alert"},
              sent : SUBSET Msg, missing : SUBSET Msg,
              known : BOOLEAN, answered : BOOLEAN]

\* The state has its type; the watermark the consumer serves is a number.
TypeOK ==
  /\ generated \in 0..MaxMessages
  /\ starts \subseteq 0..MaxMessages
  /\ since \in 0..MaxMessages
  /\ buffered \subseteq detoured
  /\ detoured \subseteq Msg
  /\ queue \in Seq(Msg)
  /\ stored \subseteq Msg
  /\ pruned \subseteq Msg
  /\ cache \in 0..MaxMessages
  /\ running \in BOOLEAN
  /\ http \in BOOLEAN
  /\ pass \in [Pass -> PassState]

\* The passes whose audit is made.
Audits == {pass[p] : p \in {q \in Pass : pass[q].pc \in {"save", "alert"}}}

SameNumber(m, S) == \E k \in S : SequenceOf(k) = SequenceOf(m)

\* An audit vouches for a message, by not listing it as missing, only if the
\* consumer stored it, or one of an earlier run under its number: no failed
\* call and no stale cache makes a loss look like a delivery.
VouchedWasStored ==
  \A a \in Audits : \A m \in a.sent \ a.missing : SameNumber(m, stored \union pruned)

\* Against a known watermark, with the consumer answering, a message that went
\* straight to the topic is not called missing: the consumer reads in order
\* and its watermark is never ahead of its table.  What is called missing was
\* held back in the producer's buffer, was pruned, or shares the numbers of
\* an earlier run.
OnlyDetouredIsMissing ==
  \A a \in Audits :
    a.known /\ a.answered /\ starts = {0} => a.missing \subseteq detoured \union pruned

InTopic == {queue[i] : i \in DOMAIN queue}

\* A message evicted from the producer's buffer is reported missing pass after
\* pass, once calls stop failing, as long as it stays among the recent ones, a
\* later one is stored, and none of an earlier run hides it.
LossIsReported ==
  (<>[]running /\ <>[][\A p \in Pass : ~FetchFails(p)]_vars) =>
    \A m \in Msg :
      <>[](/\ m \in Recent \ (buffered \union pruned \union InTopic)
           /\ ~SameNumber(m, stored)
           /\ \E k \in stored : SequenceOf(k) > SequenceOf(m))
      => []<>(\E a \in Audits : m \in a.missing)

\* Comparing only what the consumer has processed is to prevent false reports
\* of a total loss while it catches up: an audit that finds every message
\* missing is not one whose messages all wait in the topic.
CatchingUpIsNotLoss ==
  \A a \in Audits :
    a.missing = a.sent => ~(a.sent \subseteq InTopic)
=============================================================================
