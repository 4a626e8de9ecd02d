----------------------------- MODULE AuditTrail -----------------------------
(***************************************************************************)
(* The HAMq arbiter: what a pass leaves behind.  Module Arbiter says what  *)
(* an audit finds; here an audit is one of <<pass, producer>>, and the     *)
(* module follows it through the audit database, the alert webhook, the    *)
(* report of the pass, the manual trigger's answer and the WebSocket.      *)
(*                                                                         *)
(* The loop and a manual trigger may run passes at the same time.  They    *)
(* share the HTTP client, one cached producer token and one database       *)
(* connection, on which an INSERT and its COMMIT are two calls.  A pass    *)
(* takes the producers one by one and reads each API with at most one      *)
(* retry, after a 401 and a new login.  Each producer signs its tokens     *)
(* with its own secret, the harder of the two deployments.                 *)
(*                                                                         *)
(* A step of a pass is the end of one awaited call and what the code does  *)
(* up to the next one.  The two consumer calls are one step.               *)
(***************************************************************************)
EXTENDS Integers, Sequences, FiniteSets

CONSTANTS
  Producers,    \* number of PRODUCER_API_URLS
  MaxPasses,    \* bound: passes begun, over all lives of the process
  MaxUpsets     \* bound: calls of stop and crashes of the arbiter

ASSUME AuditTrailAssumption ==
  Producers \in Nat \ {0} /\ MaxPasses \in Nat /\ MaxUpsets \in Nat

Producer == 1..Producers
Pass == {"loop", "manual"}
Audit == (1..MaxPasses) \X Producer

\* A token is the number of the producer that gave it.
NoToken == 0
Token == {NoToken} \union Producer

NoReport == [run |-> 0, audits |-> {}, excused |-> {}]
NoPass == [pc |-> "idle", run |-> 0, at |-> 1, tok |-> NoToken,
           audits |-> {}, excused |-> {}]

VARIABLES
  passes,    \* passes begun, the last one's number
  upsets,    \* stops and crashes so far
  running,   \* Reconciler._running
  stopping,  \* a stop() that has cancelled the loop and not closed the client
  http,      \* _http is an open client
  token,     \* _producer_token
  pass,      \* the passes in progress
  calls,     \* calls queued on the database connection's thread
  rows,      \* audits table as the connection sees it
  disk,      \* audits table as it would be found after a crash
  cut,       \* the audits under whose call stop() closed the client
  last,      \* _last_report
  pushed     \* last_report_id of a WebSocket client's connection

pastVars == <<passes, upsets, cut>>
storeVars == <<calls, rows, disk>>
clientVars == <<last, pushed>>
vars == <<pastVars, running, stopping, http, token, pass, storeVars, clientVars>>

\* A fresh process: the lifespan hook starts the loop.
Booted ==
  /\ running' = TRUE
  /\ stopping' = FALSE
  /\ http' = TRUE
  /\ token' = NoToken
  /\ pass' = [p \in Pass |-> NoPass]
  /\ calls' = <<>>
  /\ last' = NoReport
  /\ pushed' = 0

Init ==
  /\ passes = 0
  /\ upsets = 0
  /\ running = TRUE
  /\ stopping = FALSE
  /\ http = TRUE
  /\ token = NoToken
  /\ pass = [p \in Pass |-> NoPass]
  /\ calls = <<>>
  /\ rows = {}
  /\ disk = {}
  /\ cut = {}
  /\ last = NoReport
  /\ pushed = 0

----------------------------------------------------------------------------
(* One producer of a pass: _reconcile_producer.                            *)

Goes(p, state) == pass' = [pass EXCEPT ![p] = state]

\* On to the next call, with a token where that call needs one.
To(state, pc, tok) == [state EXCEPT !.pc = pc, !.tok = tok]

\* _fetch_producer_sequences begins: _ensure_producer_token logs in only if
\* nothing is cached.
Ask(state, u) ==
  [To(state, IF token = NoToken THEN "login" ELSE "get", token) EXCEPT !.at = u]

\* Nothing for this producer: run_once goes on with the next one.
Skipped(state) == To(state, "next", NoToken)

\* The pass has its audit saved, and told.
Audited(state) ==
  [Skipped(state) EXCEPT !.audits = @ \union {<<state.run, state.at>>}]

\* Skipped because a call failed: for a reason that lies outside the arbiter,
\* unless it is cut.
Excused(state) == [Skipped(state) EXCEPT !.excused = @ \union {state.at}]

\* _login: a failure leaves nothing cached and the request goes without.
Login(p) ==
  /\ pass[p].pc \in {"login", "relogin"}
  /\ \E tok \in IF http THEN {NoToken, pass[p].at} ELSE {NoToken} :
       /\ token' = tok
       /\ Goes(p, To(pass[p], IF pass[p].pc = "login" THEN "get" ELSE "reget", tok))
  /\ UNCHANGED <<pastVars, running, stopping, http, storeVars, clientVars>>

\* The producer answers a request with its own token.
Accepted(p, request) ==
  /\ pass[p].pc = request
  /\ http
  /\ pass[p].tok = pass[p].at
  /\ Goes(p, To(pass[p], "compare", NoToken))
  /\ UNCHANGED <<pastVars, running, stopping, http, token, storeVars, clientVars>>

\* Seeded fault: the retry takes what the cache holds by then.
UnauthorizedReuses(p) ==
  /\ pass[p].pc = "get"
  /\ http
  /\ Goes(p, To(pass[p], "reget", token))
  /\ UNCHANGED <<pastVars, running, stopping, http, token, storeVars, clientVars>>

\* 401, to a token of another producer, to none, or to one that has expired:
\* the cache is emptied, whoever filled it, and the pass logs in.
Unauthorized(p) ==
  /\ pass[p].pc = "get"
  /\ http
  /\ token' = NoToken
  /\ Goes(p, To(pass[p], "relogin", NoToken))
  /\ UNCHANGED <<pastVars, running, stopping, http, storeVars, clientVars>>

\* Seeded fault: every 401 is followed by a new login.
RefusedAgainRetries(p) ==
  /\ pass[p].pc = "reget"
  /\ http
  /\ Goes(p, To(pass[p], "relogin", NoToken))
  /\ UNCHANGED <<pastVars, running, stopping, http, token, storeVars, clientVars>>

\* A second 401 is an HTTPStatusError: there are no sequences.  The login
\* failed, or the producer's own new token is already void, or the token was
\* not the producer's.
RefusedAgain(p) ==
  /\ pass[p].pc = "reget"
  /\ http
  /\ Goes(p, IF pass[p].tok \in {NoToken, pass[p].at}
             THEN Excused(pass[p]) ELSE Skipped(pass[p]))
  /\ UNCHANGED <<pastVars, running, stopping, http, token, storeVars, clientVars>>

\* The consumer is asked, the audit is made and its INSERT queued.
Compare(p) ==
  /\ pass[p].pc = "compare"
  /\ Goes(p, To(pass[p], "insert", NoToken))
  /\ calls' = Append(calls, [op |-> "insert", audit |-> <<pass[p].run, pass[p].at>>])
  /\ UNCHANGED <<pastVars, running, stopping, http, token, rows, disk, clientVars>>

\* The producer or the consumer cannot be reached, or the producer has sent
\* nothing, or nothing the consumer has got to.
CannotCompare(p) ==
  /\ pass[p].pc \in {"get", "reget", "compare"}
  /\ http
  /\ Goes(p, Excused(pass[p]))
  /\ UNCHANGED <<pastVars, running, stopping, http, token, storeVars, clientVars>>

\* There is no client: _http is None, or closed.  The pass goes on with the next
\* producer, for which there is none either.
ClientClosed(p) ==
  /\ pass[p].pc \in {"get", "reget", "compare"}
  /\ ~ http
  /\ cut' = cut \union {<<pass[p].run, pass[p].at>>}
  /\ Goes(p, Skipped(pass[p]))
  /\ UNCHANGED <<passes, upsets, running, stopping, http, token, storeVars, clientVars>>

\* The webhook is best effort; either way the audit enters the report.
Alert(p) ==
  /\ pass[p].pc = "alert"
  /\ Goes(p, Audited(pass[p]))
  /\ UNCHANGED <<pastVars, running, stopping, http, token, storeVars, clientVars>>

----------------------------------------------------------------------------
(* The audit database: one connection, whose thread takes calls in order.  *)

\* The passes that wait for a call: a cancelled one's is carried out too.
Waiting(call) ==
  {p \in Pass : /\ pass[p].pc = call.op
                /\ call.audit = <<pass[p].run, pass[p].at>>}

\* The pass that waited goes on, or none does.
Resume(call, Step(_)) ==
  pass' = [p \in Pass |-> IF p \in Waiting(call) THEN Step(pass[p]) ELSE pass[p]]

\* Seeded fault: save_result returns after the INSERT.
InsertOnly ==
  /\ calls # <<>>
  /\ Head(calls).op = "insert"
  /\ rows' = rows \union {Head(calls).audit}
  /\ Resume(Head(calls), Audited)
  /\ calls' = Tail(calls)
  /\ UNCHANGED <<pastVars, running, stopping, http, token, disk, clientVars>>

\* The INSERT is done; the pass that waited queues its COMMIT.
Insert ==
  /\ calls # <<>>
  /\ Head(calls).op = "insert"
  /\ rows' = rows \union {Head(calls).audit}
  /\ Resume(Head(calls), LAMBDA s : To(s, "commit", NoToken))
  /\ calls' = IF Waiting(Head(calls)) = {} THEN Tail(calls)
              ELSE Append(Tail(calls), [Head(calls) EXCEPT !.op = "commit"])
  /\ UNCHANGED <<pastVars, running, stopping, http, token, disk, clientVars>>

\* The COMMIT takes every row of the connection along, whoever inserted it.
\* An audit over the threshold is followed by an alert.
Commit ==
  /\ calls # <<>>
  /\ Head(calls).op = "commit"
  /\ disk' = rows
  /\ calls' = Tail(calls)
  /\ \E loud \in BOOLEAN :
       Resume(Head(calls), LAMBDA s :
         IF loud THEN To(s, "alert", NoToken) ELSE Audited(s))
  /\ UNCHANGED <<pastVars, running, stopping, http, token, rows, clientVars>>

\* A call raises: save_result passes it on, and a row already inserted stays
\* in the transaction.
CallFails ==
  /\ calls # <<>>
  /\ calls' = Tail(calls)
  /\ Resume(Head(calls), Excused)
  /\ UNCHANGED <<pastVars, running, stopping, http, token, rows, disk, clientVars>>

----------------------------------------------------------------------------
(* run_once.                                                               *)

BeginPass(p) ==
  /\ pass[p].pc = "idle"
  /\ p = "loop" => running
  /\ passes < MaxPasses
  /\ passes' = passes + 1
  /\ http' = TRUE
  /\ Goes(p, Ask([NoPass EXCEPT !.run = passes'], 1))
  /\ UNCHANGED <<upsets, cut, running, stopping, token, storeVars, clientVars>>

NextProducer(p) ==
  /\ pass[p].pc = "next"
  /\ pass[p].at < Producers
  /\ Goes(p, Ask(pass[p], pass[p].at + 1))
  /\ UNCHANGED <<pastVars, running, stopping, http, token, storeVars, clientVars>>

\* The report replaces the last one, a later pass's too; a manual pass also
\* answers with it.
EndPass(p) ==
  /\ pass[p].pc = "next"
  /\ pass[p].at = Producers
  /\ last' = [run |-> pass[p].run, audits |-> pass[p].audits, excused |-> pass[p].excused]
  /\ Goes(p, NoPass)
  /\ UNCHANGED <<pastVars, running, stopping, http, token, storeVars, pushed>>

PassStep(p) ==
  \/ Login(p) \/ Accepted(p, "get") \/ Accepted(p, "reget")
  \/ Unauthorized(p) \/ RefusedAgain(p)
  \/ Compare(p) \/ CannotCompare(p) \/ ClientClosed(p) \/ Alert(p) \/ NextProducer(p) \/ EndPass(p)

----------------------------------------------------------------------------
(* start, stop, and the process.                                           *)

Start ==
  /\ ~running
  /\ running' = TRUE
  /\ http' = TRUE
  /\ UNCHANGED <<pastVars, stopping, token, pass, storeVars, clientVars>>

\* stop() cancels the loop wherever it is and waits for it ...
Stop ==
  /\ running
  /\ upsets < MaxUpsets
  /\ upsets' = upsets + 1
  /\ running' = FALSE
  /\ stopping' = TRUE
  /\ Goes("loop", NoPass)
  /\ UNCHANGED <<passes, cut, http, token, storeVars, clientVars>>

\* ... and then closes the client, even one that a start() has made since, under
\* the calls of a manual pass, or of the loop that start() began.
StopCloses ==
  /\ stopping
  /\ stopping' = FALSE
  /\ http' = FALSE
  /\ cut' = cut \union {<<pass[p].run, pass[p].at>> :
                         p \in {q \in Pass : pass[q].pc \in {"get", "relogin", "reget", "compare"}}}
  /\ UNCHANGED <<passes, upsets, running, token, pass, storeVars, clientVars>>

\* Seeded fault: the audits table is made anew.
CrashEmptiesTable ==
  /\ upsets < MaxUpsets
  /\ upsets' = upsets + 1
  /\ Booted
  /\ rows' = {}
  /\ UNCHANGED <<passes, cut, disk>>

\* The process dies, or shuts down: what was not committed is rolled back.
Crash ==
  /\ upsets < MaxUpsets
  /\ upsets' = upsets + 1
  /\ Booted
  /\ rows' = disk
  /\ UNCHANGED <<passes, cut, disk>>

----------------------------------------------------------------------------
(* The outside.                                                            *)

\* The client connects, or connects again: nothing was pushed to it yet.
Connect ==
  /\ pushed' = 0
  /\ UNCHANGED <<pastVars, running, stopping, http, token, pass, storeVars, last>>

\* Seeded fault: only a report with a higher number is new.
PushLater ==
  /\ last.run > pushed
  /\ pushed' = last.run
  /\ UNCHANGED <<pastVars, running, stopping, http, token, pass, storeVars, last>>

\* Every two seconds: the last report, if it is not the one pushed before.
Push ==
  /\ last.run \notin {0, pushed}
  /\ pushed' = last.run
  /\ UNCHANGED <<pastVars, running, stopping, http, token, pass, storeVars, last>>

Next ==
  \/ \E p \in Pass : BeginPass(p) \/ PassStep(p)
  \/ Insert \/ Commit \/ CallFails
  \/ Start \/ Stop \/ StopCloses \/ Crash
  \/ Connect \/ Push

Spec == Init /\ [][Next]_vars

\* Awaited calls end, the database's thread and the WebSocket's loop run.
LiveSpec ==
  /\ Spec
  /\ \A p \in Pass : WF_vars(PassStep(p))
  /\ WF_vars(Insert \/ Commit \/ CallFails)
  /\ WF_vars(Push)

----------------------------------------------------------------------------
(* Properties.                                                             *)

PassState ==
  [pc : {"idle", "login", "get", "relogin", "reget", "compare", "insert", "commit",
         "alert", "next"},
   run : 0..MaxPasses, at : Producer, tok : Token,
   audits : SUBSET Audit, excused : SUBSET Producer]

\* The state has its type; every committed row is one the connection sees.
TypeOK ==
  /\ passes \in 0..MaxPasses
  /\ upsets \in 0..MaxUpsets
  /\ running \in BOOLEAN
  /\ stopping \in BOOLEAN
  /\ http \in BOOLEAN
  /\ token \in Token
  /\ pass \in [Pass -> PassState]
  /\ calls \in Seq([op : {"insert", "commit"}, audit : Audit])
  /\ rows \subseteq Audit
  /\ disk \subseteq rows
  /\ cut \subseteq Audit
  /\ last \in [run : 0..MaxPasses, audits : SUBSET Audit, excused : SUBSET Producer]
  /\ pushed \in 0..MaxPasses

\* The audits others hear of: an alert's, those of a pass at its end (the
\* manual answer), those of the report that is pushed.
Told ==
  {<<pass[p].run, pass[p].at>> : p \in {q \in Pass : pass[q].pc = "alert"}}
    \union (UNION {pass[p].audits : p \in Pass}) \union last.audits

\* Whatever an alert, a manual answer or a pushed report speaks of can be
\* looked up, and still can after a crash: a pass cancelled between its two
\* calls, a call that raised and the other pass's rows on the same connection
\* leave no audit told and not kept.
ToldIsKept == Told \subseteq disk

\* What the readers of the audits rely on: every step adds to the durable log or
\* leaves it alone, and tells of what is in it.  So an audit told before a crash
\* is found after it, when the arbiter itself has forgotten that it told it.
Log == INSTANCE AuditLog WITH
  Entry <- Audit,
  kept  <- disk,
  told  <- Told

Promise == Log!Spec

\* A report leaves a producer out only if a call failed for a reason outside the
\* arbiter, or the arbiter's own stop() closed the client under the pass: that one
\* is cut, although the pass is let run to its end.  So the failure of one producer
\* does not take another's audit with it, and no producer is refused for a token
\* that another one gave, or another pass cached, in between.
OnlyTheUnreachedAreLeftOut ==
  last.run > 0 =>
    \A u \in Producer \ last.excused : <<last.run, u>> \in last.audits \union cut

\* A report is pushed to a client, also when an older pass that ended late has
\* replaced a newer pass's report, unless a further report replaces it first.
LatestIsPushed ==
  \A n \in 1..MaxPasses : (last.run = n) ~> (pushed = n \/ last.run # n)

\* A pass that has begun ends, with a report or cancelled: the retry after a
\* 401 does not go on for ever.
PassesEnd == \A p \in Pass : (pass[p].pc # "idle") ~> (pass[p].pc = "idle")
=============================================================================
