--------------------------- MODULE ConsumerProofs ---------------------------
(***************************************************************************)
(* The consumer acknowledges only what it stored, in order, and stores a   *)
(* message once, for every topic, every number of clients and any number   *)
(* of crashes, provided that no start is called before the last stop has   *)
(* returned (SerialControl).  The run consumer_race shows that this        *)
(* proviso is needed.                                                      *)
(*                                                                         *)
(* With one loop the argument needs no reasoning about clients: a loop     *)
(* that polls does so from the committed offset, and a loop that works on  *)
(* a record works on the one at the committed offset.                      *)
(***************************************************************************)
EXTENDS Pipeline, TLAPS

Working == {"insert", "dbcommit", "offset"}

\* A loop that starts a client has one, and the records a loop works on are
\* records of the topic.
Sound(state) ==
  /\ state.pc = "starting" => state.client \in Client
  /\ state.pc \in Working => state.first <= state.last /\ state.last <= Len(topic)

LoopsSound == \A l \in Loop : Sound(loop[l])

\* The type invariant without the flag, which the provers take better apart.
TypeRest ==
  /\ topic \in Seq(Msg) /\ Len(topic) <= MaxLog
  /\ committed \in Offset
  /\ rows \in Seq(Msg)
  /\ disk \in Seq(Msg)
  /\ pruned \subseteq Msg
  /\ handle \in Loop \union {None}
  /\ consumer \in Client \union {None}
  /\ loop \in [Loop -> LoopState]
  /\ stop \in StopState
  /\ live \subseteq Client
  /\ assigned \in Client \union {None}
  /\ position \in Offset
  /\ crashes \in 0..MaxCrashes

TypeInv == TypeRest /\ LoopsSound /\ committed <= Len(topic) + 1

\* Where a stop is, and which loops are left: with serial control calls.
OneLoopInv ==
  /\ stop.pc = "idle" =>
       /\ \A l \in Loop : loop[l].pc # "gone" => running /\ l = handle
       /\ \A l \in Loop : loop[l].pc # "cancelled"
  /\ stop.pc = "waiting" =>
       ~running /\ \A l \in Loop : loop[l].pc \in {"gone", "cancelled"}
                                   /\ (loop[l].pc = "cancelled" => l = handle)
  /\ stop.pc \in {"resumed", "closing"} =>
       ~running /\ \A l \in Loop : loop[l].pc = "gone"

----------------------------------------------------------------------------
\* Type correctness.

\* The states that a loop is put in have their type.
LEMMA AtTyped ==
  ASSUME NEW pc \in LoopPC
  PROVE  /\ At(pc) \in LoopState /\ At(pc).pc = pc
         /\ \A c \in Client : AtClient(pc, c) \in LoopState /\ AtClient(pc, c).pc = pc
  BY ConsumerAssumption DEF At, AtClient, LoopState, None, Offset

\* A loop that waits neither for a start nor with a record is sound.
LEMMA RestingSound ==
  ASSUME NEW pc \in LoopPC \ (Working \union {"starting"})
  PROVE  /\ Sound(At(pc)) /\ \A c \in Client : Sound(AtClient(pc, c))
         /\ \A c \in Client : Sound(AtClient("starting", c))
<1>1. At(pc).pc = pc /\ \A c \in Client : AtClient(pc, c).pc = pc
  BY AtTyped
<1>2. \A c \in Client : /\ AtClient("starting", c).pc = "starting"
                        /\ AtClient("starting", c).client = c
  BY DEF AtClient, At
<1> QED BY <1>1, <1>2 DEF Sound, Working

\* So has the state of a stop that is over.
LEMMA StopTyped ==
  /\ StopIdle \in StopState /\ StopIdle.pc = "idle"
  BY DEF StopIdle, StopState

\* Stopping a client leaves the loops well typed, and only fails those that
\* were starting it.
LEMMA DroppingTyped ==
  ASSUME TypeInv, NEW c
  PROVE  /\ Dropping(c, loop) \in [Loop -> LoopState]
         /\ \A l \in Loop :
              \/ Dropping(c, loop)[l] = loop[l]
              \/ /\ loop[l].pc = "starting" /\ Dropping(c, loop)[l] = At("failed")
                 /\ Dropping(c, loop)[l].pc = "failed"
<1>1. At("failed") \in LoopState /\ At("failed").pc = "failed"
  BY AtTyped DEF LoopPC
<1>2. loop \in [Loop -> LoopState]
  BY DEF TypeInv, TypeRest
<1>3. \A l \in Loop : Dropping(c, loop)[l] =
        IF loop[l].pc = "starting" /\ loop[l].client = c THEN At("failed") ELSE loop[l]
  BY DEF Dropping
<1>4. \A l \in Loop : Dropping(c, loop)[l] \in LoopState
  BY <1>1, <1>2, <1>3
<1>5. Dropping(c, loop) \in [Loop -> LoopState]
  BY <1>4 DEF Dropping
<1> QED BY <1>1, <1>3, <1>5

\* Appending to a sequence.
LEMMA AppendFacts ==
  ASSUME NEW S, NEW s \in Seq(S), NEW m \in S
  PROVE  /\ Append(s, m) \in Seq(S) /\ Len(Append(s, m)) = Len(s) + 1
         /\ \A i \in 1..Len(s) : Append(s, m)[i] = s[i]
         /\ Append(s, m)[Len(s) + 1] = m
         /\ Rows(Append(s, m)) = Rows(s) \union {m}
<1>1. /\ Append(s, m) \in Seq(S) /\ Len(Append(s, m)) = Len(s) + 1
      /\ \A i \in 1..Len(s) : Append(s, m)[i] = s[i]
      /\ Append(s, m)[Len(s) + 1] = m
      /\ DOMAIN s = 1..Len(s) /\ Len(s) \in Nat
      /\ DOMAIN Append(s, m) = 1..Len(s) + 1
  OBVIOUS
<1>2. DOMAIN Append(s, m) = DOMAIN s \union {Len(s) + 1}
  BY <1>1
<1>3. Rows(Append(s, m)) = Rows(s) \union {m}
  BY <1>1, <1>2, Zenon DEF Rows
<1> QED BY <1>1, <1>3

\* The message a working loop is at.
LEMMA WorkingMessage ==
  ASSUME TypeInv, NEW l \in Loop, loop[l].pc \in Working
  PROVE  /\ loop[l].first \in 1..Len(topic)
         /\ loop[l].last \in 1..Len(topic)
         /\ topic[loop[l].first] \in Msg
<1>1. loop[l] \in LoopState /\ topic \in Seq(Msg) /\ Len(topic) \in Nat
  BY DEF TypeInv, TypeRest
<1>2. loop[l].first \in Nat /\ loop[l].first >= 1 /\ loop[l].last \in Nat
  BY <1>1, ConsumerAssumption DEF LoopState, Offset
<1>3. loop[l].first <= loop[l].last /\ loop[l].last <= Len(topic)
  BY DEF TypeInv, LoopsSound, Sound
<1> QED BY <1>1, <1>2, <1>3

\* What a queued INSERT does to the table.
LEMMA QueuedInsertFacts ==
  ASSUME TypeInv, NEW l \in Loop
  PROVE  /\ QueuedInsert(l) \in Seq(Msg)
         /\ QueuedInsert(l) = rows
            \/ /\ loop[l].pc = "insert" /\ topic[loop[l].first] \notin Rows(rows)
               /\ QueuedInsert(l) = Append(rows, topic[loop[l].first])
               /\ Rows(QueuedInsert(l)) = Rows(rows) \union {topic[loop[l].first]}
         /\ loop[l].pc = "insert" => topic[loop[l].first] \in Rows(QueuedInsert(l))
<1>1. rows \in Seq(Msg)
  BY DEF TypeInv, TypeRest
<1>2. loop[l].pc = "insert" => topic[loop[l].first] \in Msg
  BY WorkingMessage DEF Working
<1> QED BY <1>1, <1>2, AppendFacts DEF QueuedInsert

\* A record taken up is one of the topic, or refused.
LEMMA HandleFacts ==
  ASSUME TypeInv, NEW first \in 1..Len(topic), NEW last \in Nat,
         first <= last, last <= Len(topic)
  PROVE  /\ Handle(first, last) \in LoopState
         /\ Sound(Handle(first, last))
         /\ \/ Handle(first, last) = At("failed") /\ Handle(first, last).pc = "failed"
            \/ /\ Handle(first, last).pc = "insert"
               /\ Handle(first, last).first = first
               /\ Handle(first, last).last = last
<1>1. Len(topic) \in Nat /\ Len(topic) <= MaxLog /\ MaxLog \in Nat
  BY ConsumerAssumption DEF TypeInv, TypeRest
<1>2. first \in Offset
  BY <1>1 DEF Offset
<1>3. At("failed") \in LoopState /\ At("failed").pc = "failed" /\ At("insert") \in LoopState
  BY AtTyped DEF LoopPC
<1>4. CASE topic[first] \in Refused
  BY <1>3, <1>4 DEF Handle, Sound, Working
<1>5. CASE topic[first] \notin Refused
  <2>1. Handle(first, last) = [pc |-> "insert", client |-> None, first |-> first, last |-> last]
    BY <1>5 DEF Handle, At
  <2> QED BY <1>2, <2>1 DEF Sound, LoopState, LoopPC
<1> QED BY <1>4, <1>5

\* The state of a fresh process.
LEMMA BootFacts ==
  ASSUME NEW n \in Loop \union {None}, Boot(n)
  PROVE  /\ handle' = n
         /\ loop' \in [Loop -> LoopState] /\ stop' = StopIdle
         /\ consumer' = None /\ live' = {} /\ assigned' = None
         /\ position' \in Offset
         /\ \A l \in Loop : loop'[l].pc = IF l = n THEN "top" ELSE "gone"
         /\ running' = (n # None)
<1>1. \A pc \in {"top", "gone"} : At(pc) \in LoopState /\ At(pc).pc = pc
  BY AtTyped DEF LoopPC
<1> QED BY <1>1, ConsumerAssumption DEF Boot, Offset

\* A fresh process has its types.
LEMMA TypeInit == Init => TypeInv
<1> SUFFICES ASSUME Init PROVE TypeInv
  OBVIOUS
<1>1. At("gone") \in LoopState /\ At("gone").pc = "gone"
  BY AtTyped DEF LoopPC
<1>2. loop \in [Loop -> LoopState] /\ \A l \in Loop : loop[l].pc = "gone"
  BY <1>1 DEF Init
<1>3. /\ topic \in Seq(Msg) /\ Len(topic) = 0 /\ rows \in Seq(Msg) /\ disk \in Seq(Msg)
      /\ committed = 1 /\ 1 \in Offset /\ position \in Offset
      /\ crashes \in 0..MaxCrashes
  BY ConsumerAssumption DEF Init, Offset
<1>4. TypeRest
  BY <1>2, <1>3, StopTyped, ConsumerAssumption DEF Init, TypeRest, None
<1> QED BY <1>2, <1>3, <1>4 DEF TypeInv, LoopsSound, Sound, Working

\* A loop that moves on while the topic and the tables stay within their type.
LEMMA LoopMoves ==
  ASSUME TypeInv, NEW l \in Loop, NEW state \in LoopState,
         Sound(state),
         loop' = [loop EXCEPT ![l] = state]
  PROVE  /\ loop' \in [Loop -> LoopState]
         /\ topic' = topic => LoopsSound'
<1>1. loop \in [Loop -> LoopState] /\ LoopsSound
  BY DEF TypeInv, TypeRest
<1> QED BY <1>1 DEF LoopsSound, Sound

\* What the inner loop does next.
LEMMA PollingFacts ==
  ASSUME TypeInv, NEW started \in SUBSET Client
  PROVE  Polling(started) \in LoopState /\ Sound(Polling(started))
<1>1. /\ At("gone") \in LoopState /\ At("failed") \in LoopState
      /\ \A c \in Client : AtClient("poll", c) \in LoopState
  BY AtTyped DEF LoopPC
<1>2. /\ Sound(At("gone")) /\ Sound(At("failed"))
      /\ \A c \in Client : Sound(AtClient("poll", c))
  BY RestingSound DEF LoopPC, Working
<1> QED BY <1>1, <1>2 DEF Polling

\* Every step keeps the types, and the records a loop works on are in the topic.
LEMMA TypeStep == TypeInv /\ [Next]_vars => TypeInv'
<1> SUFFICES ASSUME TypeInv, [Next]_vars PROVE TypeInv'
  OBVIOUS
<1> USE DEF LoopGoes, kafkaVars, tableVars, clientVars, TypeInv
<1>0. /\ topic \in Seq(Msg) /\ Len(topic) \in Nat /\ Len(topic) <= MaxLog /\ MaxLog \in Nat
      /\ committed \in Nat /\ committed <= Len(topic) + 1
      /\ \A l \in Loop : loop[l] \in LoopState
      /\ loop \in [Loop -> LoopState] /\ LoopsSound
  BY ConsumerAssumption DEF TypeInv, TypeRest, Offset
<1>2. TypeRest /\ committed \in Offset
      /\ \A k \in Loop : loop[k].pc \in Working =>
           loop[k].first <= loop[k].last /\ loop[k].last <= Len(topic)
  BY DEF TypeInv, TypeRest, LoopsSound, Sound
<1>3. \A pc \in LoopPC : /\ At(pc) \in LoopState /\ At(pc).pc = pc
                         /\ \A c \in Client : AtClient(pc, c) \in LoopState
                                              /\ AtClient(pc, c).pc = pc
  BY AtTyped
<1>s. \A pc \in LoopPC \ (Working \union {"starting"}) :
        /\ Sound(At(pc)) /\ \A c \in Client : Sound(AtClient(pc, c))
        /\ \A c \in Client : Sound(AtClient("starting", c))
  BY RestingSound
<1>4. CASE Start
  <2>1. PICK l \in Loop : handle' = l /\ loop' = [loop EXCEPT ![l] = At("top")]
    BY <1>4 DEF Start
  <2>2. At("top") \in LoopState /\ Sound(At("top"))
    BY <1>3, <1>s DEF LoopPC, Working
  <2> QED BY <1>2, <1>4, <2>1, <2>2, LoopMoves DEF Start, TypeRest
<1>5. StopIdle \in StopState
      /\ (StopCloses => stop' \in StopState)
  <2>1. consumer # None => [pc |-> "closing", client |-> consumer] \in StopState
    BY <1>2 DEF TypeRest, StopState
  <2> QED BY <2>1, StopTyped DEF StopCloses
<1>6. CASE StopCalled
  <2>1. CASE /\ handle # None /\ loop[handle].pc # "gone"
             /\ loop' = [loop EXCEPT ![handle] = At("cancelled")]
             /\ rows' = QueuedInsert(handle)
             /\ disk' = IF loop[handle].pc = "dbcommit" THEN rows ELSE disk
             /\ stop' = [StopIdle EXCEPT !.pc = "waiting"]
    <3>1. handle \in Loop /\ rows \in Seq(Msg) /\ disk \in Seq(Msg)
      BY <1>2, <2>1 DEF TypeRest
    <3>2. rows' \in Seq(Msg) /\ disk' \in Seq(Msg)
      BY <2>1, <3>1, QueuedInsertFacts
    <3>3. stop' \in StopState
      BY <2>1 DEF StopIdle, StopState
    <3>4. At("cancelled") \in LoopState /\ Sound(At("cancelled"))
      BY <1>3, <1>s DEF LoopPC, Working
    <3> QED BY <1>2, <1>6, <2>1, <3>1, <3>2, <3>3, <3>4, LoopMoves
            DEF StopCalled, TypeRest
  <2>2. CASE StopCloses /\ UNCHANGED <<loop, rows, disk>>
    BY <1>2, <1>5, <1>6, <2>2 DEF StopCalled, TypeRest, LoopsSound, Sound
  <2> QED BY <1>6, <2>1, <2>2 DEF StopCalled
<1>7. CASE StopStep
  <2>1. CASE StopResumes
    BY <1>2, <1>5, <2>1 DEF StopResumes, TypeRest, LoopsSound, Sound
  <2>2. CASE StopEnds
    <3>1. /\ loop' \in [Loop -> LoopState]
          /\ \A l \in Loop : loop'[l] = loop[l] \/ loop'[l].pc = "failed"
      BY <2>2, DroppingTyped DEF StopEnds
    <3>2. /\ live' \subseteq Client /\ assigned' \in Client \union {None}
          /\ position' = position /\ consumer' \in Client \union {None}
      BY <1>2, <2>2 DEF StopEnds, ClientStopped, TypeRest
    <3> QED BY <1>2, <1>5, <2>2, <3>1, <3>2 DEF StopEnds, TypeRest, LoopsSound, Sound, Working
  <2> QED BY <1>7, <2>1, <2>2 DEF StopStep
<1>8. ASSUME NEW l \in Loop, LoopStep(l) PROVE TypeInv'
  \* A step of a loop that moves it to a resting state and no more.
  <2>1. ASSUME NEW state \in LoopState, Sound(state), LoopGoes(l, state),
               UNCHANGED <<kafkaVars, tableVars>>, consumer' \in Client \union {None},
               live' \subseteq Client, assigned' \in Client \union {None},
               position' \in Offset
        PROVE  TypeInv'
    BY <1>2, <2>1, LoopMoves DEF TypeRest
  <2>2. ASSUME NEW ls \in [Loop -> LoopState], CreateClient(l, ls),
               \A k \in Loop : ls[k] = loop[k] \/ ls[k].pc = "failed",
               UNCHANGED <<kafkaVars, tableVars, running, handle, stop, crashes>>,
               live' \subseteq Client, assigned' \in Client \union {None},
               position' = position
        PROVE  TypeInv'
    <3>1. PICK c \in Client : consumer' = c /\ loop' = [ls EXCEPT ![l] = AtClient("starting", c)]
      BY <2>2 DEF CreateClient, FreshClients
    <3>2. AtClient("starting", c) \in LoopState /\ AtClient("starting", c).pc = "starting"
      BY <1>3 DEF LoopPC, Working
    <3>3. /\ loop' \in [Loop -> LoopState]
          /\ \A k \in Loop : \/ loop'[k] = loop[k]
                              \/ loop'[k].pc = "failed"
                              \/ loop'[k] = AtClient("starting", c)
      BY <2>2, <3>1, <3>2
    <3>4. AtClient("starting", c).client = c
      BY DEF AtClient, At
    <3>5. LoopsSound'
      BY <1>0, <2>2, <3>2, <3>3, <3>4 DEF LoopsSound, Sound, Working
    <3> QED BY <1>2, <2>2, <3>1, <3>3, <3>5 DEF TypeRest
  <2>3. CASE Turn(l)
    <3>1. CASE LoopGoes(l, At("gone")) /\ UNCHANGED consumer
      <4>1. At("gone") \in LoopState /\ Sound(At("gone"))
        BY <1>3, <1>s DEF LoopPC, Working
      <4> QED BY <1>2, <2>1, <2>3, <3>1, <4>1 DEF Turn, TypeRest
    <3>2. CASE consumer # None /\ LoopGoes(l, AtClient("closing", consumer))
               /\ UNCHANGED consumer
      <4>1. consumer \in Client
        BY <1>2, <3>2 DEF TypeRest
      <4>2. AtClient("closing", consumer) \in LoopState
            /\ Sound(AtClient("closing", consumer))
        BY <1>3, <1>s, <4>1 DEF LoopPC, Working
      <4> QED BY <1>2, <2>1, <2>3, <3>2, <4>2 DEF Turn, TypeRest
    <3>3. CASE CreateClient(l, loop) /\ UNCHANGED <<running, handle, stop, crashes>>
      BY <1>0, <1>2, <2>2, <2>3, <3>3 DEF Turn, TypeRest
    <3> QED BY <2>3, <3>1, <3>2, <3>3 DEF Turn
  <2>4. CASE Reopen(l)
    <3>1. LET ls == Dropping(loop[l].client, loop) IN
          /\ ls \in [Loop -> LoopState]
          /\ \A k \in Loop : ls[k] = loop[k] \/ ls[k].pc = "failed"
      BY DroppingTyped
    <3>2. live' \subseteq Client /\ assigned' \in Client \union {None} /\ position' = position
      BY <1>2, <2>4 DEF Reopen, ClientStopped, TypeRest
    <3> QED BY <2>2, <2>4, <3>1, <3>2 DEF Reopen
  <2>5. CASE Connected(l)
    <3>1. live' \subseteq Client /\ assigned' \in Client \union {None} /\ position' \in Offset
          /\ consumer' \in Client \union {None}
      <4>1. loop[l].client \in Client
        BY <1>0, <2>5 DEF Connected, LoopsSound, Sound
      <4> QED BY <1>2, <2>5, <4>1 DEF Connected, TypeRest
    <3> QED BY <2>1, <2>5, <3>1, PollingFacts DEF Connected, Working
  <2>6. CASE Poll(l)
    <3>1. Polling(live) \in LoopState /\ Sound(Polling(live))
      BY <1>2, PollingFacts DEF TypeRest
    <3> QED BY <1>2, <2>1, <2>6, <3>1 DEF Poll, Working, TypeRest
  <2>7. CASE Fetched(l)
    <3>1. PICK last \in position..Len(topic) :
            LoopGoes(l, Handle(position, last)) /\ position' = last + 1
      BY <2>7 DEF Fetched
    <3>2. position \in 1..Len(topic) /\ last \in Nat /\ position <= last /\ last <= Len(topic)
      BY <1>0, <1>2, <2>7, <3>1 DEF Fetched, TypeRest, Offset
    <3>3. position' \in Offset
      BY <1>0, <3>1, <3>2 DEF Offset
    <3>4. /\ Handle(position, last) \in LoopState
          /\ Sound(Handle(position, last))
      BY <3>2, HandleFacts
    <3> QED BY <1>2, <2>7, <3>1, <3>3, <3>4, LoopMoves DEF Fetched, TypeRest
  <2>8. CASE FetchedNothing(l)
    <3>1. At("next") \in LoopState /\ Sound(At("next"))
      BY <1>3, <1>s DEF LoopPC, Working
    <3> QED BY <1>2, <2>1, <2>8, <3>1 DEF FetchedNothing, TypeRest
  <2>9. CASE InsertRow(l) \/ CommitRow(l)
    <3>1. PICK pc \in {"dbcommit", "offset"} : LoopGoes(l, [loop[l] EXCEPT !.pc = pc])
      BY <2>9 DEF InsertRow, CommitRow
    <3>2. [loop[l] EXCEPT !.pc = pc] \in LoopState
      BY <1>0 DEF LoopState, LoopPC
    <3>3. loop[l].pc \in Working
      BY <2>9 DEF InsertRow, CommitRow, Working
    <3>4. loop[l].first <= loop[l].last /\ loop[l].last <= Len(topic)
      BY <1>2, <3>3
    <3>5. rows' \in Seq(Msg) /\ disk' \in Seq(Msg)
      BY <1>2, <2>9, QueuedInsertFacts DEF InsertRow, CommitRow, TypeRest
    <3>6. Sound([loop[l] EXCEPT !.pc = pc])
      BY <1>0, <3>4 DEF LoopState, Sound
    <3> QED BY <1>2, <2>9, <3>1, <3>2, <3>4, <3>5, <3>6, LoopMoves
            DEF InsertRow, CommitRow, TypeRest
  <2>10. CASE CommitOffset(l)
    <3>1. loop[l].first \in 1..Len(topic) /\ loop[l].last \in 1..Len(topic)
          /\ loop[l].first <= loop[l].last
      BY <1>2, <2>10, WorkingMessage DEF CommitOffset, Working
    <3>2. committed' \in Offset /\ committed' <= Len(topic) + 1
      BY <1>0, <2>10, <3>1 DEF CommitOffset, Offset
    <3>3. /\ NextRecord(l) \in LoopState
          /\ Sound(NextRecord(l))
      <4>1. At("next") \in LoopState /\ Sound(At("next"))
        BY <1>3, <1>s DEF LoopPC, Working
      <4>2. CASE loop[l].first < loop[l].last
        <5>1. /\ loop[l].first + 1 \in 1..Len(topic) /\ loop[l].last \in Nat
              /\ loop[l].first + 1 <= loop[l].last /\ loop[l].last <= Len(topic)
          BY <1>0, <3>1, <4>2
        <5> QED BY <4>2, <5>1, HandleFacts DEF NextRecord
      <4> QED BY <4>1, <4>2 DEF NextRecord
    <3> QED BY <1>2, <2>10, <3>2, <3>3, LoopMoves DEF CommitOffset, TypeRest
  <2>11. CASE Fails(l)
    <3>1. At("failed") \in LoopState /\ Sound(At("failed"))
      BY <1>3, <1>s DEF LoopPC, Working
    <3> QED BY <1>2, <2>1, <2>11, <3>1 DEF Fails, TypeRest
  <2>12. CASE CancelledEnds(l)
    <3>1. At("gone") \in LoopState /\ Sound(At("gone"))
      BY <1>3, <1>s DEF LoopPC, Working
    <3>2. stop' \in StopState
      BY <1>2, <2>12 DEF CancelledEnds, TypeRest, StopState
    <3> QED BY <1>2, <2>12, <3>1, <3>2, LoopMoves DEF CancelledEnds, TypeRest
  <2> QED BY <1>8, <2>3, <2>4, <2>5, <2>6, <2>7, <2>8, <2>9, <2>10, <2>11, <2>12
          DEF LoopStep
<1>9. CASE Cleanup
  <2>1. rows' \in Seq(Msg) /\ pruned' \in SUBSET Msg
    <3>1. PICK k \in DOMAIN rows : /\ rows' = SubSeq(rows, k + 1, Len(rows))
                                   /\ pruned' = pruned \union {rows[i] : i \in 1..k}
      BY <1>9 DEF Cleanup
    <3> QED BY <1>2, <3>1 DEF TypeRest
  <2> QED BY <1>2, <1>9, <2>1 DEF Cleanup, TypeRest, LoopsSound, Sound
<1>10. CASE Produce
  <2>1. PICK m \in Msg : topic' = Append(topic, m)
    BY <1>10 DEF Produce
  <2>2. topic' \in Seq(Msg) /\ Len(topic') = Len(topic) + 1 /\ Len(topic) + 1 <= MaxLog
    BY <1>0, <1>10, <2>1, AppendFacts DEF Produce
  <2>3. UNCHANGED <<committed, rows, disk, pruned, running, handle, loop, stop, consumer,
                    live, assigned, position, crashes>>
    BY <1>10 DEF Produce
  <2>4. TypeRest'
    BY <1>2, <2>2, <2>3 DEF TypeRest
  <2>5. LoopsSound'
    <3>1. \A k \in Loop : loop[k].pc \in Working => loop[k].last \in Nat
      BY <1>0 DEF LoopState
    <3> QED BY <1>0, <1>2, <2>2, <2>3, <3>1 DEF LoopsSound, Sound
  <2> QED BY <1>0, <2>2, <2>3, <2>4, <2>5 DEF TypeInv
<1>11. CASE Crash
  <2>1. PICK n \in Loop \union {None} : Boot(n)
    BY <1>11 DEF Crash
  <2>2. crashes' \in 0..MaxCrashes
    BY <1>2, <1>11, ConsumerAssumption DEF Crash, TypeRest
  <2>3. \A l \in Loop : loop'[l].pc \in {"top", "gone"}
    BY <2>1, BootFacts
  <2>4. LoopsSound'
    BY <2>3 DEF LoopsSound, Sound, Working
  <2> QED BY <1>2, <1>5, <1>11, <2>1, <2>2, <2>4, BootFacts DEF Crash, TypeRest
<1>12. CASE UNCHANGED vars
  BY <1>2, <1>12 DEF vars, TypeRest, LoopsSound, Sound
<1>13. CASE CleanupCommit
  BY <1>2, <1>13 DEF CleanupCommit, TypeRest, LoopsSound, Sound
<1> QED
  BY <1>4, <1>6, <1>7, <1>8, <1>9, <1>10, <1>11, <1>12, <1>13 DEF Next

RunningTyped == running \in BOOLEAN

\* Every step leaves the flag a Boolean.
LEMMA RunningStep == RunningTyped /\ [Next]_vars => RunningTyped'
<1> SUFFICES ASSUME running \in BOOLEAN, [Next]_vars PROVE running' \in BOOLEAN
  BY DEF RunningTyped
<1>1. CASE \/ Start \/ StopCalled \/ StopStep \/ Cleanup \/ CleanupCommit \/ Produce
           \/ UNCHANGED vars
  BY <1>1 DEF Start, StopCalled, StopStep, StopResumes, StopEnds, Cleanup, CleanupCommit,
              Produce, vars
<1>2. ASSUME NEW l \in Loop, LoopStep(l) PROVE running' = running
  BY <1>2 DEF LoopStep, Turn, Reopen, Connected, Poll, Fetched, FetchedNothing, InsertRow,
              CommitRow, CommitOffset, Fails, CancelledEnds, LoopGoes, CreateClient
<1>3. CASE Crash
  BY <1>3 DEF Crash, Boot
<1> QED BY <1>1, <1>2, <1>3 DEF Next

\* Every reachable state is well typed, and a loop is always at an await of the
\* code, or over.
THEOREM TypeCorrect == Spec => []TypeOK
<1>1. Init => RunningTyped
  BY DEF Init, RunningTyped
<1>2. TypeInv /\ RunningTyped => TypeOK
  BY DEF RunningTyped, TypeInv, TypeRest, TypeOK
<1> QED BY <1>1, <1>2, TypeInit, TypeStep, RunningStep, PTL DEF Spec

----------------------------------------------------------------------------
\* One loop, if control calls wait for each other.

\* A fresh process has no loop.
LEMMA OneLoopInit == Init => OneLoopInv
<1>1. At("gone").pc = "gone"
  BY AtTyped DEF LoopPC
<1>2. Init => \A l \in Loop : loop[l].pc = "gone"
  BY <1>1 DEF Init
<1> QED BY <1>2, StopTyped DEF Init, OneLoopInv

\* A loop that takes a step of its own, other than ending after a cancellation,
\* is the only one; no stop is in progress.
LEMMA OnlyLoop ==
  ASSUME TypeInv, OneLoopInv, NEW l \in Loop, loop[l].pc \notin {"gone", "cancelled"}
  PROVE  /\ stop.pc = "idle" /\ running /\ l = handle
         /\ \A k \in Loop : k # l => loop[k].pc = "gone"
<1>1. stop.pc \in {"idle", "waiting", "resumed", "closing"}
  BY DEF TypeInv, TypeRest, StopState
<1> QED BY <1>1 DEF OneLoopInv

\* The steps of a loop keep it the only one.
LEMMA LoopStepsKeepOneLoop ==
  ASSUME TypeInv, OneLoopInv, NEW l \in Loop, loop[l].pc \notin {"gone", "cancelled"},
         loop'[l].pc # "cancelled",
         \A k \in Loop : k # l => loop'[k].pc = "gone",
         UNCHANGED <<running, handle, stop>>
  PROVE  OneLoopInv'
  BY OnlyLoop DEF OneLoopInv

\* Where a step of a loop leaves the loops.
LEMMA LoopStepMoves ==
  ASSUME TypeInv, OneLoopInv, NEW l \in Loop, LoopStep(l), ~CancelledEnds(l)
  PROVE  /\ loop[l].pc \notin {"gone", "cancelled"}
         /\ loop'[l].pc # "cancelled"
         /\ \A k \in Loop : k # l => loop'[k].pc = "gone"
         /\ UNCHANGED <<running, handle, stop, crashes>>
<1> USE DEF LoopGoes
<1>0. loop \in [Loop -> LoopState]
  BY DEF TypeInv, TypeRest
<1>1. \A pc \in LoopPC : /\ At(pc).pc = pc
                         /\ \A c \in Client : AtClient(pc, c).pc = pc
  BY AtTyped
<1>2. \A k \in Loop : loop[l].pc \notin {"gone", "cancelled"} /\ k # l => loop[k].pc = "gone"
  BY OnlyLoop
<1>3. ASSUME NEW ls, CreateClient(l, ls), ls \in [Loop -> LoopState],
             \A k \in Loop : ls[k] = loop[k] \/ loop[k].pc = "starting",
             loop[l].pc \notin {"gone", "cancelled"}
      PROVE  /\ loop'[l].pc # "cancelled"
             /\ \A k \in Loop : k # l => loop'[k].pc = "gone"
  <2>1. PICK c \in Client : loop' = [ls EXCEPT ![l] = AtClient("starting", c)]
    BY <1>3 DEF CreateClient, FreshClients
  <2>2. AtClient("starting", c).pc = "starting"
    BY <1>1 DEF LoopPC
  <2> QED BY <1>2, <1>3, <2>1, <2>2
<1>4. ASSUME NEW state, loop' = [loop EXCEPT ![l] = state], state.pc # "cancelled",
             loop[l].pc \notin {"gone", "cancelled"}
      PROVE  /\ loop'[l].pc # "cancelled"
             /\ \A k \in Loop : k # l => loop'[k].pc = "gone"
  BY <1>0, <1>2, <1>4
<1>5. CASE Turn(l)
  <2>0. consumer # None => consumer \in Client
    BY DEF TypeInv, TypeRest
  <2>1. At("gone").pc # "cancelled"
        /\ (consumer # None => AtClient("closing", consumer).pc # "cancelled")
    BY <1>1, <2>0 DEF LoopPC
  <2> QED BY <1>0, <1>3, <1>4, <1>5, <2>1 DEF Turn
<1>6. CASE Reopen(l)
  BY <1>3, <1>6, DroppingTyped DEF Reopen
<1>7. \A started \in SUBSET Client : Polling(started).pc # "cancelled"
  BY <1>1 DEF Polling, LoopPC
<1>8. CASE Connected(l)
  <2>1. loop[l].client \in Client
    BY <1>8 DEF Connected, TypeInv, LoopsSound, Sound
  <2>2. live \union {loop[l].client} \in SUBSET Client
    BY <2>1 DEF TypeInv, TypeRest
  <2> QED BY <1>4, <1>7, <1>8, <2>2 DEF Connected
<1>9. CASE Poll(l)
  <2>1. live \in SUBSET Client
    BY DEF TypeInv, TypeRest
  <2> QED BY <1>4, <1>7, <1>9, <2>1 DEF Poll
<1>10. \A first, last : Handle(first, last).pc # "cancelled"
  BY <1>1 DEF Handle, At, LoopPC
<1>11. CASE Fetched(l)
  <2>1. PICK last : loop' = [loop EXCEPT ![l] = Handle(position, last)]
                    /\ UNCHANGED <<running, handle, stop, crashes>>
    BY <1>11 DEF Fetched
  <2>2. Handle(position, last).pc # "cancelled"
    BY <1>10
  <2> QED BY <1>4, <1>11, <2>1, <2>2 DEF Fetched
<1>12. CASE FetchedNothing(l) \/ Fails(l)
  <2>1. At("next").pc # "cancelled" /\ At("failed").pc # "cancelled"
    BY <1>1 DEF LoopPC
  <2> QED BY <1>4, <1>12, <2>1 DEF FetchedNothing, Fails
<1>13. CASE InsertRow(l) \/ CommitRow(l)
  <2>1. PICK pc \in {"dbcommit", "offset"} : loop' = [loop EXCEPT ![l].pc = pc]
    BY <1>13 DEF InsertRow, CommitRow
  <2>2. [loop[l] EXCEPT !.pc = pc].pc # "cancelled"
    BY <1>0 DEF LoopState
  <2> QED BY <1>4, <1>13, <2>1, <2>2 DEF InsertRow, CommitRow
<1>14. CASE CommitOffset(l)
  <2>1. NextRecord(l).pc # "cancelled"
    BY <1>1, <1>10 DEF NextRecord, LoopPC
  <2> QED BY <1>4, <1>14, <2>1 DEF CommitOffset
<1> QED BY <1>5, <1>6, <1>8, <1>9, <1>11, <1>12, <1>13, <1>14 DEF LoopStep

\* A start, with no stop in progress, finds every loop gone; a stop leaves none behind.
LEMMA OneLoopStep ==
  SerialControl /\ TypeInv /\ OneLoopInv /\ [Next]_vars => OneLoopInv'
<1> SUFFICES ASSUME SerialControl, TypeInv, OneLoopInv, [Next]_vars PROVE OneLoopInv'
  OBVIOUS
<1>0. /\ loop \in [Loop -> LoopState] /\ None \notin Loop
      /\ stop.pc \in {"idle", "waiting", "resumed", "closing"}
  BY ConsumerAssumption DEF TypeInv, TypeRest, StopState, None
<1>1. CASE Start
  <2>1. PICK l \in Loop : handle' = l /\ loop' = [loop EXCEPT ![l] = At("top")]
    BY <1>1 DEF Start
  <2>2. At("top").pc = "top" /\ \A k \in Loop : loop[k].pc = "gone"
    BY <1>1, AtTyped DEF Start, OneLoopInv, LoopPC
  <2>3. \A k \in Loop : loop'[k].pc = IF k = l THEN "top" ELSE "gone"
    BY <1>0, <2>1, <2>2
  <2> QED BY <1>1, <2>1, <2>3 DEF Start, OneLoopInv
<1>2. StopCloses /\ ~running' /\ (\A k \in Loop : loop'[k].pc = "gone") => OneLoopInv'
  <2>1. StopCloses => stop'.pc \in {"idle", "closing"}
    BY StopTyped DEF StopCloses
  <2> QED BY <2>1 DEF OneLoopInv
<1>3. CASE StopCalled
  <2>1. CASE handle # None /\ loop[handle].pc # "gone"
             /\ loop' = [loop EXCEPT ![handle] = At("cancelled")]
             /\ stop' = [StopIdle EXCEPT !.pc = "waiting"]
    <3>1. handle \in Loop /\ stop'.pc = "waiting" /\ At("cancelled").pc = "cancelled"
      BY <2>1, AtTyped DEF TypeInv, TypeRest, StopIdle, LoopPC
    <3>2. \A k \in Loop : k # handle => loop[k].pc = "gone"
      BY <1>3 DEF StopCalled, OneLoopInv
    <3> QED BY <1>0, <1>3, <2>1, <3>1, <3>2 DEF StopCalled, OneLoopInv
  <2>2. CASE StopCloses /\ loop' = loop /\ (handle # None => loop[handle].pc = "gone")
    <3>1. \A k \in Loop : loop[k].pc = "gone"
      BY <1>0, <1>3, <2>2 DEF StopCalled, OneLoopInv
    <3> QED BY <1>2, <1>3, <2>2, <3>1 DEF StopCalled
  <2> QED BY <1>3, <2>1, <2>2 DEF StopCalled
<1>4. CASE StopResumes
  BY <1>2, <1>4 DEF StopResumes, OneLoopInv
<1>5. CASE StopEnds
  <2>1. ~running /\ \A k \in Loop : loop[k].pc = "gone"
    BY <1>5 DEF StopEnds, OneLoopInv
  <2>2. \A k \in Loop : loop'[k] = loop[k]
    BY <1>5, <2>1, DroppingTyped DEF StopEnds
  <2> QED BY <1>5, <2>1, <2>2, StopTyped DEF StopEnds, OneLoopInv
<1>6. ASSUME NEW l \in Loop, LoopStep(l) PROVE OneLoopInv'
  <2>1. CASE CancelledEnds(l)
    <3>1. stop.pc = "waiting"
      BY <1>0, <2>1 DEF CancelledEnds, OneLoopInv
    <3>2. ~running /\ \A k \in Loop : k # l => loop[k].pc = "gone"
      BY <2>1, <3>1 DEF CancelledEnds, OneLoopInv
    <3>3. stop'.pc = "resumed" /\ At("gone").pc = "gone"
      BY <2>1, AtTyped DEF CancelledEnds, TypeInv, TypeRest, StopState, LoopPC
    <3> QED BY <1>0, <2>1, <3>2, <3>3 DEF CancelledEnds, OneLoopInv
  <2>2. CASE ~CancelledEnds(l)
    BY <1>6, <2>2, LoopStepMoves, LoopStepsKeepOneLoop
  <2> QED BY <2>1, <2>2
<1>7. CASE Cleanup \/ CleanupCommit \/ Produce \/ UNCHANGED vars
  BY <1>7 DEF Cleanup, CleanupCommit, Produce, vars, OneLoopInv
<1>8. CASE Crash
  <2>1. PICK n \in Loop \union {None} : Boot(n)
    BY <1>8 DEF Crash
  <2>2. /\ handle' = n /\ stop' = StopIdle /\ running' = (n # None)
        /\ \A l \in Loop : loop'[l].pc = IF l = n THEN "top" ELSE "gone"
    BY <2>1, BootFacts
  <2> QED BY <1>0, <2>2, StopTyped DEF OneLoopInv
<1> QED BY <1>1, <1>3, <1>4, <1>5, <1>6, <1>7, <1>8 DEF Next, StopStep

\* With control calls that wait for each other there is at most one consume
\* loop, and none after a stop.
THEOREM AtMostOneLoop == Spec => []OneLoop
<1>1. TypeInv /\ OneLoopInv => OneLoop
  BY ConsumerAssumption DEF OneLoop, OneLoopInv, TypeInv, TypeRest, StopState
<1>2. CASE SerialControl
  <2>1. TypeInv /\ OneLoopInv /\ [Next]_vars => OneLoopInv'
    BY <1>2, OneLoopStep
  <2> QED BY <1>1, <2>1, TypeInit, TypeStep, OneLoopInit, PTL DEF Spec
<1>3. CASE ~SerialControl
  <2>1. OneLoop
    BY <1>3 DEF OneLoop
  <2> QED BY <2>1, PTL
<1> QED BY <1>2, <1>3

----------------------------------------------------------------------------
\* A message is stored once.

NoDuplicates(t) == \A i, j \in DOMAIN t : t[i] = t[j] => i = j

\* Both tables: a crash puts the one on disk in place of the other.
OnceInv == NoDuplicates(rows) /\ NoDuplicates(disk)

\* The INSERT adds a message that the table lacks, or none.
LEMMA InsertOnce ==
  ASSUME NEW S, NEW s \in Seq(S), NEW m \in S, NoDuplicates(s), m \notin Rows(s)
  PROVE  NoDuplicates(Append(s, m))
<1>1. /\ DOMAIN s = 1..Len(s) /\ Len(s) \in Nat
      /\ DOMAIN Append(s, m) = 1..(Len(s) + 1)
      /\ \A i \in 1..Len(s) : Append(s, m)[i] = s[i] /\ s[i] # m
      /\ Append(s, m)[Len(s) + 1] = m
  BY DEF Rows
<1> QED BY <1>1 DEF NoDuplicates

\* What the retention leaves, and what it takes away.
LEMMA PruneFacts ==
  ASSUME NEW S, NEW s \in Seq(S), NEW k \in DOMAIN s
  PROVE  LET t == SubSeq(s, k + 1, Len(s)) IN
         /\ t \in Seq(S)
         /\ Rows(t) \union {s[i] : i \in 1..k} = Rows(s)
         /\ NoDuplicates(s) => NoDuplicates(t)
<1> DEFINE t == SubSeq(s, k + 1, Len(s))
<1>1. Len(s) \in Nat /\ DOMAIN s = 1..Len(s) /\ k \in 1..Len(s)
  OBVIOUS
<1>2. /\ t \in Seq(S) /\ DOMAIN t = 1..(Len(s) - k) /\ Len(s) - k \in Nat
      /\ \A i \in 1..(Len(s) - k) : t[i] = s[i + k] /\ i + k \in 1..Len(s)
  BY <1>1
<1>3. Rows(t) \union {s[i] : i \in 1..k} \subseteq Rows(s)
  <2>1. ASSUME NEW i \in DOMAIN t PROVE t[i] \in Rows(s)
    <3>1. i + k \in DOMAIN s /\ t[i] = s[i + k]
      BY <1>1, <1>2
    <3> QED BY <3>1, Zenon DEF Rows
  <2>2. ASSUME NEW i \in 1..k PROVE s[i] \in Rows(s)
    <3>1. i \in DOMAIN s
      BY <1>1
    <3> QED BY <3>1, Zenon DEF Rows
  <2> HIDE DEF t
  <2> QED BY <2>1, <2>2, Zenon DEF Rows
<1>4. ASSUME NEW i \in 1..Len(s) PROVE s[i] \in Rows(t) \union {s[j] : j \in 1..k}
  <2>1. CASE i \in 1..k
    BY <2>1
  <2>2. CASE i \notin 1..k
    <3>1. i - k \in 1..(Len(s) - k) /\ (i - k) + k = i
      BY <1>1, <2>2
    <3> QED BY <1>2, <3>1 DEF Rows
  <2> QED BY <2>1, <2>2
<1>5. NoDuplicates(s) => NoDuplicates(t)
  <2> SUFFICES ASSUME NoDuplicates(s), NEW i \in DOMAIN t, NEW j \in DOMAIN t, t[i] = t[j]
               PROVE  i = j
    BY DEF NoDuplicates
  <2>1. i + k \in DOMAIN s /\ j + k \in DOMAIN s /\ s[i + k] = s[j + k]
    BY <1>1, <1>2
  <2>2. i + k = j + k
    BY <2>1 DEF NoDuplicates
  <2> QED BY <1>1, <1>2, <2>2
<1>6. Rows(s) \subseteq Rows(t) \union {s[i] : i \in 1..k}
  BY <1>1, <1>4 DEF Rows
<1> QED BY <1>2, <1>3, <1>5, <1>6

\* What a step may do to the two tables.
LEMMA TableSteps ==
  ASSUME TypeInv, [Next]_vars
  PROVE  \/ UNCHANGED <<rows, disk, pruned>>
         \/ /\ UNCHANGED <<pruned, topic>> /\ disk' \in {disk, rows}
            /\ rows' = rows \/ \E l \in Loop : rows' = QueuedInsert(l)
         \/ /\ Cleanup /\ UNCHANGED <<disk, topic>>
         \/ /\ Crash /\ UNCHANGED <<disk, pruned, topic>> /\ rows' = disk
<1> USE DEF tableVars, kafkaVars
<1>1. CASE Start \/ StopStep \/ CleanupCommit \/ Produce \/ UNCHANGED vars
  BY <1>1 DEF Start, StopStep, StopResumes, StopEnds, CleanupCommit, Produce, vars
<1>2. CASE StopCalled
  <2>1. CASE handle # None /\ rows' = QueuedInsert(handle)
    BY <1>2, <2>1 DEF StopCalled, TypeInv, TypeRest
  <2>2. CASE UNCHANGED <<loop, rows, disk>>
    BY <1>2, <2>2 DEF StopCalled
  <2> QED BY <1>2, <2>1, <2>2 DEF StopCalled
<1>3. ASSUME NEW l \in Loop, LoopStep(l)
      PROVE  \/ UNCHANGED <<rows, disk, pruned>>
             \/ /\ UNCHANGED <<pruned, topic>> /\ disk' \in {disk, rows}
                /\ rows' = rows \/ rows' = QueuedInsert(l)
  BY <1>3 DEF LoopStep, Turn, Reopen, Connected, Poll, Fetched, FetchedNothing, InsertRow,
              CommitRow, CommitOffset, Fails, CancelledEnds
<1>4. CASE Cleanup \/ Crash
  BY <1>4 DEF Cleanup, Crash
<1> QED BY <1>1, <1>2, <1>3, <1>4 DEF Next

\* Every step keeps the rows distinct.
LEMMA OnceStep == TypeInv /\ OnceInv /\ [Next]_vars => OnceInv'
<1> SUFFICES ASSUME TypeInv, OnceInv, [Next]_vars PROVE OnceInv'
  OBVIOUS
<1>1. ASSUME NEW l \in Loop, rows' = QueuedInsert(l) PROVE NoDuplicates(rows')
  <2>1. loop[l].pc = "insert" => topic[loop[l].first] \in Msg
    BY WorkingMessage DEF Working
  <2> QED BY <1>1, <2>1, InsertOnce DEF QueuedInsert, OnceInv, TypeInv, TypeRest
<1>2. CASE UNCHANGED <<rows, disk, pruned>>
  BY <1>2 DEF OnceInv
<1>3. CASE /\ disk' \in {disk, rows}
           /\ rows' = rows \/ \E l \in Loop : rows' = QueuedInsert(l)
  BY <1>1, <1>3 DEF OnceInv
<1>4. CASE Cleanup
  BY <1>4, PruneFacts DEF Cleanup, OnceInv, TypeInv, TypeRest
<1>5. CASE disk' = disk /\ rows' = disk
  BY <1>5 DEF OnceInv
<1> QED BY <1>2, <1>3, <1>4, <1>5, TableSteps

\* No message has two rows, whichever loop stores it, however often it is
\* delivered, and whether or not control calls overlap.
THEOREM NothingStoredTwice == Spec => []StoredOnce
<1>1. Init => OnceInv
  BY DEF Init, OnceInv, NoDuplicates
<1>2. OnceInv => StoredOnce
  BY DEF OnceInv, NoDuplicates, StoredOnce
<1> QED BY <1>1, <1>2, TypeInit, TypeStep, OnceStep, PTL DEF Spec

----------------------------------------------------------------------------
\* What is acknowledged is stored, and the consumer implements Inbox.

\* What the shared connection has, or had, and what a crash would leave of it.
Seen == Rows(rows) \union pruned
Stored == Rows(disk) \union pruned

TablesInv == Stored \subseteq Seen /\ Seen \subseteq Rows(topic)

\* A loop polls from the committed offset, and works on the record there.
Delivering(state) ==
  /\ state.pc \in {"poll", "next"} => position = committed
  /\ state.pc \in Working => state.first = committed /\ position = state.last + 1
  /\ state.pc = "dbcommit" => topic[state.first] \in Seen
  /\ state.pc = "offset" => topic[state.first] \in Stored

DeliveryInv ==
  /\ TablesInv
  /\ CommittedIsStored
  /\ \A l \in Loop : Delivering(loop[l])

\* Nothing is committed at the beginning.
LEMMA DeliveryInit == Init => DeliveryInv
<1> SUFFICES ASSUME Init PROVE DeliveryInv
  OBVIOUS
<1>1. Rows(<<>>) = {}
  BY DEF Rows
<1>2. TablesInv
  BY <1>1 DEF Init, TablesInv, Stored, Seen
<1>3. CommittedIsStored
  BY DEF Init, CommittedIsStored
<1>4. \A l \in Loop : loop[l].pc = "gone"
  BY AtTyped DEF Init, LoopPC
<1> QED BY <1>2, <1>3, <1>4 DEF DeliveryInv, Delivering, Working

\* The topic only grows, at its end.
LEMMA TopicGrows ==
  ASSUME TypeInv, [Next]_vars
  PROVE  /\ Rows(topic) \subseteq Rows(topic')
         /\ DOMAIN topic \subseteq DOMAIN topic'
         /\ \A i \in 1..Len(topic) : topic'[i] = topic[i]
<1>1. CASE topic' = topic
  BY <1>1
<1>2. CASE Produce
  <2>1. PICK m \in Msg : topic' = Append(topic, m)
    BY <1>2 DEF Produce
  <2>2. topic \in Seq(Msg)
    BY DEF TypeInv, TypeRest
  <2>3. /\ topic' \in Seq(Msg) /\ Len(topic') = Len(topic) + 1
        /\ Rows(topic) \subseteq Rows(topic')
        /\ \A i \in 1..Len(topic) : topic'[i] = topic[i]
    BY <2>1, <2>2, AppendFacts
  <2> QED BY <2>2, <2>3
<1>3. ASSUME NEW l \in Loop, LoopStep(l) PROVE topic' = topic
  BY <1>3 DEF LoopStep, Turn, Reopen, Connected, Poll, Fetched, FetchedNothing, InsertRow,
              CommitRow, CommitOffset, Fails, CancelledEnds, kafkaVars
<1>4. CASE \/ Start \/ StopStep \/ StopCalled \/ Cleanup \/ CleanupCommit \/ Crash
           \/ UNCHANGED vars
  BY <1>4 DEF Start, StopStep, StopResumes, StopEnds, StopCalled, Cleanup, CleanupCommit,
              Crash, vars, kafkaVars
<1> QED BY <1>1, <1>2, <1>3, <1>4 DEF Next

\* What the tables hold only grows, a crash excepted: it loses what was not
\* committed.
LEMMA TablesGrow ==
  ASSUME TypeInv, TablesInv, [Next]_vars
  PROVE  /\ TablesInv'
         /\ Stored \subseteq Stored' /\ pruned \subseteq pruned'
         /\ Crash \/ Seen \subseteq Seen'
<1>0. Rows(topic) \subseteq Rows(topic')
  BY TopicGrows
<1>1. CASE UNCHANGED <<rows, disk, pruned>>
  <2>1. Seen' = Seen /\ Stored' = Stored
    BY <1>1 DEF Seen, Stored
  <2> QED BY <1>0, <1>1, <2>1 DEF TablesInv
<1>2. CASE /\ UNCHANGED <<pruned, topic>> /\ disk' \in {disk, rows}
           /\ rows' = rows \/ \E l \in Loop : rows' = QueuedInsert(l)
  <2>1. Rows(rows) \subseteq Rows(rows') /\ Rows(rows') \subseteq Rows(rows) \union Rows(topic)
    <3>1. ASSUME NEW l \in Loop, rows' = QueuedInsert(l), rows' # rows
          PROVE  /\ topic[loop[l].first] \in Rows(topic)
                 /\ Rows(rows') = Rows(rows) \union {topic[loop[l].first]}
      <4>1. loop[l].first \in 1..Len(topic)
        BY <3>1, QueuedInsertFacts, WorkingMessage DEF Working
      <4>2. topic[loop[l].first] \in Rows(topic)
        BY <4>1 DEF Rows, TypeInv, TypeRest
      <4> QED BY <3>1, <4>2, QueuedInsertFacts
    <3> QED BY <1>2, <3>1
  <2>2. Rows(disk') = Rows(disk) \/ Rows(disk') = Rows(rows)
    BY <1>2
  <2> QED BY <1>2, <2>1, <2>2 DEF TablesInv, Seen, Stored
<1>3. CASE Cleanup
  <2>1. PICK k \in DOMAIN rows : /\ rows' = SubSeq(rows, k + 1, Len(rows))
                                 /\ pruned' = pruned \union {rows[i] : i \in 1..k}
    BY <1>3 DEF Cleanup
  <2>2. Rows(rows') \union {rows[i] : i \in 1..k} = Rows(rows)
    BY <2>1, PruneFacts DEF TypeInv, TypeRest
  <2>3. /\ Seen' = Seen /\ pruned \subseteq pruned' /\ pruned' \subseteq Seen
        /\ Stored' = Rows(disk) \union pruned'
    BY <1>3, <2>1, <2>2 DEF Cleanup, Seen, Stored
  <2>4. Stored \subseteq Stored' /\ Stored' \subseteq Seen
    BY <2>3 DEF TablesInv, Stored
  <2> QED BY <1>0, <2>3, <2>4 DEF TablesInv
<1>4. CASE Crash /\ UNCHANGED <<disk, pruned, topic>> /\ rows' = disk
  <2>1. Stored' = Stored /\ Seen' = Stored
    BY <1>4 DEF Seen, Stored
  <2> QED BY <1>0, <1>4, <2>1 DEF TablesInv
<1> QED BY <1>1, <1>2, <1>3, <1>4, TableSteps

\* A loop that has not moved is where it was, while the tables grow.
LEMMA DeliveringKept ==
  ASSUME TypeInv, TablesInv, [Next]_vars, ~Crash, UNCHANGED <<position, committed>>,
         NEW l \in Loop, Delivering(loop[l]), loop'[l] = loop[l]
  PROVE  Delivering(loop[l])'
<1>1. Stored \subseteq Stored' /\ Seen \subseteq Seen'
  BY TablesGrow
<1>2. loop[l].pc \in Working => topic'[loop[l].first] = topic[loop[l].first]
  BY WorkingMessage, TopicGrows
<1> QED BY <1>1, <1>2 DEF Delivering, Working

\* So is one that waits neither for the topic nor with a record.
LEMMA RestingDelivers ==
  ASSUME NEW state, state.pc \notin Working \union {"poll", "next"}
  PROVE  Delivering(state)
  BY DEF Delivering, Working

\* The steps of a loop, the only one that is not gone.
LEMMA LoopDelivers ==
  ASSUME TypeInv, OneLoopInv, DeliveryInv, [Next]_vars, TablesInv', Stored \subseteq Stored',
         NEW l \in Loop, LoopStep(l), ~CancelledEnds(l)
  PROVE  /\ Delivering(loop[l])'
         /\ \/ committed' = committed
            \/ /\ committed' = committed + 1 /\ committed \in 1..Len(topic)
               /\ topic[committed] \in Stored
               /\ UNCHANGED <<topic, rows, disk, pruned>>
<1> USE DEF LoopGoes, kafkaVars, tableVars, clientVars
<1>0. /\ loop \in [Loop -> LoopState] /\ loop[l] \in LoopState
      /\ Delivering(loop[l]) /\ committed \in Nat /\ position \in Nat /\ Len(topic) \in Nat
  BY ConsumerAssumption DEF TypeInv, TypeRest, DeliveryInv, Offset
<1>1. \A pc \in LoopPC : /\ At(pc).pc = pc
                         /\ \A c \in Client : AtClient(pc, c).pc = pc
  BY AtTyped
<1>2. ASSUME loop'[l].pc \notin Working \union {"poll", "next"} PROVE Delivering(loop[l])'
  BY <1>2 DEF Delivering, Working
<1>3. ASSUME NEW ls \in [Loop -> LoopState], CreateClient(l, ls)
      PROVE  loop'[l].pc = "starting"
  <2>1. PICK c \in Client : loop' = [ls EXCEPT ![l] = AtClient("starting", c)]
    BY <1>3 DEF CreateClient, FreshClients
  <2> QED BY <1>1, <2>1 DEF LoopPC
<1>4. \A started : Polling(started).pc \notin Working
  <2>1. consumer \in Client \union {None}
    BY DEF TypeInv, TypeRest
  <2>2. /\ At("gone").pc = "gone" /\ At("failed").pc = "failed"
        /\ AtClient("poll", consumer).pc = "poll"
    BY DEF At, AtClient
  <2> QED BY <2>2 DEF Polling, Working
<1>5. CASE Turn(l)
  <2>0. consumer # None => consumer \in Client
    BY DEF TypeInv, TypeRest
  <2>1. loop'[l].pc \in {"gone", "closing", "starting"}
    BY <1>0, <1>1, <1>3, <1>5, <2>0 DEF Turn, LoopPC
  <2> QED BY <1>2, <1>5, <2>1 DEF Turn, Working
<1>6. CASE Reopen(l)
  <2>1. loop'[l].pc = "starting"
    BY <1>3, <1>6, DroppingTyped DEF Reopen
  <2> QED BY <1>2, <1>6, <2>1 DEF Reopen, Working
<1>7. CASE Connected(l)
  <2>1. loop'[l].pc \notin Working /\ position' = committed /\ committed' = committed
    BY <1>0, <1>4, <1>7 DEF Connected
  <2> QED BY <2>1 DEF Delivering, Working
<1>8. CASE Poll(l)
  <2>1. loop'[l].pc \notin Working /\ position' = committed /\ committed' = committed
    BY <1>0, <1>4, <1>8 DEF Poll, Delivering
  <2> QED BY <2>1 DEF Delivering, Working
<1>9. CASE Fetched(l)
  <2>1. PICK last \in position..Len(topic) :
          loop' = [loop EXCEPT ![l] = Handle(position, last)] /\ position' = last + 1
    BY <1>9 DEF Fetched
  <2>2. position = committed /\ position \in 1..Len(topic) /\ last \in Nat
        /\ position <= last /\ last <= Len(topic)
    BY <1>0, <1>9, <2>1 DEF Fetched, Delivering, TypeInv, TypeRest, Offset
  <2>3. \/ loop'[l].pc = "failed"
        \/ loop'[l].pc = "insert" /\ loop'[l].first = committed /\ loop'[l].last = last
    BY <1>0, <2>1, <2>2, HandleFacts
  <2> QED BY <1>9, <2>1, <2>3 DEF Fetched, Delivering, Working
<1>10. CASE FetchedNothing(l)
  <2>1. loop'[l].pc = "next"
    BY <1>0, <1>1, <1>10 DEF FetchedNothing, LoopPC
  <2> QED BY <1>0, <1>10, <2>1 DEF FetchedNothing, Delivering, Working
<1>11. CASE InsertRow(l)
  <2>1. loop'[l].pc = "dbcommit" /\ loop'[l].first = loop[l].first /\ loop'[l].last = loop[l].last
    BY <1>0, <1>11 DEF InsertRow, LoopState
  <2>2. topic[loop[l].first] \in Seen'
    BY <1>11, QueuedInsertFacts DEF InsertRow, Seen
  <2> QED BY <1>0, <1>11, <2>1, <2>2 DEF InsertRow, Delivering, Working
<1>12. CASE CommitRow(l)
  <2>1. loop'[l].pc = "offset" /\ loop'[l].first = loop[l].first /\ loop'[l].last = loop[l].last
    BY <1>0, <1>12 DEF CommitRow, LoopState
  <2>2. topic[loop[l].first] \in Stored'
    BY <1>0, <1>12 DEF CommitRow, Delivering, Seen, Stored
  <2> QED BY <1>0, <1>12, <2>1, <2>2 DEF CommitRow, Delivering, Working
<1>13. CASE CommitOffset(l)
  <2>1. /\ loop[l].first = committed /\ position = loop[l].last + 1
        /\ topic[committed] \in Stored
        /\ committed' = committed + 1
        /\ UNCHANGED <<topic, rows, disk, pruned, position>>
        /\ loop'[l] = NextRecord(l)
    BY <1>0, <1>13 DEF CommitOffset, Delivering, Working
  <2>2. loop[l].first \in 1..Len(topic) /\ loop[l].last \in 1..Len(topic)
        /\ loop[l].first <= loop[l].last
    BY <1>13, WorkingMessage DEF CommitOffset, Working, TypeInv, LoopsSound, Sound
  <2>3. CASE loop[l].first < loop[l].last
    <3>1. /\ committed + 1 \in 1..Len(topic) /\ loop[l].last \in Nat
          /\ committed + 1 <= loop[l].last /\ loop[l].last <= Len(topic)
      BY <1>0, <2>1, <2>2, <2>3
    <3>2. loop'[l] = Handle(committed + 1, loop[l].last)
      BY <2>1, <2>3 DEF NextRecord
    <3>3. \/ loop'[l].pc = "failed"
          \/ /\ loop'[l].pc = "insert" /\ loop'[l].first = committed + 1
             /\ loop'[l].last = loop[l].last
      BY <3>1, <3>2, HandleFacts
    <3> QED BY <2>1, <2>2, <3>3 DEF Delivering, Working
  <2>4. CASE ~(loop[l].first < loop[l].last)
    <3>1. loop'[l].pc = "next" /\ position = committed + 1
      BY <1>1, <2>1, <2>2, <2>4 DEF NextRecord, LoopPC
    <3> QED BY <2>1, <2>2, <3>1 DEF Delivering, Working
  <2> QED BY <2>3, <2>4
<1>14. CASE Fails(l)
  <2>1. loop'[l].pc = "failed"
    BY <1>0, <1>1, <1>14 DEF Fails, LoopPC
  <2> QED BY <1>2, <1>14, <2>1 DEF Fails, Working
<1> QED BY <1>5, <1>6, <1>7, <1>8, <1>9, <1>10, <1>11, <1>12, <1>13, <1>14 DEF LoopStep

\* Every other step leaves the offsets alone, and a loop where it is or at rest.
LEMMA OtherSteps ==
  ASSUME TypeInv, [Next]_vars, ~Crash,
         ~\E l \in Loop : LoopStep(l) /\ ~CancelledEnds(l)
  PROVE  /\ UNCHANGED <<position, committed>>
         /\ \A k \in Loop : \/ loop'[k] = loop[k]
                            \/ loop'[k].pc \in {"top", "failed", "cancelled", "gone"}
<1> USE DEF kafkaVars, clientVars
<1>0. loop \in [Loop -> LoopState] /\ handle \in Loop \union {None}
  BY DEF TypeInv, TypeRest
<1>1. \A pc \in {"top", "failed", "cancelled", "gone"} : At(pc).pc = pc
  BY DEF At
<1>2. CASE Start
  BY <1>0, <1>1, <1>2 DEF Start
<1>3. CASE StopCalled
  <2>1. CASE handle # None /\ loop' = [loop EXCEPT ![handle] = At("cancelled")]
    BY <1>0, <1>1, <1>3, <2>1 DEF StopCalled
  <2>2. CASE loop' = loop
    BY <1>3, <2>2 DEF StopCalled
  <2> QED BY <1>3, <2>1, <2>2 DEF StopCalled
<1>4. CASE StopResumes
  BY <1>4 DEF StopResumes
<1>5. CASE StopEnds
  BY <1>5, DroppingTyped DEF StopEnds, ClientStopped
<1>6. ASSUME NEW l \in Loop, CancelledEnds(l)
      PROVE  /\ UNCHANGED <<position, committed>>
             /\ \A k \in Loop : loop'[k] = loop[k] \/ loop'[k].pc = "gone"
  BY <1>0, <1>1, <1>6 DEF CancelledEnds
<1>7. CASE Cleanup \/ CleanupCommit \/ Produce \/ UNCHANGED vars
  BY <1>7 DEF Cleanup, CleanupCommit, Produce, vars
<1> QED BY <1>2, <1>3, <1>4, <1>5, <1>6, <1>7 DEF Next, StopStep

\* Every step keeps the loop at the committed offset, and what lies below it stored.
LEMMA DeliveryStep ==
  TypeInv /\ OneLoopInv /\ DeliveryInv /\ [Next]_vars => DeliveryInv'
<1> SUFFICES ASSUME TypeInv, OneLoopInv, DeliveryInv, [Next]_vars PROVE DeliveryInv'
  OBVIOUS
<1>0. /\ TablesInv' /\ Stored \subseteq Stored'
      /\ \A i \in 1..Len(topic) : topic'[i] = topic[i]
      /\ committed \in Nat /\ committed <= Len(topic) + 1 /\ Len(topic) \in Nat
  BY TablesGrow, TopicGrows, ConsumerAssumption
  DEF DeliveryInv, TypeInv, TypeRest, Offset
<1>1. \A i \in 1..(committed - 1) : topic'[i] \in Stored'
  <2>1. \A i \in 1..(committed - 1) : i \in 1..Len(topic) /\ topic[i] \in Stored
    BY <1>0 DEF DeliveryInv, CommittedIsStored, Stored
  <2> QED BY <1>0, <2>1
<1>2. ASSUME committed' = committed PROVE CommittedIsStored'
  BY <1>1, <1>2 DEF CommittedIsStored, Stored
<1>3. ASSUME NEW l \in Loop, LoopStep(l), ~CancelledEnds(l) PROVE DeliveryInv'
  <2>1. /\ Delivering(loop[l])'
        /\ \/ committed' = committed
           \/ /\ committed' = committed + 1 /\ committed \in 1..Len(topic)
              /\ topic[committed] \in Stored
              /\ UNCHANGED <<topic, rows, disk, pruned>>
    BY <1>0, <1>3, LoopDelivers
  <2>2. \A k \in Loop : k # l => Delivering(loop[k])'
    <3>1. \A k \in Loop : k # l => loop'[k].pc = "gone"
      BY <1>3, LoopStepMoves
    <3> QED BY <3>1 DEF Delivering, Working
  <2>3. CommittedIsStored'
    <3>1. CASE committed' = committed
      BY <1>2, <3>1
    <3>2. CASE /\ committed' = committed + 1 /\ committed \in 1..Len(topic)
               /\ topic[committed] \in Stored
               /\ UNCHANGED <<topic, rows, disk, pruned>>
      <4>1. \A i \in 1..(committed' - 1) : i \in 1..(committed - 1) \/ i = committed
        BY <1>0, <3>2
      <4>2. \A i \in 1..(committed' - 1) : topic'[i] \in Stored'
        BY <1>0, <1>1, <3>2, <4>1
      <4> QED BY <4>2 DEF CommittedIsStored, Stored
    <3> QED BY <2>1, <3>1, <3>2
  <2> QED BY <1>0, <2>1, <2>2, <2>3 DEF DeliveryInv
<1>4. CASE Crash
  <2>1. PICK n \in Loop \union {None} : Boot(n)
    BY <1>4 DEF Crash
  <2>2. \A k \in Loop : loop'[k].pc \in {"top", "gone"}
    BY <2>1, BootFacts
  <2>3. \A k \in Loop : Delivering(loop[k])'
    BY <2>2 DEF Delivering, Working
  <2> QED BY <1>0, <1>2, <1>4, <2>3 DEF Crash, kafkaVars, DeliveryInv
<1>5. CASE ~Crash /\ ~\E l \in Loop : LoopStep(l) /\ ~CancelledEnds(l)
  <2>1. UNCHANGED <<position, committed>>
    BY <1>5, OtherSteps
  <2>2. ASSUME NEW k \in Loop PROVE Delivering(loop[k])'
    <3>1. CASE loop'[k] = loop[k]
      BY <1>5, <2>1, <3>1, DeliveringKept DEF DeliveryInv
    <3>2. CASE loop'[k].pc \in {"top", "failed", "cancelled", "gone"}
      BY <3>2 DEF Delivering, Working
    <3> QED BY <1>5, <3>1, <3>2, OtherSteps
  <2> QED BY <1>0, <1>2, <2>1, <2>2 DEF DeliveryInv
<1> QED BY <1>3, <1>4, <1>5

\* A record below the committed offset is durably stored, or was until its
\* retention ran out.
THEOREM NothingSkipped == SerialControl /\ Spec => []CommittedIsStored
<1>1. DeliveryInv => CommittedIsStored
  BY DEF DeliveryInv
<1>2. CASE SerialControl
  <2>1. TypeInv /\ OneLoopInv /\ [Next]_vars => OneLoopInv'
    BY <1>2, OneLoopStep
  <2> QED BY <1>1, <2>1, TypeInit, TypeStep, OneLoopInit, DeliveryInit, DeliveryStep, PTL
          DEF Spec
<1> QED BY <1>2

\* Message m is in the topic, and what comes before it there is stored.
Preceded(m) ==
  \E j \in DOMAIN topic : topic[j] = m /\ \A i \in 1..(j - 1) : topic[i] \in Stored

\* Also for rows not committed yet, which any commit may take along.
OrderInv == \A m \in Rows(rows) \union Rows(disk) : Preceded(m)

\* The one record that a step may add to the tables is at the committed offset.
LEMMA NewRow ==
  ASSUME TypeInv, DeliveryInv, [Next]_vars,
         NEW m \in Rows(rows') \union Rows(disk'), m \notin Rows(rows) \union Rows(disk)
  PROVE  committed \in DOMAIN topic /\ m = topic[committed]
<1>1. CASE \/ UNCHANGED <<rows, disk, pruned>>
           \/ disk' = disk /\ rows' = disk
  BY <1>1
<1>2. CASE Cleanup
  <2>1. PICK k \in DOMAIN rows : rows' = SubSeq(rows, k + 1, Len(rows))
    BY <1>2 DEF Cleanup
  <2>2. Rows(rows') \subseteq Rows(rows)
    BY <2>1, PruneFacts DEF TypeInv, TypeRest
  <2> QED BY <1>2, <2>2 DEF Cleanup
<1>3. CASE /\ disk' \in {disk, rows}
           /\ rows' = rows \/ \E l \in Loop : rows' = QueuedInsert(l)
  <2>1. PICK l \in Loop : rows' = QueuedInsert(l) /\ m \in Rows(rows')
    BY <1>3
  <2>2. /\ loop[l].pc = "insert"
        /\ Rows(rows') = Rows(rows) \union {topic[loop[l].first]}
    BY <2>1, QueuedInsertFacts
  <2>3. loop[l].first \in 1..Len(topic) /\ loop[l].first = committed
    BY <2>2, WorkingMessage DEF Working, DeliveryInv, Delivering
  <2> QED BY <2>1, <2>2, <2>3 DEF TypeInv, TypeRest
<1> QED BY <1>1, <1>2, <1>3, TableSteps

\* Every step keeps the rows in the order of the topic.
LEMMA OrderStep ==
  TypeInv /\ DeliveryInv /\ OrderInv /\ [Next]_vars => OrderInv'
<1> SUFFICES ASSUME TypeInv, DeliveryInv, OrderInv, [Next]_vars,
                    NEW m \in Rows(rows') \union Rows(disk')
             PROVE  Preceded(m)'
  BY DEF OrderInv
<1>1. /\ Stored \subseteq Stored'
      /\ \A i \in 1..Len(topic) : topic'[i] = topic[i]
      /\ DOMAIN topic = 1..Len(topic) /\ Len(topic) \in Nat
      /\ DOMAIN topic \subseteq DOMAIN topic'
  BY TablesGrow, TopicGrows DEF DeliveryInv, TypeInv, TypeRest
<1>2. Preceded(m)
  <2>1. CASE m \in Rows(rows) \union Rows(disk)
    BY <2>1 DEF OrderInv
  <2>2. CASE m \notin Rows(rows) \union Rows(disk)
    BY <2>2, NewRow DEF Preceded, DeliveryInv, CommittedIsStored, Stored
  <2> QED BY <2>1, <2>2
<1>3. PICK j \in DOMAIN topic : topic[j] = m /\ \A i \in 1..(j - 1) : topic[i] \in Stored
  BY <1>2 DEF Preceded
<1>4. topic'[j] = m /\ \A i \in 1..(j - 1) : topic'[i] \in Stored'
  <2>1. \A i \in 1..(j - 1) : i \in 1..Len(topic)
    BY <1>1
  <2> QED BY <1>1, <1>3, <2>1
<1> QED BY <1>1, <1>4 DEF Preceded

\* What is stored is the topic up to some record, less what was pruned: none is
\* stored ahead of one that precedes it.
THEOREM StoredAsInTopic == SerialControl /\ Spec => []StoredInOrder
<1>1. Init => OrderInv
  BY DEF Init, OrderInv, Rows
<1>2. OrderInv => StoredInOrder
  BY DEF OrderInv, Preceded, Stored, StoredInOrder
<1>3. CASE SerialControl
  <2>1. TypeInv /\ OneLoopInv /\ [Next]_vars => OneLoopInv'
    BY <1>3, OneLoopStep
  <2> QED BY <1>1, <1>2, <2>1, TypeInit, TypeStep, OneLoopInit, DeliveryInit, DeliveryStep,
             OrderStep, PTL DEF Spec
<1> QED BY <1>3

\* A step is one of the inbox's, or one that it does not see.
LEMMA RefineStep ==
  TypeInv /\ OneLoopInv /\ DeliveryInv /\ [Next]_vars => [Inbox!Next]_Inbox!vars
<1> SUFFICES ASSUME TypeInv, OneLoopInv, DeliveryInv, [Next]_vars PROVE Inbox!Next
  OBVIOUS
<1>0. TablesInv /\ TablesInv' /\ Stored \subseteq Stored' /\ pruned \subseteq pruned'
  BY TablesGrow DEF DeliveryInv
<1>1. CASE UNCHANGED <<topic, committed>>
  <2>1. Inbox!Records = Rows(topic) /\ Inbox!Records' = Inbox!Records
    BY <1>1, Zenon DEF Inbox!Records, Rows
  <2>2. Rows(disk)' \union pruned' \subseteq Rows(topic)'
    BY <1>0, Zenon DEF TablesInv, Stored, Seen
  <2>3. Rows(topic)' = Rows(topic)
    BY <1>1, Zenon DEF Rows
  <2>4. Rows(disk)' \subseteq Inbox!Records /\ pruned' \subseteq Inbox!Records
    BY <2>1, <2>2, <2>3, Zenon
  <2>5. Rows(disk) \ Rows(disk)' \subseteq pruned'
    BY <1>0, Zenon DEF Stored
  <2>6. Inbox!Keep
    BY <1>0, <1>1, <2>4, <2>5, Zenon DEF Inbox!Keep
  <2> QED BY <2>6 DEF Inbox!Next
<1>2. CASE Produce
  BY <1>2 DEF Produce, tableVars, Inbox!Next, Inbox!Arrive
<1>3. ASSUME NEW l \in Loop, LoopStep(l), ~CancelledEnds(l), committed' # committed
      PROVE  Inbox!Next
  <2>1. /\ committed' = committed + 1 /\ committed \in 1..Len(topic)
        /\ topic[committed] \in Stored
        /\ UNCHANGED <<topic, rows, disk, pruned>>
    BY <1>0, <1>3, LoopDelivers
  <2>2. committed \in DOMAIN topic
    BY <2>1 DEF TypeInv, TypeRest
  <2> QED BY <2>1, <2>2 DEF Inbox!Next, Inbox!Acknowledge, Stored
<1>4. \/ Produce \/ topic' = topic
  <2>1. ASSUME NEW l \in Loop, LoopStep(l) PROVE topic' = topic
    BY <2>1 DEF LoopStep, Turn, Reopen, Connected, Poll, Fetched, FetchedNothing, InsertRow,
                CommitRow, CommitOffset, Fails, CancelledEnds, kafkaVars
  <2> QED BY <2>1 DEF Next, Start, StopStep, StopResumes, StopEnds, StopCalled, Cleanup,
                      CleanupCommit, Crash, vars, kafkaVars
<1>5. CASE Crash
  BY <1>1, <1>5 DEF Crash, kafkaVars
<1>6. CASE ~Crash /\ ~Produce /\ ~\E l \in Loop : LoopStep(l) /\ ~CancelledEnds(l)
  BY <1>1, <1>4, <1>6, OtherSteps
<1>7. ASSUME NEW l \in Loop, LoopStep(l), ~CancelledEnds(l), ~Produce PROVE Inbox!Next
  BY <1>1, <1>3, <1>4, <1>7
<1> QED BY <1>2, <1>5, <1>6, <1>7

\* The consumer, clients, loops, transaction, faults and crashes included,
\* implements the inbox: it acknowledges the records in order, each one once,
\* and only when stored.
THEOREM ConsumerKeepsPromise == SerialControl /\ Spec => Promise
<1>1. Init => Inbox!Init
  <2>1. Rows(<<>>) = {}
    BY DEF Rows
  <2> QED BY <2>1 DEF Init, Inbox!Init
<1>2. CASE SerialControl
  <2>1. TypeInv /\ OneLoopInv /\ [Next]_vars => OneLoopInv'
    BY <1>2, OneLoopStep
  <2> QED BY <1>1, <2>1, TypeInit, TypeStep, OneLoopInit, DeliveryInit, DeliveryStep,
             RefineStep, PTL DEF Spec, Promise, Inbox!Spec
<1> QED BY <1>2

----------------------------------------------------------------------------
(* From the producer's counter to the consumer's store.                    *)

\* Each step of the pipeline is a step of each service, or none for it.
LEMMA PipelineSteps ==
  ASSUME [PipelineNext]_pipelineVars
  PROVE  /\ [Sender!Next]_Sender!vars
         /\ [Next]_vars
         /\ \/ UNCHANGED <<log, topic>>
            \/ \E s \in Sender!Loop :
                 /\ \/ Sender!KafkaAppend(s)
                    \/ Sender!InFlight(s).msg \in Sender!Published /\ log' = log
                 /\ topic' = Append(topic, Sender!InFlight(s).msg)
<1> USE DEF pipelineVars, senderVars, receiverVars, vars, kafkaVars, tableVars, clientVars,
            Sender!vars, Sender!bufferVars, Sender!serviceVars, Sender!kafkaVars,
            Sender!historyVars, Sender!lossVars
<1>1. CASE UNCHANGED pipelineVars
  BY <1>1
<1>2. CASE SenderStep
  BY <1>2 DEF SenderStep
<1>3. CASE ReceiverStep
  BY <1>3 DEF ReceiverStep
<1>4. CASE \E s \in Sender!Loop : Arrive(s)
  <2>1. PICK s \in Sender!Loop : Arrive(s)
    BY <1>4
  <2>2. Next
    BY <2>1 DEF Arrive, Next
  <2>3. Sender!KafkaAppend(s) => Sender!Next
    BY DEF Sender!Next
  <2>4. AppendedAgain(s) => UNCHANGED Sender!vars
    BY DEF AppendedAgain
  <2> QED BY <2>1, <2>2, <2>3, <2>4 DEF Arrive, AppendedAgain
<1> QED BY <1>1, <1>2, <1>3, <1>4 DEF PipelineNext

\* What the brokers hold is what the producer can have seen acknowledged.
SameMessages == Sender!Published = Rows(topic)

LEMMA SameMessagesStep ==
  ASSUME PipelineAssumption, Sender!TypeInv, TypeInv, SameMessages,
         [PipelineNext]_pipelineVars
  PROVE  SameMessages'
<1> USE PipelineAssumption DEF PipelineAssumption
<1>1. CASE UNCHANGED <<log, topic>>
  BY <1>1 DEF SameMessages, Sender!Published, Rows
<1>2. ASSUME NEW s \in Sender!Loop,
             Sender!KafkaAppend(s)
               \/ (Sender!InFlight(s).msg \in Sender!Published /\ log' = log),
             topic' = Append(topic, Sender!InFlight(s).msg)
      PROVE  SameMessages'
  <2> DEFINE m == Sender!InFlight(s).msg
  <2>1. topic \in Seq(Msg)
    BY DEF TypeInv, TypeRest
  <2>2. CASE Sender!KafkaAppend(s)
    <3>1. m \in Msg /\ Sender!Published' = Sender!Published \union {m}
      BY <2>2, Sender!PublishedGrows
    <3>2. Rows(topic') = Rows(topic) \union {m}
      BY <1>2, <2>1, <3>1, AppendFacts
    <3> QED BY <3>1, <3>2 DEF SameMessages
  <2>3. CASE m \in Sender!Published /\ log' = log
    <3>1. m \in Rows(topic) /\ Sender!Published' = Sender!Published
      BY <2>3 DEF SameMessages, Sender!Published
    <3>2. m \in Msg
      BY <2>1, <3>1 DEF Rows
    <3>3. Rows(topic') = Rows(topic) \union {m}
      BY <1>2, <2>1, <3>2, AppendFacts
    <3> QED BY <3>1, <3>3 DEF SameMessages
  <2> QED BY <1>2, <2>2, <2>3
<1> QED BY <1>1, <1>2, PipelineSteps

\* What is in the topic lies ahead of the consumer, or it was stored.
LEMMA TopicIsKept ==
  ASSUME TypeInv, CommittedIsStored
  PROVE  Rows(topic) \subseteq Ahead \union Rows(disk) \union pruned
<1> SUFFICES ASSUME NEW i \in DOMAIN topic
             PROVE  topic[i] \in Ahead \union Rows(disk) \union pruned
  BY DEF Rows
<1>1. i \in 1..Len(topic) /\ Len(topic) \in Nat /\ committed \in Nat /\ committed >= 1
  BY ConsumerAssumption DEF TypeInv, TypeRest, Offset
<1>2. CASE i >= committed
  BY <1>2 DEF Ahead
<1>3. CASE i < committed
  <2>1. i \in 1..(committed - 1)
    BY <1>1, <1>3
  <2> QED BY <2>1 DEF CommittedIsStored
<1> QED BY <1>1, <1>2, <1>3

\* A behaviour of the pipeline is one of each service.
LEMMA ServicesRun == PipelineSpec => Sender!Spec /\ Spec
<1>1. [PipelineNext]_pipelineVars => [Sender!Next]_Sender!vars /\ [Next]_vars
  BY PipelineSteps
<1> QED BY <1>1, PTL DEF PipelineSpec, PipelineInit, Sender!Spec, Spec

\* So the topic always holds what the producer's history has published.
LEMMA MessagesStaySame ==
  ASSUME PipelineAssumption
  PROVE  PipelineSpec => []SameMessages
<1> USE DEF PipelineAssumption
<1>1. PipelineInit => SameMessages
  BY DEF PipelineInit, Sender!Init, Init, SameMessages, Sender!Published, Rows
<1>2. /\ Sender!TypeInv /\ TypeInv /\ SameMessages
      /\ [PipelineNext]_pipelineVars
      => SameMessages'
  BY SameMessagesStep
<1>3. Sender!Spec => []Sender!TypeInv
  BY Sender!TypeInit, Sender!TypeStep, PTL DEF Sender!Spec
<1>4. Spec => []TypeInv
  BY TypeInit, TypeStep, PTL DEF Spec
<1> QED BY <1>1, <1>2, <1>3, <1>4, ServicesRun, PTL DEF PipelineSpec

\* No message that the producer has taken charge of vanishes on its way to the
\* store of the consumer, whatever loops, transactions, retries, duplicates,
\* rebalances and crashes of either service lie between.
THEOREM EndToEnd ==
  ASSUME SerialControl, PipelineAssumption
  PROVE  PipelineSpec => []NothingVanishes
<1> USE DEF PipelineAssumption
<1>1. Sender!Spec => [](Sender!TypeInv /\ Sender!NoSilentLoss)
  BY Sender!TypeInit, Sender!TypeStep, Sender!NothingSilentlyLost, PTL DEF Sender!Spec
<1>2. Spec => [](TypeInv /\ CommittedIsStored)
  BY TypeInit, TypeStep, NothingSkipped, PTL DEF Spec
<1>3. Sender!NoSilentLoss /\ SameMessages /\ TypeInv /\ CommittedIsStored => NothingVanishes
  BY TopicIsKept DEF Sender!NoSilentLoss, SameMessages, NothingVanishes
<1> QED BY <1>1, <1>2, <1>3, ServicesRun, MessagesStaySame, PTL
----------------------------------------------------------------------------
(* What overtakes what on the way.                                         *)

\* What the produce loop is done with is in the topic or was left behind.
Accounted == Finished \subseteq detoured \union Sender!Published

\* A message precedes every later one in the topic, unless it was left behind.
TopicOrder ==
  \A j \in DOMAIN topic : \A m \in 1..(topic[j] - 1) :
    m \in detoured \/ \E i \in 1..(j - 1) : topic[i] = m

\* The history keeps its account.
LEMMA AccountedStep ==
  ASSUME Accounted, [PipelineNext]_pipelineVars
  PROVE  Accounted' /\ detoured \subseteq detoured'
<1>1. CASE PipelineNext
  BY <1>1 DEF PipelineNext, Accounted
<1>2. CASE UNCHANGED pipelineVars
  BY <1>2 DEF pipelineVars, senderVars, Accounted, Finished, Sender!Published
<1> QED BY <1>1, <1>2

\* What is before a message that the brokers append for the first time: all
\* messages before it are finished, as the produce loop works on the last one.
LEMMA AppendedInOrder ==
  ASSUME PipelineAssumption, Sender!TypeInv, Sender!InHandInv, Accounted,
         NEW s \in Sender!Loop, Sender!KafkaAppend(s),
         NEW m \in 1..(Sender!InFlight(s).msg - 1)
  PROVE  m \in detoured \union Sender!Published
<1> DEFINE n == Sender!InFlight(s).msg
<1> USE PipelineAssumption DEF PipelineAssumption
<1>1. n \in Sender!Msg
  BY Sender!PublishedGrows
<1>2. generated \in Nat /\ n \in Nat
  BY <1>1 DEF Sender!TypeInv, Sender!TypeOK, Sender!BoundsAssumption, Sender!Msg
<1>3. n <= generated
  BY <1>2 DEF Sender!KafkaAppend, Sender!InFlight, Sender!InHandInv
<1>4. send.pc # "idle" => send.msg = generated
  BY DEF Sender!InHandInv
<1>5. m \in Finished
  BY <1>2, <1>3, <1>4 DEF Finished
<1> QED BY <1>5 DEF Accounted

\* An arrival keeps the order: the record is a repetition, or all messages
\* before it are there or left behind.
LEMMA TopicOrderStep ==
  ASSUME PipelineAssumption, Sender!TypeInv, Sender!InHandInv, TypeInv,
         SameMessages, Accounted, TopicOrder, [PipelineNext]_pipelineVars
  PROVE  TopicOrder'
<1>1. detoured \subseteq detoured'
  BY AccountedStep
<1>2. CASE UNCHANGED topic
  BY <1>1, <1>2 DEF TopicOrder
<1>3. ASSUME NEW s \in Sender!Loop,
             \/ Sender!KafkaAppend(s)
             \/ Sender!InFlight(s).msg \in Sender!Published,
             topic' = Append(topic, Sender!InFlight(s).msg)
      PROVE  TopicOrder'
  <2> DEFINE n == Sender!InFlight(s).msg
  <2>1. n \in Msg
    <3>1. CASE Sender!KafkaAppend(s)
      BY <3>1, Sender!PublishedGrows, PipelineAssumption DEF PipelineAssumption
    <3>2. CASE n \in Sender!Published
      BY <3>2 DEF SameMessages, Rows, TypeInv, TypeRest
    <3> QED BY <1>3, <3>1, <3>2
  <2>2. /\ DOMAIN topic = 1..Len(topic) /\ Len(topic) \in Nat
        /\ DOMAIN topic' = 1..(Len(topic) + 1) /\ topic'[Len(topic) + 1] = n
        /\ \A i \in 1..Len(topic) : topic'[i] = topic[i]
    BY <1>3, <2>1, AppendFacts DEF TypeInv, TypeRest
  <2>3. ASSUME NEW m \in 1..(n - 1)
        PROVE  m \in detoured \/ \E i \in DOMAIN topic : topic[i] = m
    <3>1. CASE Sender!KafkaAppend(s)
      <4>1. m \in detoured \union Rows(topic)
        BY <2>3, <3>1, AppendedInOrder DEF SameMessages
      <4> QED BY <4>1 DEF Rows
    <3>2. CASE n \in Sender!Published
      <4>1. PICK j \in DOMAIN topic : topic[j] = n
        BY <3>2 DEF SameMessages, Rows
      <4>2. m \in detoured \/ \E i \in 1..(j - 1) : topic[i] = m
        BY <2>3, <4>1 DEF TopicOrder
      <4>3. 1..(j - 1) \subseteq DOMAIN topic
        BY <2>2
      <4> QED BY <4>2, <4>3
    <3> QED BY <1>3, <3>1, <3>2
  <2>4. ASSUME NEW j \in DOMAIN topic', NEW m \in 1..(topic'[j] - 1)
        PROVE  m \in detoured \/ \E i \in 1..(j - 1) : topic'[i] = m
    <3>1. CASE j \in DOMAIN topic
      <4>1. m \in detoured \/ \E i \in 1..(j - 1) : topic[i] = m
        BY <2>2, <2>4, <3>1 DEF TopicOrder
      <4>2. \A i \in 1..(j - 1) : topic'[i] = topic[i]
        BY <2>2, <3>1
      <4> QED BY <4>1, <4>2
    <3>2. CASE j \notin DOMAIN topic
      <4>1. j = Len(topic) + 1 /\ topic'[j] = n
        BY <2>2, <2>4, <3>2
      <4>2. m \in detoured \/ \E i \in DOMAIN topic : topic[i] = m
        BY <2>3, <2>4, <4>1
      <4>3. (1..(j - 1)) = DOMAIN topic
        BY <2>2, <4>1
      <4> QED BY <2>2, <4>2, <4>3
    <3> QED BY <3>1, <3>2
  <2> QED BY <1>1, <2>4 DEF TopicOrder
<1> QED BY <1>2, <1>3, PipelineSteps

\* While a later message is stored, one that is not was left behind by the
\* produce loop, or pruned: whatever reconnects, repetitions, redeliveries,
\* rebalances and crashes of either service lie between.
THEOREM WatermarkIsFair ==
  ASSUME SerialControl, PipelineAssumption
  PROVE  PipelineSpec => []OnlyDetouredLagBehind
<1> USE DEF PipelineAssumption
<1>1. PipelineSpec => Sender!Spec /\ Spec
  BY ServicesRun
<1>2. Sender!Spec => [](Sender!TypeInv /\ Sender!InHandInv)
  <2>1. Sender!IInv => Sender!TypeInv
    BY DEF Sender!IInv
  <2> QED BY <2>1, Sender!InvInit, Sender!InvStep, Sender!InHandInit, Sender!InHandStep, PTL
          DEF Sender!Spec
<1>3. Spec => [](TypeInv /\ StoredInOrder)
  BY TypeInit, TypeStep, StoredAsInTopic, PTL DEF Spec
<1>4. PipelineSpec => [](Accounted /\ TopicOrder)
  <2>1. PipelineInit => Accounted /\ TopicOrder
    BY DEF PipelineInit, Sender!Init, Sender!SendIdle, Init, Accounted, TopicOrder, Finished
  <2>2. /\ Sender!TypeInv /\ Sender!InHandInv /\ TypeInv /\ SameMessages
        /\ Accounted /\ TopicOrder /\ [PipelineNext]_pipelineVars
        => Accounted' /\ TopicOrder'
    BY AccountedStep, TopicOrderStep
  <2> QED BY <1>1, <1>2, <1>3, <2>1, <2>2, MessagesStaySame, PTL DEF PipelineSpec
<1>5. StoredInOrder /\ TopicOrder => OnlyDetouredLagBehind
  <2> SUFFICES ASSUME StoredInOrder, TopicOrder,
                      NEW n \in Rows(disk), NEW m \in 1..(n - 1), m \notin detoured
               PROVE  m \in Rows(disk) \union pruned
    BY DEF OnlyDetouredLagBehind
  <2>1. PICK j \in DOMAIN topic :
          topic[j] = n /\ \A i \in 1..(j - 1) : topic[i] \in Rows(disk) \union pruned
    BY DEF StoredInOrder
  <2>2. PICK i \in 1..(j - 1) : topic[i] = m
    BY <2>1 DEF TopicOrder
  <2> QED BY <2>1, <2>2
<1> QED BY <1>1, <1>3, <1>4, <1>5, PTL
=============================================================================
