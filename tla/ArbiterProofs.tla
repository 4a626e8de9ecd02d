---------------------------- MODULE ArbiterProofs ----------------------------
(***************************************************************************)
(* An audit vouches only for what was stored, and accuses only what was    *)
(* held back or pruned: for every number of messages, of producer restarts *)
(* and of overlapping passes, whether or not calls fail.                   *)
(***************************************************************************)
EXTENDS Arbiter, WellFoundedInduction, TLAPS

USE DEF serviceVars

\* The messages generated so far, and those that reached the consumer.
Known == 1..generated
Kept == stored \union pruned

\* TypeOK but for the Booleans, narrowed to what has been generated.
Typed ==
  /\ generated \in 0..MaxMessages
  /\ 0 \in starts /\ starts \subseteq 0..generated
  /\ since \in 0..MaxMessages
  /\ buffered \subseteq detoured
  /\ detoured \subseteq Known
  /\ queue \in Seq(Known)
  /\ stored \subseteq Known
  /\ pruned \subseteq Known
  /\ cache \in 0..MaxMessages

\* The passes have their type, concern what has been generated, and know of no
\* watermark before they ask for one.
PassTyped ==
  /\ pass \in [Pass -> PassState]
  /\ \A p \in Pass : /\ pass[p].sent \subseteq Known
                     /\ pass[p].pc = "watermark" => ~pass[p].known

\* The topic is read in order: a message that went straight to it is ahead of
\* every later one, wherever that one is.
InOrder ==
  \A m \in Known \ detoured :
    /\ m \in Kept \/ \E i \in DOMAIN queue : queue[i] = m
    /\ \A k \in Kept : k > m => m \in Kept
    /\ \A j \in DOMAIN queue :
         queue[j] > m => m \in Kept \/ \E i \in DOMAIN queue : i < j /\ queue[i] = m

\* The watermark is never ahead of the table.
MarkReached ==
  starts = {0} =>
    /\ cache <= generated
    /\ \A m \in Known \ detoured : m <= cache => m \in Kept

\* What the passes know by the time they ask for the missing sequences, and
\* when their audit is made.
Vouches(a) == \A m \in a.sent \ a.missing : SameNumber(m, Kept)

Accuses(a) ==
  a.known /\ a.answered /\ starts = {0} => a.missing \subseteq detoured \union pruned

PassInv ==
  \A p \in Pass :
    LET a == pass[p] IN
    /\ a.pc = "missing" /\ a.known /\ starts = {0} => a.sent \ detoured \subseteq Kept
    /\ a.pc \in {"save", "alert"} => Vouches(a) /\ Accuses(a)

IInv == Typed /\ PassTyped /\ InOrder /\ MarkReached /\ PassInv

----------------------------------------------------------------------------
(* Sequence numbers.                                                       *)

Less == {x \in Nat \X Nat : x[1] < x[2]}

\* A non-empty set of numbers up to a bound has a greatest element.
LEMMA GreatestElement ==
  ASSUME NEW n \in Nat, NEW S \in SUBSET (0..n), S # {}
  PROVE  MaxOf(S) \in S /\ \A y \in S : y <= MaxOf(S)
<1> DEFINE D == {n - x : x \in S}
<1>1. D \in SUBSET Nat /\ D # {}
  <2>1. \A x \in S : n - x \in Nat
    OBVIOUS
  <2>2. D \subseteq Nat
    BY <2>1
  <2>3. PICK x \in S : TRUE
    OBVIOUS
  <2>4. n - x \in D
    OBVIOUS
  <2> QED BY <2>2, <2>4
<1>2. IsWellFoundedOn(Less, Nat)
  BY NatLessThanWellFounded DEF OpToRel, Less
<1>3. PICK d \in D : \A e \in D : ~ (<<e, d>> \in Less)
  BY <1>1, <1>2, WFMin
<1>4. PICK x \in S : d = n - x
  OBVIOUS
<1>5. ASSUME NEW y \in S PROVE y <= x
  <2>1. n - y \in D /\ n - y \in Nat /\ d \in Nat
    BY <1>1
  <2>2. ~ (n - y < d)
    BY <1>3, <2>1 DEF Less
  <2> QED BY <1>4, <2>2
<1> QED BY <1>5 DEF MaxOf

\* A message's number is its rank in a run of the producer.
LEMMA SequenceTyped ==
  ASSUME Typed, NEW m \in Msg
  PROVE  SequenceOf(m) \in 1..MaxMessages
<1> DEFINE S == {s \in starts : s < m}
<1>1. m \in 1..MaxMessages /\ MaxMessages \in Nat /\ generated \in 0..MaxMessages
  BY ArbiterAssumption DEF Msg, Typed
<1>2. S \in SUBSET (0..MaxMessages) /\ 0 \in S
  <2>1. starts \subseteq 0..MaxMessages /\ 0 \in starts
    BY <1>1 DEF Typed
  <2>2. 0 < m
    BY <1>1
  <2> QED BY <2>1, <2>2
<1>3. MaxOf(S) \in S
  BY <1>1, <1>2, GreatestElement
<1>4. MaxOf(S) \in 0..MaxMessages /\ MaxOf(S) < m
  BY <1>1, <1>2, <1>3
<1> QED BY <1>1, <1>4 DEF SequenceOf

\* Without restarts, messages carry their own number.
LEMMA SequenceAlone ==
  ASSUME starts = {0}, NEW m \in Msg
  PROVE  SequenceOf(m) = m
<1>1. m \in Nat /\ 0 < m
  BY ArbiterAssumption DEF Msg
<1>2. {s \in starts : s < m} = {0}
  BY <1>1
<1>3. MaxOf({0}) = 0
  <2>1. {0} \in SUBSET (0..0)
    OBVIOUS
  <2> QED BY <2>1, GreatestElement
<1> QED BY <1>1, <1>2, <1>3 DEF SequenceOf

\* A restart changes the number of no message generated before it.
LEMMA SequenceStays ==
  ASSUME Typed, starts' = starts \/ starts' = starts \union {generated}, NEW m \in Known
  PROVE  SequenceOf(m)' = SequenceOf(m)
<1>1. m \in Nat /\ m <= generated /\ generated \in Nat
  BY ArbiterAssumption DEF Known, Typed
<1>2. ~(generated < m)
  BY <1>1
<1>3. {s \in starts' : s < m} = {s \in starts : s < m}
  BY <1>2
<1> QED BY <1>3 DEF SequenceOf

----------------------------------------------------------------------------
(* The steps of the pipeline.                                              *)

\* What the passes rely on is not taken back by the pipeline.
LEMMA PipelineLeavesPasses ==
  ASSUME IInv, UNCHANGED pass,
         starts' = starts \/ starts' = starts \union {generated},
         Known \subseteq Known',
         Kept \subseteq Kept', detoured \subseteq detoured', pruned \subseteq pruned'
  PROVE  PassTyped' /\ PassInv'
<1>1. PassTyped'
  BY DEF IInv, PassTyped
<1>2. starts' = {0} => starts = {0}
  BY DEF IInv, Typed
<1>3. ASSUME NEW p \in Pass, pass[p].pc \in {"save", "alert"},
             NEW m \in pass[p].sent \ pass[p].missing
      PROVE  SameNumber(m, Kept)'
  <2>1. m \in Known /\ Kept \subseteq Known
    BY <1>3 DEF IInv, PassTyped, Typed, Kept
  <2>2. SameNumber(m, Kept)
    BY <1>3 DEF IInv, PassInv, Vouches
  <2>3. PICK k \in Kept : SequenceOf(k) = SequenceOf(m)
    BY <2>2 DEF SameNumber
  <2>4. k \in Known
    BY <2>1
  <2>5. SequenceOf(k)' = SequenceOf(k)
    BY <2>4, SequenceStays DEF IInv
  <2>6. SequenceOf(m)' = SequenceOf(m)
    BY <2>1, SequenceStays DEF IInv
  <2> QED BY <2>3, <2>5, <2>6 DEF SameNumber
<1>4. ASSUME NEW p \in Pass
      PROVE  /\ pass[p].pc = "missing" /\ pass[p].known /\ starts' = {0}
                  => pass[p].sent \ detoured' \subseteq Kept'
             /\ pass[p].pc \in {"save", "alert"} => Accuses(pass[p])'
  BY <1>2 DEF IInv, PassInv, Accuses
<1> QED BY <1>1, <1>3, <1>4 DEF PassInv, Vouches

\* A message is appended to the topic after every earlier one that went
\* straight to it.
LEMMA AppendInOrder ==
  ASSUME Typed, InOrder, NEW g, g \in Known', queue' = Append(queue, g),
         Known \subseteq Known', UNCHANGED <<stored, pruned>>,
         Known' \ detoured' \subseteq (Known \ detoured) \union ({g} \ Known),
         Kept \subseteq Known, \A k \in Known : ~(k > g /\ g \notin Known)
  PROVE  queue' \in Seq(Known') /\ InOrder'
<1>1. queue \in Seq(Known) /\ queue \in Seq(Known')
  BY DEF Typed
<1>2. /\ queue' \in Seq(Known')
      /\ Len(queue) \in Nat
      /\ DOMAIN queue = 1..Len(queue)
      /\ DOMAIN queue' = 1..(Len(queue) + 1)
      /\ \A i \in 1..Len(queue) : queue'[i] = queue[i] /\ queue[i] \in Known
      /\ queue'[Len(queue) + 1] = g
  BY <1>1
<1>3. Kept' = Kept
  BY DEF Kept
<1>4. ASSUME NEW m \in Known \ detoured
      PROVE  /\ m \in Kept' \/ \E i \in DOMAIN queue' : queue'[i] = m
             /\ \A k \in Kept' : k > m => m \in Kept'
             /\ \A j \in DOMAIN queue' :
                  queue'[j] > m =>
                    m \in Kept' \/ \E i \in DOMAIN queue' : i < j /\ queue'[i] = m
  <2>1. m \in Kept \/ \E i \in 1..Len(queue) : queue[i] = m
    BY <1>2 DEF InOrder
  <2>2. m \in Kept' \/ \E i \in 1..Len(queue) : queue'[i] = m
    BY <1>2, <1>3, <2>1
  <2>3. \A k \in Kept' : k > m => m \in Kept'
    BY <1>3 DEF InOrder
  <2>4. ASSUME NEW j \in 1..(Len(queue) + 1), queue'[j] > m
        PROVE  m \in Kept' \/ \E i \in 1..(Len(queue) + 1) : i < j /\ queue'[i] = m
    <3>1. CASE j \in 1..Len(queue)
      <4>1. queue[j] > m
        BY <1>2, <2>4, <3>1
      <4>2. m \in Kept \/ \E i \in 1..Len(queue) : i < j /\ queue[i] = m
        BY <1>2, <3>1, <4>1 DEF InOrder
      <4> QED BY <1>2, <1>3, <4>2
    <3>2. CASE j = Len(queue) + 1
      <4>1. \A i \in 1..Len(queue) : i < j /\ i \in 1..(Len(queue) + 1)
        BY <1>2, <3>2
      <4> QED BY <2>2, <4>1
    <3> QED BY <1>2, <3>1, <3>2
  <2> QED BY <1>2, <2>2, <2>3, <2>4
<1>5. ASSUME g \notin Known
      PROVE  /\ g \in Kept' \/ \E i \in DOMAIN queue' : queue'[i] = g
             /\ \A k \in Kept' : k > g => g \in Kept'
             /\ \A j \in DOMAIN queue' :
                  queue'[j] > g =>
                    g \in Kept' \/ \E i \in DOMAIN queue' : i < j /\ queue'[i] = g
  <2>1. Len(queue) + 1 \in DOMAIN queue'
    BY <1>2
  <2>2. \A k \in Kept' : ~(k > g)
    BY <1>3, <1>5
  <2>3. \A j \in 1..Len(queue) : ~(queue'[j] > g)
    BY <1>2, <1>5
  <2>4. ~(g > g)
    BY DEF Known
  <2>5. \A j \in DOMAIN queue' : ~(queue'[j] > g)
    <3>1. \A j \in DOMAIN queue' : j \in 1..Len(queue) \/ j = Len(queue) + 1
      BY <1>2
    <3> QED BY <1>2, <2>3, <2>4, <3>1
  <2> QED BY <1>2, <2>1, <2>2, <2>5
<1>6. ASSUME NEW m \in Known' \ detoured'
      PROVE  m \in Known \ detoured \/ (m = g /\ g \notin Known)
  OBVIOUS
<1> QED BY <1>2, <1>4, <1>5, <1>6 DEF InOrder

\* A new message, to the topic or the buffer.
LEMMA GenerateKeeps ==
  ASSUME IInv, Generate
  PROVE  IInv'
<1> DEFINE g == generated'
<1>1. /\ generated \in Nat /\ g = generated + 1 /\ g \in 1..MaxMessages
      /\ UNCHANGED <<starts, since, stored, pruned, cache, pass>>
  BY ArbiterAssumption DEF Generate, IInv, Typed
<1>2. /\ Known \subseteq Known' /\ g \in Known' /\ g \notin Known
      /\ \A k \in Known : ~(k > g)
      /\ Known' = Known \union {g}
  BY <1>1 DEF Known
<1>3. /\ 0 \in starts' /\ starts' \subseteq 0..generated'
      /\ stored' \subseteq Known' /\ pruned' \subseteq Known'
      /\ buffered \subseteq detoured /\ detoured \subseteq Known
      /\ queue \in Seq(Known) /\ Kept \subseteq Known
  BY <1>1, <1>2 DEF IInv, Typed, Kept
<1>4. /\ buffered' \subseteq detoured' /\ detoured' \subseteq Known' /\ detoured \subseteq detoured'
      /\ Known' \ detoured' \subseteq (Known \ detoured) \union {g}
      /\ \/ queue' = Append(queue, g)
         \/ queue' = queue /\ g \in detoured'
  BY <1>2, <1>3 DEF Generate
<1>5. queue' \in Seq(Known') /\ InOrder'
  <2>1. CASE queue' = Append(queue, g)
    <3>1. Known' \ detoured' \subseteq (Known \ detoured) \union ({g} \ Known)
      BY <1>2, <1>4
    <3> HIDE DEF g
    <3> QED BY <1>1, <1>2, <1>3, <2>1, <3>1, AppendInOrder DEF IInv
  <2>2. CASE queue' = queue /\ g \in detoured'
    <3>1. queue' \in Seq(Known')
      BY <1>2, <1>3, <2>2
    <3>2. Kept' = Kept /\ Known' \ detoured' \subseteq Known \ detoured
      BY <1>1, <1>4, <2>2 DEF Kept
    <3> QED BY <2>2, <3>1, <3>2 DEF IInv, InOrder
  <2> QED BY <1>4, <2>1, <2>2
<1>6. Typed'
  BY <1>1, <1>3, <1>4, <1>5 DEF IInv, Typed
<1>7. MarkReached'
  <2> SUFFICES ASSUME starts = {0}
               PROVE  /\ cache <= g
                      /\ \A m \in Known' \ detoured' : m <= cache => m \in Kept'
    BY <1>1 DEF MarkReached
  <2>1. /\ cache \in Nat /\ cache <= generated
        /\ \A m \in Known \ detoured : m <= cache => m \in Kept
    BY ArbiterAssumption DEF IInv, Typed, MarkReached
  <2>2. ~(g <= cache) /\ cache <= g
    BY <1>1, <2>1
  <2>3. Kept' = Kept
    BY <1>1 DEF Kept
  <2> HIDE DEF g
  <2> QED BY <1>4, <2>1, <2>2, <2>3
<1>8. Kept \subseteq Kept' /\ pruned \subseteq pruned'
  BY <1>1 DEF Kept
<1> QED BY <1>1, <1>2, <1>4, <1>5, <1>6, <1>7, <1>8, PipelineLeavesPasses DEF IInv

\* A buffered message is sent, or evicted.
LEMMA LeaveBufferKeeps ==
  ASSUME IInv, LeaveBuffer
  PROVE  IInv'
<1>1. PICK m \in buffered : /\ buffered' = buffered \ {m}
                            /\ queue' \in {queue, Append(queue, m)}
  BY DEF LeaveBuffer
<1>2. UNCHANGED <<generated, starts, since, detoured, stored, pruned, cache, pass>>
  BY DEF LeaveBuffer
<1>3. Known' = Known /\ Kept' = Kept /\ Kept \subseteq Known /\ m \in Known
  BY <1>1, <1>2 DEF Known, Kept, IInv, Typed
<1>4. queue' \in Seq(Known') /\ InOrder'
  <2>1. CASE queue' = queue
    BY <1>2, <1>3, <2>1 DEF IInv, Typed, InOrder
  <2>2. CASE queue' = Append(queue, m)
    <3>1. Known' \ detoured' \subseteq (Known \ detoured) \union ({m} \ Known)
      BY <1>2, <1>3
    <3> QED BY <1>2, <1>3, <2>2, <3>1, AppendInOrder DEF IInv
  <2> QED BY <1>1, <2>1, <2>2
<1>5. Typed'
  BY <1>1, <1>2, <1>3, <1>4 DEF IInv, Typed
<1>6. MarkReached'
  BY <1>2, <1>3 DEF IInv, MarkReached
<1> QED BY <1>2, <1>3, <1>4, <1>5, <1>6, PipelineLeavesPasses DEF IInv

\* The producer starts again, or forgets its recent messages.
LEMMA RestartKeeps ==
  ASSUME IInv, RestartProducer \/ ResetStats
  PROVE  IInv'
<1>1. /\ UNCHANGED <<generated, buffered, detoured, queue, stored, pruned, cache, pass>>
      /\ since' = generated
      /\ starts' = starts \/ starts' = starts \union {generated}
  BY DEF RestartProducer, ResetStats
<1>2. Known' = Known /\ Kept' = Kept
  BY <1>1 DEF Known, Kept
<1>3. /\ 0 \in starts' /\ starts' \subseteq 0..generated /\ since' \in 0..MaxMessages
      /\ starts' = {0} => starts = {0}
  <2>1. 0 \in starts /\ starts \subseteq 0..generated /\ generated \in 0..MaxMessages
    BY DEF IInv, Typed
  <2>2. generated \in 0..generated
    BY <2>1, ArbiterAssumption
  <2>3. 0 \in starts'
    BY <1>1, <2>1
  <2>4. starts' \subseteq 0..generated
    BY <1>1, <2>1, <2>2
  <2>5. starts' = {0} => starts = {0}
    BY <1>1, <2>1
  <2> QED BY <1>1, <2>1, <2>3, <2>4, <2>5
<1>4. Typed'
  BY <1>1, <1>2, <1>3 DEF IInv, Typed
<1>5. InOrder'
  BY <1>1, <1>2 DEF IInv, InOrder
<1>6. MarkReached'
  BY <1>1, <1>2, <1>3 DEF IInv, MarkReached
<1> QED BY <1>1, <1>2, <1>4, <1>5, <1>6, PipelineLeavesPasses DEF IInv

\* The consumer stores the record at its position.
LEMMA StoreKeeps ==
  ASSUME IInv, Store
  PROVE  IInv'
<1> DEFINE h == Head(queue)
<1>1. /\ UNCHANGED <<generated, starts, since, buffered, detoured, pruned, cache, pass>>
      /\ queue # <<>> /\ stored' = stored \union {h} /\ queue' = Tail(queue)
  BY DEF Store
<1>2. /\ queue \in Seq(Known) /\ Len(queue) \in Nat \ {0}
      /\ h = queue[1] /\ h \in Known
      /\ DOMAIN queue = 1..Len(queue)
      /\ queue' \in Seq(Known)
      /\ DOMAIN queue' = 1..(Len(queue) - 1)
      /\ \A i \in 1..(Len(queue) - 1) : queue'[i] = queue[i + 1]
  BY <1>1 DEF IInv, Typed
<1> HIDE DEF h
<1>3. Known' = Known /\ Kept' = Kept \union {h}
  BY <1>1 DEF Known, Kept
<1>4. Typed'
  BY <1>1, <1>2, <1>3 DEF IInv, Typed
<1>5. ASSUME NEW m \in Known \ detoured
      PROVE  /\ m \in Kept' \/ \E i \in DOMAIN queue' : queue'[i] = m
             /\ \A k \in Kept' : k > m => m \in Kept'
             /\ \A j \in DOMAIN queue' :
                  queue'[j] > m =>
                    m \in Kept' \/ \E i \in DOMAIN queue' : i < j /\ queue'[i] = m
  <2>1. ASSUME NEW i \in 1..Len(queue), queue[i] = m, m # h
        PROVE  i - 1 \in 1..(Len(queue) - 1) /\ queue'[i - 1] = m
    <3>1. i # 1
      BY <1>2, <2>1
    <3>2. i - 1 \in 1..(Len(queue) - 1) /\ (i - 1) + 1 = i
      BY <1>2, <3>1
    <3> QED BY <1>2, <2>1, <3>2
  <2>2. m \in Kept' \/ \E i \in DOMAIN queue' : queue'[i] = m
    <3>1. m \in Kept \/ \E i \in 1..Len(queue) : queue[i] = m
      BY <1>2 DEF IInv, InOrder
    <3> QED BY <1>2, <1>3, <2>1, <3>1
  <2>3. ASSUME h > m PROVE m \in Kept'
    <3>1. 1 \in DOMAIN queue /\ \A i \in DOMAIN queue : ~(i < 1)
      BY <1>2
    <3> QED BY <1>2, <1>3, <2>3, <3>1 DEF IInv, InOrder
  <2>4. \A k \in Kept' : k > m => m \in Kept'
    BY <1>3, <2>3 DEF IInv, InOrder
  <2>5. ASSUME NEW j \in 1..(Len(queue) - 1), queue'[j] > m, m \notin Kept'
        PROVE  \E i \in 1..(Len(queue) - 1) : i < j /\ queue'[i] = m
    <3>1. j + 1 \in 1..Len(queue) /\ queue[j + 1] > m
      BY <1>2, <2>5
    <3>2. PICK i \in 1..Len(queue) : i < j + 1 /\ queue[i] = m
      BY <1>2, <1>3, <2>5, <3>1 DEF IInv, InOrder
    <3>3. i - 1 \in 1..(Len(queue) - 1) /\ queue'[i - 1] = m
      BY <1>3, <2>1, <2>5, <3>2
    <3>4. i - 1 < j
      BY <3>2
    <3> QED BY <3>3, <3>4
  <2> QED BY <1>2, <2>2, <2>4, <2>5
<1>6. InOrder'
  BY <1>1, <1>3, <1>5 DEF InOrder
<1>7. MarkReached'
  BY <1>1, <1>3 DEF IInv, MarkReached
<1> QED BY <1>1, <1>3, <1>4, <1>6, <1>7, PipelineLeavesPasses DEF IInv

\* The retention removes a row.
LEMMA PruneKeeps ==
  ASSUME IInv, Prune
  PROVE  IInv'
<1>1. UNCHANGED <<generated, starts, since, buffered, detoured, queue, cache, pass>>
  BY DEF Prune
<1>2. PICK m \in stored : stored' = stored \ {m} /\ pruned' = pruned \union {m}
  BY DEF Prune
<1>3. Known' = Known /\ Kept' = Kept /\ pruned \subseteq pruned'
  BY <1>1, <1>2 DEF Known, Kept
<1>4. Typed'
  BY <1>1, <1>2, <1>3 DEF IInv, Typed
<1>5. InOrder'
  BY <1>1, <1>3 DEF IInv, InOrder
<1>6. MarkReached'
  BY <1>1, <1>3 DEF IInv, MarkReached
<1> QED BY <1>1, <1>3, <1>4, <1>5, <1>6, PipelineLeavesPasses DEF IInv

\* The consumer's statistics are made: the watermark is a stored message's.
LEMMA RefreshKeeps ==
  ASSUME IInv, RefreshStats
  PROVE  IInv'
<1> DEFINE N == {SequenceOf(m) : m \in stored}
<1>1. UNCHANGED <<generated, starts, since, buffered, detoured, queue, stored, pruned, pass>>
  BY DEF RefreshStats
<1>2. Known' = Known /\ Kept' = Kept
  BY <1>1 DEF Known, Kept
<1>3. MaxMessages \in Nat /\ generated \in Nat /\ Known \subseteq Msg /\ stored \subseteq Known
  BY ArbiterAssumption DEF IInv, Typed, Known, Msg
<1>4. \A m \in stored : SequenceOf(m) \in 1..MaxMessages
  BY <1>3, SequenceTyped DEF IInv
<1>5. CASE stored = {}
  <2>1. cache' = 0
    BY <1>5 DEF RefreshStats
  <2>2. Typed'
    BY <1>1, <1>2, <1>3, <2>1 DEF IInv, Typed
  <2>3. MarkReached'
    <3>1. \A m \in Known : ~(m <= 0)
      BY <1>3 DEF Known
    <3> QED BY <1>1, <1>2, <1>3, <2>1, <3>1 DEF MarkReached
  <2>4. InOrder'
    BY <1>1, <1>2 DEF IInv, InOrder
  <2> QED BY <1>1, <1>2, <2>2, <2>3, <2>4, PipelineLeavesPasses DEF IInv
<1>6. CASE stored # {}
  <2>1. cache' = MaxOf(N)
    BY <1>6 DEF RefreshStats
  <2>2. N \in SUBSET (0..MaxMessages) /\ N # {}
    BY <1>4, <1>6
  <2>3. MaxOf(N) \in N
    BY <1>3, <2>2, GreatestElement
  <2>4. PICK k \in stored : cache' = SequenceOf(k)
    BY <2>1, <2>3
  <2>5. cache' \in 0..MaxMessages
    BY <1>4, <2>4
  <2>6. Typed'
    BY <1>1, <1>2, <2>5 DEF IInv, Typed
  <2>7. InOrder'
    BY <1>1, <1>2 DEF IInv, InOrder
  <2>8. ASSUME starts = {0}
        PROVE  /\ cache' <= generated
               /\ \A m \in Known \ detoured : m <= cache' => m \in Kept
    <3>1. cache' = k /\ k \in Known /\ k \in Kept
      BY <1>3, <2>4, <2>8, SequenceAlone DEF Kept
    <3>2. ASSUME NEW m \in Known \ detoured, m <= k PROVE m \in Kept
      <4>1. m = k \/ k > m
        BY <1>3, <3>1, <3>2 DEF Known
      <4> QED BY <3>1, <4>1 DEF IInv, InOrder
    <3> QED BY <1>3, <3>1, <3>2 DEF Known
  <2>9. MarkReached'
    BY <1>1, <1>2, <2>8 DEF MarkReached
  <2> QED BY <1>1, <1>2, <2>6, <2>7, <2>9, PipelineLeavesPasses DEF IInv
<1> QED BY <1>5, <1>6

----------------------------------------------------------------------------
(* The steps of the passes.                                                *)

\* A pass goes to a state whose claims the pipeline bears out.
LEMMA PassKeeps ==
  ASSUME IInv, UNCHANGED pipelineVars, NEW p \in Pass, NEW st \in PassState,
         pass' = [pass EXCEPT ![p] = st], st.sent \subseteq Known,
         st.pc = "watermark" => ~st.known,
         st.pc = "missing" /\ st.known /\ starts = {0} => st.sent \ detoured \subseteq Kept,
         st.pc \in {"save", "alert"} => Vouches(st) /\ Accuses(st)
  PROVE  IInv'
<1>1. UNCHANGED <<generated, starts, since, buffered, detoured, queue, stored, pruned, cache>>
  BY DEF pipelineVars
<1>2. Known' = Known /\ Kept' = Kept
  BY <1>1 DEF Known, Kept
<1>3. Typed' /\ InOrder' /\ MarkReached'
  <2>1. Typed'
    BY <1>1, <1>2 DEF IInv, Typed
  <2>2. InOrder'
    BY <1>1, <1>2 DEF IInv, InOrder
  <2>3. MarkReached'
    BY <1>1, <1>2 DEF IInv, MarkReached
  <2> QED BY <2>1, <2>2, <2>3
<1>4. /\ pass \in [Pass -> PassState]
      /\ \A q \in Pass : pass'[q] = IF q = p THEN st ELSE pass[q]
      /\ pass' \in [Pass -> PassState]
  BY DEF IInv, PassTyped
<1>5. PassTyped'
  BY <1>2, <1>4 DEF IInv, PassTyped
<1>6. \A m, k : SequenceOf(m) = SequenceOf(k) => SequenceOf(m)' = SequenceOf(k)'
  BY <1>1 DEF SequenceOf
<1>7. ASSUME NEW q \in Pass
      PROVE  /\ pass[q]'.pc = "missing" /\ pass[q]'.known /\ starts' = {0}
                  => pass[q]'.sent \ detoured' \subseteq Kept'
             /\ pass[q]'.pc \in {"save", "alert"} => Vouches(pass[q])' /\ Accuses(pass[q])'
  <2>1. CASE q = p
    <3>1. pass[q]' = st
      BY <1>4, <2>1
    <3>2. st.pc \in {"save", "alert"} => Vouches(pass[q])'
      BY <1>2, <1>6, <3>1 DEF Vouches, SameNumber
    <3>3. st.pc \in {"save", "alert"} => Accuses(pass[q])'
      BY <1>1, <3>1 DEF Accuses
    <3> QED BY <1>1, <1>2, <3>1, <3>2, <3>3
  <2>2. CASE q # p
    <3>1. pass[q]' = pass[q]
      BY <1>4, <2>2
    <3>2. pass[q].pc \in {"save", "alert"} => Vouches(pass[q])'
      BY <1>2, <1>6, <3>1 DEF IInv, PassInv, Vouches, SameNumber
    <3>3. pass[q].pc \in {"save", "alert"} => Accuses(pass[q])'
      BY <1>1, <3>1 DEF IInv, PassInv, Accuses
    <3> QED BY <1>1, <1>2, <3>1, <3>2, <3>3 DEF IInv, PassInv
  <2> QED BY <2>1, <2>2
<1> QED BY <1>3, <1>5, <1>7 DEF IInv, PassInv

\* A pass that ends claims nothing.
LEMMA EndKeeps ==
  ASSUME IInv, UNCHANGED pipelineVars, NEW p \in Pass, pass' = [pass EXCEPT ![p] = NoPass]
  PROVE  IInv'
<1>1. NoPass \in PassState /\ NoPass.sent \subseteq Known /\ NoPass.pc = "idle"
  BY DEF NoPass, PassState
<1> QED BY <1>1, PassKeeps

\* A pass that begins claims nothing.
LEMMA BeginKeeps ==
  ASSUME IInv, NEW p \in Pass, BeginPass(p)
  PROVE  IInv'
<1>1. At("recent") \in PassState /\ At("recent").sent \subseteq Known /\ At("recent").pc = "recent"
  BY DEF At, NoPass, PassState
<1> QED BY <1>1, PassKeeps DEF BeginPass, PassGoes

\* The sequences the producer reports are of messages it generated.
LEMMA FetchSentKeeps ==
  ASSUME IInv, NEW p \in Pass, FetchSent(p)
  PROVE  IInv'
<1> DEFINE st == [At("watermark") EXCEPT !.sent = Recent]
<1>1. UNCHANGED pipelineVars /\ pass' = [pass EXCEPT ![p] = IF Recent = {} THEN NoPass ELSE st]
  BY DEF FetchSent, PassGoes
<1>2. Recent \subseteq Known /\ Recent \subseteq Msg
  BY ArbiterAssumption DEF Recent, Known, Msg, IInv, Typed
<1>3. st \in PassState /\ st.sent = Recent /\ st.pc = "watermark" /\ ~st.known
  BY <1>2 DEF At, NoPass, PassState
<1> HIDE DEF st
<1>4. CASE Recent = {}
  BY <1>1, <1>4, EndKeeps
<1>5. CASE Recent # {}
  BY <1>1, <1>2, <1>3, <1>5, PassKeeps
<1> QED BY <1>4, <1>5

\* What is compared against a watermark has been received, or was held back.
LEMMA FetchWatermarkKeeps ==
  ASSUME IInv, NEW p \in Pass, FetchWatermark(p)
  PROVE  IInv'
<1> DEFINE sent == Eligible(pass[p].sent, cache)
           blind == [pass[p] EXCEPT !.pc = "missing"]
           st == [At("missing") EXCEPT !.sent = sent, !.known = TRUE]
<1>1. /\ UNCHANGED pipelineVars
      /\ pass[p].pc = "watermark"
      /\ pass' = [pass EXCEPT ![p] = IF cache = 0 THEN blind
                                     ELSE IF sent = {} THEN NoPass ELSE st]
  BY DEF FetchWatermark, PassGoes
<1>2. pass[p] \in PassState /\ pass[p].sent \subseteq Known
  BY DEF IInv, PassTyped
<1>3. sent \subseteq pass[p].sent /\ sent \subseteq Msg
  BY <1>2 DEF Eligible, PassState
<1>4. st \in PassState /\ st.sent = sent /\ st.pc = "missing"
  BY <1>3 DEF At, NoPass, PassState
<1>5. CASE cache = 0
  <2>1. /\ blind \in PassState /\ blind.pc = "missing"
        /\ blind.sent = pass[p].sent /\ blind.known = pass[p].known
    BY <1>2 DEF PassState
  <2>2. ~blind.known
    BY <1>1, <2>1 DEF IInv, PassTyped
  <2> HIDE DEF blind
  <2> QED BY <1>1, <1>2, <1>5, <2>1, <2>2, PassKeeps
<1>6. CASE cache # 0
  <2>1. ASSUME starts = {0} PROVE sent \ detoured \subseteq Kept
    <3> SUFFICES ASSUME NEW m \in sent, m \notin detoured PROVE m \in Kept
      OBVIOUS
    <3>1. m \in Known /\ m \in Msg /\ SequenceOf(m) <= cache
      BY <1>2, <1>3 DEF Eligible
    <3>2. m <= cache
      BY <2>1, <3>1, SequenceAlone
    <3> QED BY <2>1, <3>1, <3>2 DEF IInv, MarkReached
  <2> HIDE DEF sent, st
  <2>2. CASE sent = {}
    BY <1>1, <1>6, <2>2, EndKeeps
  <2>3. CASE sent # {}
    BY <1>1, <1>2, <1>3, <1>4, <1>6, <2>1, <2>3, PassKeeps
  <2> QED BY <2>2, <2>3
<1> QED BY <1>5, <1>6


\* What the consumer does not call missing is stored; what it does is not, and
\* was never received or has been pruned.
LEMMA FetchMissingKeeps ==
  ASSUME IInv, NEW p \in Pass, FetchMissing(p)
  PROVE  IInv'
<1> DEFINE sent == pass[p].sent
           lost == sent \ Received(sent)
           st == [pass[p] EXCEPT !.pc = "save", !.missing = lost]
<1>1. UNCHANGED pipelineVars /\ pass[p].pc = "missing" /\ pass' = [pass EXCEPT ![p] = st]
  BY DEF FetchMissing, PassGoes
<1>2. pass[p] \in PassState /\ sent \subseteq Known
  BY DEF IInv, PassTyped
<1>3. /\ st \in PassState /\ st.pc = "save" /\ st.sent = sent /\ st.missing = lost
      /\ st.known = pass[p].known /\ st.answered = pass[p].answered
  BY <1>2 DEF PassState
<1>4. Vouches(st)
  <2> HIDE DEF st, lost
  <2>1. \A m \in sent \ lost : m \in Received(sent)
    BY DEF lost
  <2> QED BY <1>3, <2>1 DEF Vouches, Received, SameNumber, Kept
<1>5. Accuses(st)
  <2> SUFFICES ASSUME pass[p].known, starts = {0}, NEW m \in lost, m \notin detoured
               PROVE  m \in pruned
    BY <1>3 DEF Accuses
  <2>1. m \in sent /\ m \notin Received(sent)
    OBVIOUS
  <2>2. m \in Kept
    BY <1>1, <2>1 DEF IInv, PassInv
  <2>3. m \notin stored
    BY <2>1 DEF Received
  <2> QED BY <2>2, <2>3 DEF Kept
<1> HIDE DEF st
<1> QED BY <1>1, <1>2, <1>3, <1>4, <1>5, PassKeeps

\* Without an answer everything is called missing, and nothing is vouched for.
LEMMA FetchFailsKeeps ==
  ASSUME IInv, NEW p \in Pass, FetchFails(p)
  PROVE  IInv'
<1> DEFINE blind == [pass[p] EXCEPT !.pc = "missing"]
           st == [pass[p] EXCEPT !.pc = "save", !.missing = pass[p].sent, !.answered = FALSE]
<1>1. /\ UNCHANGED pipelineVars
      /\ \/ pass' = [pass EXCEPT ![p] = NoPass]
         \/ pass[p].pc = "watermark" /\ pass' = [pass EXCEPT ![p] = blind]
         \/ pass[p].pc = "missing" /\ pass' = [pass EXCEPT ![p] = st]
  BY DEF FetchFails, PassGoes
<1>2. pass[p] \in PassState /\ pass[p].sent \subseteq Known
  BY DEF IInv, PassTyped
<1>3. /\ blind \in PassState /\ blind.pc = "missing"
      /\ blind.sent = pass[p].sent /\ blind.known = pass[p].known
  BY <1>2 DEF PassState
<1>4. /\ st \in PassState /\ st.pc = "save" /\ st.sent = pass[p].sent
      /\ st.missing = pass[p].sent /\ st.answered = FALSE
  BY <1>2 DEF PassState
<1> HIDE DEF blind, st
<1>5. CASE pass' = [pass EXCEPT ![p] = NoPass]
  BY <1>1, <1>5, EndKeeps
<1>6. CASE pass[p].pc = "watermark" /\ pass' = [pass EXCEPT ![p] = blind]
  <2>1. ~blind.known
    BY <1>3, <1>6 DEF IInv, PassTyped
  <2> QED BY <1>1, <1>2, <1>3, <1>6, <2>1, PassKeeps
<1>7. CASE pass[p].pc = "missing" /\ pass' = [pass EXCEPT ![p] = st]
  <2>1. Vouches(st)
    BY <1>4 DEF Vouches
  <2>2. Accuses(st)
    BY <1>4 DEF Accuses
  <2> QED BY <1>1, <1>2, <1>4, <1>7, <2>1, <2>2, PassKeeps
<1> QED BY <1>1, <1>5, <1>6, <1>7

\* A saved audit claims what it claimed before.
LEMMA SaveKeeps ==
  ASSUME IInv, NEW p \in Pass, Save(p)
  PROVE  IInv'
<1> DEFINE st == [pass[p] EXCEPT !.pc = "alert"]
<1>1. /\ UNCHANGED pipelineVars /\ pass[p].pc = "save"
      /\ \/ pass' = [pass EXCEPT ![p] = NoPass]
         \/ pass' = [pass EXCEPT ![p] = st]
  BY DEF Save, PassGoes
<1>2. pass[p] \in PassState /\ pass[p].sent \subseteq Known
  BY DEF IInv, PassTyped
<1>3. /\ st \in PassState /\ st.pc = "alert"
      /\ st.sent = pass[p].sent /\ st.missing = pass[p].missing
      /\ st.known = pass[p].known /\ st.answered = pass[p].answered
  BY <1>2 DEF PassState
<1>4. Vouches(pass[p]) /\ Accuses(pass[p])
  BY <1>1 DEF IInv, PassInv
<1> HIDE DEF st
<1>5. Vouches(st) /\ Accuses(st)
  BY <1>3, <1>4 DEF Vouches, Accuses
<1>6. CASE pass' = [pass EXCEPT ![p] = NoPass]
  BY <1>1, <1>6, EndKeeps
<1>7. CASE pass' = [pass EXCEPT ![p] = st]
  BY <1>1, <1>2, <1>3, <1>5, <1>7, PassKeeps
<1> QED BY <1>1, <1>6, <1>7

----------------------------------------------------------------------------
(* The invariant, and what follows from it.                                *)

\* Before anything was generated, nothing is claimed.
LEMMA InvInit == Init => IInv
<1> SUFFICES ASSUME Init PROVE IInv
  OBVIOUS
<1>1. /\ generated = 0 /\ starts = {0} /\ since = 0 /\ buffered = {} /\ detoured = {}
      /\ queue = <<>> /\ stored = {} /\ pruned = {} /\ cache = 0
      /\ pass = [p \in Pass |-> NoPass]
  BY DEF Init
<1>2. Known = {}
  BY <1>1 DEF Known
<1>3. Typed
  BY <1>1, <1>2, ArbiterAssumption DEF Typed
<1>4. NoPass \in PassState /\ NoPass.sent = {} /\ NoPass.pc = "idle"
  BY DEF NoPass, PassState
<1>5. PassTyped /\ PassInv
  BY <1>1, <1>4 DEF PassTyped, PassInv
<1>6. InOrder
  BY <1>2 DEF InOrder
<1>7. MarkReached
  BY <1>1, <1>2 DEF MarkReached
<1> QED BY <1>3, <1>5, <1>6, <1>7 DEF IInv

\* Every step of the pipeline, of a pass and of the service keeps it.
LEMMA InvStep == IInv /\ [Next]_vars => IInv'
<1> SUFFICES ASSUME IInv, [Next]_vars PROVE IInv'
  OBVIOUS
<1>1. ASSUME UNCHANGED pipelineVars, UNCHANGED pass PROVE IInv'
  <2>1. UNCHANGED <<generated, starts, since, buffered, detoured, queue, stored, pruned, cache>>
    BY <1>1 DEF pipelineVars
  <2>2. Known' = Known /\ Kept' = Kept
    BY <2>1 DEF Known, Kept
  <2>3. Typed'
    BY <2>1, <2>2 DEF IInv, Typed
  <2>4. InOrder' /\ MarkReached'
    BY <2>1, <2>2 DEF IInv, InOrder, MarkReached
  <2>5. PassTyped' /\ PassInv'
    BY <1>1, <2>1, <2>2, PipelineLeavesPasses
  <2> QED BY <2>3, <2>4, <2>5 DEF IInv
<1>2. CASE UNCHANGED vars
  BY <1>1, <1>2 DEF vars
<1>3. CASE Generate
  BY <1>3, GenerateKeeps
<1>4. CASE LeaveBuffer
  BY <1>4, LeaveBufferKeeps
<1>5. CASE RestartProducer \/ ResetStats
  BY <1>5, RestartKeeps
<1>6. CASE Store
  BY <1>6, StoreKeeps
<1>7. CASE Prune
  BY <1>7, PruneKeeps
<1>8. CASE RefreshStats
  BY <1>8, RefreshKeeps
<1>9. ASSUME NEW p \in Pass, BeginPass(p) \/ PassStep(p) PROVE IInv'
  <2>1. CASE BeginPass(p)
    BY <2>1, BeginKeeps
  <2>2. CASE FetchSent(p)
    BY <2>2, FetchSentKeeps
  <2>3. CASE FetchWatermark(p)
    BY <2>3, FetchWatermarkKeeps
  <2>4. CASE FetchMissing(p)
    BY <2>4, FetchMissingKeeps
  <2>5. CASE FetchFails(p)
    BY <2>5, FetchFailsKeeps
  <2>6. CASE Save(p)
    BY <2>6, SaveKeeps
  <2>7. CASE Alert(p) \/ PassFails(p)
    BY <2>7, EndKeeps DEF Alert, PassFails, PassGoes
  <2> QED BY <1>9, <2>1, <2>2, <2>3, <2>4, <2>5, <2>6, <2>7 DEF PassStep
<1>10. CASE Start
  BY <1>1, <1>10 DEF Start
<1>11. CASE Stop
  <2>1. "loop" \in Pass
    BY DEF Pass
  <2> QED BY <1>11, <2>1, EndKeeps DEF Stop
<1> QED BY <1>2, <1>3, <1>4, <1>5, <1>6, <1>7, <1>8, <1>9, <1>10, <1>11 DEF Next

\* Whatever the overlap of passes and pipeline, the strengthening holds.
THEOREM Safety == Spec => []IInv
<1> QED BY InvInit, InvStep, PTL DEF Spec

Flags == running \in BOOLEAN /\ http \in BOOLEAN

\* The state has its type, and the watermark the consumer serves, its cached
\* MAX(sequence), is a number even when no row is left.
THEOREM TypeCorrect == Spec => []TypeOK
<1>1. Init => Flags
  BY DEF Init, Flags
<1>2. Flags /\ [Next]_vars => Flags'
  BY DEF Flags, Next, vars, Generate, LeaveBuffer, RestartProducer, ResetStats, Store, Prune,
         RefreshStats, BeginPass, PassStep, FetchSent, FetchWatermark, FetchMissing, FetchFails,
         Save, Alert, PassFails, PassGoes, Start, Stop
<1>3. IInv /\ Flags => TypeOK
  <2> SUFFICES ASSUME IInv, Flags PROVE TypeOK
    OBVIOUS
  <2>1. /\ MaxMessages \in Nat /\ generated \in 0..MaxMessages /\ since \in 0..MaxMessages
        /\ cache \in 0..MaxMessages /\ starts \subseteq 0..generated
    BY ArbiterAssumption DEF IInv, Typed
  <2>2. starts \subseteq 0..MaxMessages /\ Known \subseteq Msg
    BY <2>1 DEF Known, Msg
  <2>3. queue \in Seq(Msg)
    BY <2>2 DEF IInv, Typed
  <2>4. /\ buffered \subseteq detoured /\ detoured \subseteq Msg
        /\ stored \subseteq Msg /\ pruned \subseteq Msg
    BY <2>2 DEF IInv, Typed
  <2>5. pass \in [Pass -> PassState]
    BY DEF IInv, PassTyped
  <2> QED BY <2>1, <2>2, <2>3, <2>4, <2>5 DEF TypeOK, Flags
<1> QED BY Safety, <1>1, <1>2, <1>3, PTL DEF Spec

\* An audit does not list a message as missing only if the consumer stored it,
\* or one of an earlier run of the producer under its number: no failed call,
\* stale watermark or overlapping pass makes a loss look like a delivery.
THEOREM OnlyTheStoredIsVouchedFor == Spec => []VouchedWasStored
<1>1. IInv => VouchedWasStored
  BY DEF IInv, PassInv, Vouches, VouchedWasStored, Audits, Kept
<1> QED BY Safety, <1>1, PTL

\* With a watermark and an answer from the consumer, a pass accuses only what
\* was held back in the producer's buffer or pruned since.
THEOREM OnlyTheDetouredIsAccused == Spec => []OnlyDetouredIsMissing
<1>1. IInv => OnlyDetouredIsMissing
  BY DEF IInv, PassInv, Accuses, OnlyDetouredIsMissing, Audits
<1> QED BY Safety, <1>1, PTL
=============================================================================
