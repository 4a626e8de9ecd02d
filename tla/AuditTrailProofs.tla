-------------------------- MODULE AuditTrailProofs --------------------------
(***************************************************************************)
(* Whatever the arbiter tells of its audits is kept, and a pass leaves out *)
(* only what it could not reach, or what the arbiter's own stop() cut off: *)
(* for every number of producers and passes, however passes overlap, the   *)
(* loop is stopped, the process dies and the database fails.               *)
(***************************************************************************)
EXTENDS AuditTrail, TLAPS

USE DEF pastVars, storeVars, clientVars

Call == [op : {"insert", "commit"}, audit : Audit]

\* TypeOK but for the Booleans, which no step confuses.
Typed ==
  /\ passes \in 0..MaxPasses
  /\ upsets \in 0..MaxUpsets
  /\ token \in Token
  /\ pass \in [Pass -> PassState]
  /\ calls \in Seq(Call)
  /\ rows \subseteq Audit
  /\ cut \subseteq Audit
  /\ last \in [run : 0..MaxPasses, audits : SUBSET Audit, excused : SUBSET Producer]
  /\ pushed \in 0..MaxPasses

\* A pass in progress has a number.
Numbered == \A p \in Pass : pass[p].pc # "idle" => pass[p].run \in 1..MaxPasses

\* A COMMIT is queued only after its row's INSERT; committed rows stay; and
\* what is told is committed.
Kept ==
  /\ disk \subseteq rows
  /\ \A i \in 1..Len(calls) : calls[i].op = "commit" => calls[i].audit \in rows
  /\ last.audits \subseteq disk
  /\ \A p \in Pass :
       /\ pass[p].audits \subseteq disk
       /\ pass[p].pc = "alert" => <<pass[p].run, pass[p].at>> \in disk

\* A pass in progress has dealt with a producer, given the audits cut off.
Dealt(s, u, c) == <<s.run, u>> \in s.audits \union c \/ u \in s.excused

\* A pass has dealt with the producers before the one it is at, and retries
\* with a token of that one or none.
Through(s, c) ==
  /\ \A u \in Producer : u < s.at => Dealt(s, u, c)
  /\ s.pc = "next" => Dealt(s, s.at, c)
  /\ s.pc = "reget" => s.tok \in {NoToken, s.at}

AllThrough ==
  /\ \A p \in Pass : Through(pass[p], cut)
  /\ OnlyTheUnreachedAreLeftOut

SafeInv == Typed /\ Numbered /\ Kept

----------------------------------------------------------------------------
(* A pass's state.                                                         *)

\* A pass's state, given by its fields.
State(pc, run, at, tok, audits, excused) ==
  [pc |-> pc, run |-> run, at |-> at, tok |-> tok, audits |-> audits, excused |-> excused]

\* A record with these fields and no others.
Shape(t) ==
  /\ DOMAIN t = {"pc", "run", "at", "tok", "audits", "excused"}
  /\ t = [i \in DOMAIN t |-> t[i]]

\* A record is given by its fields.
LEMMA ByFields ==
  ASSUME NEW t, Shape(t)
  PROVE  t = State(t.pc, t.run, t.at, t.tok, t.audits, t.excused)
  BY DEF Shape, State

\* What To makes of the fields.
LEMMA ToFields ==
  ASSUME NEW s \in PassState, NEW pc, NEW tok
  PROVE  To(s, pc, tok) = State(pc, s.run, s.at, tok, s.audits, s.excused)
<1> DEFINE t == To(s, pc, tok)
<1>1. /\ t.pc = pc /\ t.tok = tok /\ t.run = s.run /\ t.at = s.at
      /\ t.audits = s.audits /\ t.excused = s.excused
  BY DEF PassState, To
<1>2. Shape(t)
  BY DEF PassState, Shape, To
<1>3. t = State(t.pc, t.run, t.at, t.tok, t.audits, t.excused)
  BY <1>2, ByFields
<1> QED BY <1>1, <1>3

\* What the other operators on a pass's state make of the fields.
LEMMA StateMoves ==
  ASSUME NEW s \in PassState
  PROVE  /\ Skipped(s) = State("next", s.run, s.at, NoToken, s.audits, s.excused)
         /\ Excused(s) =
              State("next", s.run, s.at, NoToken, s.audits, s.excused \union {s.at})
         /\ Audited(s) =
              State("next", s.run, s.at, NoToken, s.audits \union {<<s.run, s.at>>}, s.excused)
         /\ \A u : Ask(s, u) =
              State(IF token = NoToken THEN "login" ELSE "get", s.run, u, token,
                    s.audits, s.excused)
<1>1. Skipped(s) = State("next", s.run, s.at, NoToken, s.audits, s.excused)
  BY ToFields DEF Skipped
<1>2. Excused(s) = State("next", s.run, s.at, NoToken, s.audits, s.excused \union {s.at})
  BY <1>1 DEF Excused, State
<1>3. Audited(s) =
        State("next", s.run, s.at, NoToken, s.audits \union {<<s.run, s.at>>}, s.excused)
  BY <1>1 DEF Audited, State
<1>4. ASSUME NEW u PROVE Ask(s, u) =
        State(IF token = NoToken THEN "login" ELSE "get", s.run, u, token,
              s.audits, s.excused)
  <2>1. To(s, IF token = NoToken THEN "login" ELSE "get", token) =
          State(IF token = NoToken THEN "login" ELSE "get", s.run, s.at, token,
                s.audits, s.excused)
    BY ToFields
  <2> QED BY <2>1 DEF Ask, State
<1> QED BY <1>1, <1>2, <1>3, <1>4

\* The type of such a state.
LEMMA StateTyped ==
  ASSUME NEW pc \in {"idle", "login", "get", "relogin", "reget", "compare", "insert",
                     "commit", "alert", "next"},
         NEW run \in 0..MaxPasses, NEW at \in Producer, NEW tok \in Token,
         NEW audits \in SUBSET Audit, NEW excused \in SUBSET Producer
  PROVE  State(pc, run, at, tok, audits, excused) \in PassState
  BY DEF State, PassState

\* The fields of such a state.
LEMMA StateFields ==
  \A pc, run, at, tok, audits, excused :
    LET s == State(pc, run, at, tok, audits, excused)
    IN  /\ s.pc = pc /\ s.run = run /\ s.at = at
        /\ s.tok = tok /\ s.audits = audits /\ s.excused = excused
  BY DEF State

\* NoPass is the state of a pass.
LEMMA NoPassTyped == NoPass \in PassState
  BY AuditTrailAssumption DEF NoPass, PassState, Token, NoToken, Producer, Audit

\* One pass moves, the other does not.
LEMMA OneMoves ==
  ASSUME pass \in [Pass -> PassState], NEW p \in Pass, NEW s, Goes(p, s)
  PROVE  /\ pass'[p] = s
         /\ \A q \in Pass \ {p} : pass'[q] = pass[q]
         /\ s \in PassState => pass' \in [Pass -> PassState]
<1>1. pass' = [pass EXCEPT ![p] = s]
  BY DEF Goes
<1>2. pass'[p] = s
  BY <1>1
<1>3. \A q \in Pass \ {p} : pass'[q] = pass[q]
  BY <1>1
<1>4. s \in PassState => pass' \in [Pass -> PassState]
  BY <1>1
<1> QED BY <1>2, <1>3, <1>4

\* What a step of a pass, begun or not, makes of the pass's state: a state of
\* the right type that tells of nothing new but an audit just committed.
Sound(s, t) ==
  /\ t \in PassState
  /\ t.pc # "idle" => t.run \in 1..MaxPasses
  /\ t.pc # "alert"
  /\ t.audits \subseteq s.audits \union {<<s.run, s.at>>}
  /\ t.audits # s.audits => t.audits = {} \/ s.pc = "alert"

\* The moves of a pass in progress are sound.
LEMMA SoundMoves ==
  ASSUME NEW s \in PassState, s.run \in 1..MaxPasses, token \in Token
  PROVE  /\ Sound(s, Skipped(s))
         /\ Sound(s, Excused(s))
         /\ s.pc = "alert" => Sound(s, Audited(s))
         /\ \A u \in Producer : Sound(s, Ask(s, u))
         /\ \A pc \in {"get", "relogin", "reget", "compare", "insert"} : \A tok \in Token :
              Sound(s, To(s, pc, tok))
<1>1. /\ s.at \in Producer /\ s.audits \in SUBSET Audit /\ s.excused \in SUBSET Producer
      /\ s.run \in 0..MaxPasses /\ s.tok \in Token
  BY DEF PassState
<1>2. NoToken \in Token
  BY DEF Token
<1>3. /\ s.excused \union {s.at} \in SUBSET Producer
      /\ s.audits \union {<<s.run, s.at>>} \in SUBSET Audit
  BY <1>1 DEF Audit
<1>4. ASSUME NEW pc \in {"login", "get", "relogin", "reget", "compare", "insert", "next"},
             NEW at \in Producer, NEW tok \in Token, NEW excused \in SUBSET Producer
      PROVE  Sound(s, State(pc, s.run, at, tok, s.audits, excused))
  <2>1. State(pc, s.run, at, tok, s.audits, excused) \in PassState
    BY <1>1, StateTyped
  <2> QED BY <2>1, StateFields DEF Sound
<1>5. Sound(s, Skipped(s))
  <2>1. Sound(s, State("next", s.run, s.at, NoToken, s.audits, s.excused))
    BY <1>1, <1>2, <1>4
  <2> QED BY <2>1, StateMoves
<1>6. Sound(s, Excused(s))
  <2>1. Sound(s, State("next", s.run, s.at, NoToken, s.audits, s.excused \union {s.at}))
    BY <1>1, <1>2, <1>3, <1>4
  <2> QED BY <2>1, StateMoves
<1>7. ASSUME s.pc = "alert" PROVE Sound(s, Audited(s))
  <2> DEFINE t == State("next", s.run, s.at, NoToken, s.audits \union {<<s.run, s.at>>},
                        s.excused)
  <2>1. t \in PassState
    BY <1>1, <1>2, <1>3, StateTyped
  <2>2. Sound(s, t)
    BY <1>7, <2>1, StateFields DEF Sound
  <2> QED BY <2>2, StateMoves
<1>8. ASSUME NEW u \in Producer PROVE Sound(s, Ask(s, u))
  <2>1. Ask(s, u) = State(IF token = NoToken THEN "login" ELSE "get", s.run, u, token,
                          s.audits, s.excused)
    BY StateMoves
  <2> QED BY <1>1, <1>4, <2>1
<1>9. ASSUME NEW pc \in {"get", "relogin", "reget", "compare", "insert"}, NEW tok \in Token
      PROVE  Sound(s, To(s, pc, tok))
  <2>1. Sound(s, State(pc, s.run, s.at, tok, s.audits, s.excused))
    BY <1>1, <1>4
  <2> QED BY <2>1, ToFields
<1> QED BY <1>5, <1>6, <1>7, <1>8, <1>9

\* Every step of a pass makes a sound move.
LEMMA PassMoves ==
  ASSUME Typed, Numbered, NEW p \in Pass, BeginPass(p) \/ PassStep(p)
  PROVE  \E t : Goes(p, t) /\ Sound(pass[p], t)
<1> DEFINE s == pass[p]
<1>1. s \in PassState /\ (s.pc # "idle" => s.run \in 1..MaxPasses) /\ token \in Token
  BY DEF Typed, Numbered
<1>2. s.at \in Producer /\ s.at \in Token /\ NoToken \in Token
  BY <1>1 DEF PassState, Token
<1>3. CASE BeginPass(p)
  <2> DEFINE b == [NoPass EXCEPT !.run = passes']
             c == State(IF token = NoToken THEN "login" ELSE "get", passes', 1, token, {}, {})
  <2>1. passes' \in 1..MaxPasses /\ Goes(p, Ask(b, 1))
    BY <1>3, AuditTrailAssumption DEF BeginPass, Typed
  <2>2. b = State("idle", passes', 1, NoToken, {}, {})
    BY DEF NoPass, State
  <2>3. 1 \in Producer /\ passes' \in 0..MaxPasses
    BY <2>1, AuditTrailAssumption DEF Producer
  <2>4. b \in PassState
    BY <1>2, <2>2, <2>3, StateTyped
  <2>5. Ask(b, 1) = State(IF token = NoToken THEN "login" ELSE "get", b.run, 1, token,
                          b.audits, b.excused)
    BY <2>4, StateMoves
  <2>6. b.run = passes' /\ b.audits = {} /\ b.excused = {}
    BY DEF NoPass
  <2>7. Ask(b, 1) = c
    BY <2>5, <2>6
  <2>8. c \in PassState
    BY <1>1, <2>3, StateTyped
  <2>9. c.run = passes' /\ c.audits = {} /\ c.pc \in {"login", "get"}
    BY StateFields
  <2>10. Sound(s, c)
    BY <2>1, <2>8, <2>9 DEF Sound
  <2> QED BY <2>1, <2>7, <2>10
<1>4. CASE PassStep(p)
  <2>1. s.pc # "idle"
    BY <1>4 DEF PassStep, Login, Accepted, Unauthorized, RefusedAgain, Compare,
                CannotCompare, ClientClosed, Alert, NextProducer, EndPass
  <2> HIDE DEF s
  <2>2. /\ Sound(s, Skipped(s))
        /\ Sound(s, Excused(s))
        /\ s.pc = "alert" => Sound(s, Audited(s))
        /\ \A u \in Producer : Sound(s, Ask(s, u))
        /\ \A pc \in {"get", "relogin", "reget", "compare", "insert"} : \A tok \in Token :
             Sound(s, To(s, pc, tok))
    BY <1>1, <2>1, SoundMoves
  <2>3. Sound(s, NoPass)
    BY NoPassTyped DEF Sound, NoPass
  <2> USE DEF s
  <2>4. CASE Login(p)
    <3>1. PICK tok \in {NoToken, s.at} :
            Goes(p, To(s, IF s.pc = "login" THEN "get" ELSE "reget", tok))
      BY <2>4 DEF Login
    <3> QED BY <1>2, <2>2, <3>1
  <2>5. CASE Accepted(p, "get") \/ Accepted(p, "reget")
    BY <1>2, <2>2, <2>5 DEF Accepted
  <2>6. CASE Unauthorized(p)
    BY <1>2, <2>2, <2>6 DEF Unauthorized
  <2>7. CASE RefusedAgain(p)
    BY <2>2, <2>7 DEF RefusedAgain
  <2>8. CASE Compare(p)
    BY <1>2, <2>2, <2>8 DEF Compare
  <2>9. CASE CannotCompare(p) \/ ClientClosed(p)
    BY <2>2, <2>9 DEF CannotCompare, ClientClosed
  <2>10. CASE Alert(p)
    BY <2>2, <2>10 DEF Alert
  <2>11. CASE NextProducer(p)
    <3>1. s.at + 1 \in Producer
      BY <1>2, <2>11, AuditTrailAssumption DEF NextProducer, Producer
    <3>2. Sound(s, Ask(s, s.at + 1))
      BY <2>2, <3>1
    <3> QED BY <2>11, <3>2 DEF NextProducer
  <2>12. CASE EndPass(p)
    BY <2>3, <2>12 DEF EndPass
  <2> QED BY <1>4, <2>4, <2>5, <2>6, <2>7, <2>8, <2>9, <2>10, <2>11, <2>12 DEF PassStep
<1> QED BY <1>3, <1>4

----------------------------------------------------------------------------
(* The queue of the database's thread.                                     *)

\* Taking the first call off the queue.
LEMMA TakeCall ==
  ASSUME calls \in Seq(Call), calls # <<>>
  PROVE  /\ Head(calls) \in Call
         /\ Head(calls) = calls[1] /\ 1 \in 1..Len(calls)
         /\ Tail(calls) \in Seq(Call)
         /\ Len(Tail(calls)) = Len(calls) - 1 /\ Len(calls) \in Nat
         /\ \A i \in 1..Len(Tail(calls)) :
              Tail(calls)[i] = calls[i + 1] /\ i + 1 \in 1..Len(calls)
<1>1. Len(calls) \in Nat \ {0}
  OBVIOUS
<1>2. Head(calls) = calls[1] /\ 1 \in 1..Len(calls) /\ Head(calls) \in Call
  BY <1>1
<1>3. Tail(calls) \in Seq(Call) /\ Len(Tail(calls)) = Len(calls) - 1
  OBVIOUS
<1>4. \A i \in 1..Len(Tail(calls)) : Tail(calls)[i] = calls[i + 1] /\ i + 1 \in 1..Len(calls)
  BY <1>1, <1>3
<1> QED BY <1>1, <1>2, <1>3, <1>4

\* Putting a call at the end of a queue.
LEMMA AddCall ==
  ASSUME NEW q \in Seq(Call), NEW c \in Call
  PROVE  /\ Append(q, c) \in Seq(Call)
         /\ \A i \in 1..Len(Append(q, c)) :
              Append(q, c)[i] = c \/ (i \in 1..Len(q) /\ Append(q, c)[i] = q[i])
<1>1. Append(q, c) \in Seq(Call) /\ Len(Append(q, c)) = Len(q) + 1 /\ Len(q) \in Nat
  OBVIOUS
<1>2. ASSUME NEW i \in 1..Len(Append(q, c))
      PROVE  Append(q, c)[i] = c \/ (i \in 1..Len(q) /\ Append(q, c)[i] = q[i])
  <2>1. i \in 1..Len(q) \/ i = Len(q) + 1
    BY <1>1
  <2> QED BY <2>1
<1> QED BY <1>1, <1>2

\* What each of the three makes of the state of a pass that waited for the call:
\* it told of nothing before, and tells of its own audit at most.
LEMMA WaiterMoves ==
  ASSUME Typed, Numbered, NEW c, NEW p \in Waiting(c), c.op # "idle"
  PROVE  LET s == pass[p] IN
         /\ s \in PassState /\ s.run \in 1..MaxPasses /\ c.audit = <<s.run, s.at>>
         /\ \A t \in {To(s, "commit", NoToken), To(s, "alert", NoToken),
                      Audited(s), Excused(s)} :
              /\ t \in PassState
              /\ t.run = s.run /\ t.at = s.at
              /\ t.audits \subseteq s.audits \union {<<s.run, s.at>>}
         /\ \A t \in {To(s, "commit", NoToken), Excused(s)} :
              t.pc # "alert" /\ t.audits = s.audits
<1> DEFINE s == pass[p]
<1>1. s \in PassState /\ s.run \in 1..MaxPasses /\ c.audit = <<s.run, s.at>>
  BY DEF Waiting, Typed, Numbered
<1> HIDE DEF s
<1>2. /\ s.at \in Producer /\ s.audits \in SUBSET Audit /\ s.excused \in SUBSET Producer
      /\ s.run \in 0..MaxPasses /\ NoToken \in Token
  BY <1>1 DEF PassState, Token
<1>3. /\ s.excused \union {s.at} \in SUBSET Producer
      /\ s.audits \union {<<s.run, s.at>>} \in SUBSET Audit
  BY <1>1, <1>2 DEF Audit
<1>4. To(s, "commit", NoToken) = State("commit", s.run, s.at, NoToken, s.audits, s.excused)
  BY <1>1, ToFields
<1>5. To(s, "alert", NoToken) = State("alert", s.run, s.at, NoToken, s.audits, s.excused)
  BY <1>1, ToFields
<1>6. Audited(s) =
        State("next", s.run, s.at, NoToken, s.audits \union {<<s.run, s.at>>}, s.excused)
  BY <1>1, StateMoves
<1>7. Excused(s) = State("next", s.run, s.at, NoToken, s.audits, s.excused \union {s.at})
  BY <1>1, StateMoves
<1>8. /\ To(s, "commit", NoToken) \in PassState
      /\ To(s, "alert", NoToken) \in PassState
      /\ Audited(s) \in PassState
      /\ Excused(s) \in PassState
  <2>1. To(s, "commit", NoToken) \in PassState
    BY <1>2, <1>4, StateTyped
  <2>2. To(s, "alert", NoToken) \in PassState
    BY <1>2, <1>5, StateTyped
  <2>3. Audited(s) \in PassState
    BY <1>2, <1>3, <1>6, StateTyped
  <2>4. Excused(s) \in PassState
    BY <1>2, <1>3, <1>7, StateTyped
  <2> QED BY <2>1, <2>2, <2>3, <2>4
<1>9. \A t \in {To(s, "commit", NoToken), To(s, "alert", NoToken), Audited(s), Excused(s)} :
        /\ t.run = s.run /\ t.at = s.at
        /\ t.audits \subseteq s.audits \union {<<s.run, s.at>>}
  BY <1>4, <1>5, <1>6, <1>7, StateFields
<1>10. \A t \in {To(s, "commit", NoToken), Excused(s)} :
         t.pc # "alert" /\ t.audits = s.audits
  BY <1>4, <1>7, StateFields
<1> USE DEF s
<1> QED BY <1>1, <1>8, <1>9, <1>10

----------------------------------------------------------------------------
(* Every step keeps the invariant.                                         *)

\* What is cut off is the audit a pass in progress is at.
LEMMA CutIsOfAudits ==
  ASSUME SafeInv, NEW p \in Pass, pass[p].pc # "idle"
  PROVE  <<pass[p].run, pass[p].at>> \in Audit
  BY DEF SafeInv, Typed, Numbered, PassState, Audit

\* The steps of a pass, and its beginning.
LEMMA PassKeeps ==
  ASSUME SafeInv, NEW p \in Pass, BeginPass(p) \/ PassStep(p)
  PROVE  SafeInv'
<1> DEFINE s == pass[p]
           c == [op |-> "insert", audit |-> <<s.run, s.at>>]
<1>1. PICK t : Goes(p, t) /\ Sound(s, t)
  BY PassMoves DEF SafeInv
<1>2. pass \in [Pass -> PassState] /\ s \in PassState /\ s.at \in Producer
  BY DEF SafeInv, Typed, PassState
<1>3. /\ pass'[p] = t
      /\ \A q \in Pass \ {p} : pass'[q] = pass[q]
      /\ pass' \in [Pass -> PassState]
  BY <1>1, <1>2, OneMoves DEF Sound
<1>4. UNCHANGED <<rows, disk, upsets, pushed>>
  BY DEF BeginPass, PassStep, Login, Accepted, Unauthorized, RefusedAgain, Compare,
         CannotCompare, ClientClosed, Alert, NextProducer, EndPass
<1>5. calls' = calls \/ (c \in Call /\ calls' = Append(calls, c))
  <2>1. ASSUME Compare(p) PROVE c \in Call
    <3>1. s.run \in 1..MaxPasses
      BY <2>1 DEF Compare, SafeInv, Numbered
    <3> QED BY <1>2, <3>1 DEF Call, Audit
  <2> QED BY <2>1 DEF BeginPass, PassStep, Login, Accepted, Unauthorized, RefusedAgain,
             Compare, CannotCompare, ClientClosed, Alert, NextProducer, EndPass
<1>6. passes' \in 0..MaxPasses
  BY AuditTrailAssumption
  DEF SafeInv, Typed, BeginPass, PassStep, Login, Accepted, Unauthorized, RefusedAgain,
      Compare, CannotCompare, ClientClosed, Alert, NextProducer, EndPass
<1>7. token' \in Token
  BY <1>2 DEF SafeInv, Typed, Token, BeginPass, PassStep, Login, Accepted, Unauthorized,
              RefusedAgain, Compare, CannotCompare, ClientClosed, Alert, NextProducer, EndPass
<1>8. \/ last' = last
      \/ last' = [run |-> s.run, audits |-> s.audits, excused |-> s.excused]
  BY DEF BeginPass, PassStep, Login, Accepted, Unauthorized, RefusedAgain, Compare,
         CannotCompare, ClientClosed, Alert, NextProducer, EndPass
<1>9. calls' \in Seq(Call)
  BY <1>5, AddCall DEF SafeInv, Typed
<1>10. Typed'
  <2>1. last' \in [run : 0..MaxPasses, audits : SUBSET Audit, excused : SUBSET Producer]
    BY <1>2, <1>8 DEF SafeInv, Typed, PassState
  <2>2. cut' \subseteq Audit
    <3>1. CASE ClientClosed(p)
      BY <3>1, CutIsOfAudits DEF ClientClosed, SafeInv, Typed
    <3>2. CASE cut' = cut
      BY <3>2 DEF SafeInv, Typed
    <3> QED BY <3>1, <3>2
            DEF BeginPass, PassStep, Login, Accepted, Unauthorized, RefusedAgain, Compare,
                CannotCompare, Alert, NextProducer, EndPass
  <2> QED BY <1>3, <1>4, <1>6, <1>7, <1>9, <2>1, <2>2 DEF SafeInv, Typed
<1>11. Numbered'
  BY <1>1, <1>3 DEF SafeInv, Numbered, Sound
<1>12. \A i \in 1..Len(calls') : calls'[i].op = "commit" => calls'[i].audit \in rows'
  <2>1. CASE calls' = calls
    BY <1>4, <2>1 DEF SafeInv, Kept
  <2>2. CASE c \in Call /\ calls' = Append(calls, c)
    <3>1. calls \in Seq(Call)
      BY DEF SafeInv, Typed
    <3>2. \A i \in 1..Len(calls') :
            calls'[i] = c \/ (i \in 1..Len(calls) /\ calls'[i] = calls[i])
      BY <2>2, <3>1, AddCall
    <3> QED BY <1>4, <3>2 DEF SafeInv, Kept
  <2> QED BY <1>5, <2>1, <2>2
<1>13. s.audits \subseteq disk /\ last.audits \subseteq disk
  BY DEF SafeInv, Kept
<1>14. last'.audits \subseteq disk'
  BY <1>4, <1>8, <1>13
<1>15. t.audits \subseteq disk /\ t.pc # "alert"
  BY <1>1, <1>13 DEF SafeInv, Kept, Sound
<1>16. \A q \in Pass : /\ pass'[q].audits \subseteq disk'
                       /\ pass'[q].pc = "alert" => <<pass'[q].run, pass'[q].at>> \in disk'
  BY <1>3, <1>4, <1>15 DEF SafeInv, Kept
<1>17. Kept'
  BY <1>4, <1>12, <1>14, <1>16 DEF SafeInv, Kept
<1> QED BY <1>10, <1>11, <1>17 DEF SafeInv

\* The steps of the database's thread.
LEMMA StoreKeeps ==
  ASSUME SafeInv, Insert \/ Commit \/ CallFails
  PROVE  SafeInv'
<1> DEFINE c == Head(calls)
<1>1. calls \in Seq(Call) /\ calls # <<>> /\ pass \in [Pass -> PassState]
  BY DEF SafeInv, Typed, Insert, Commit, CallFails
<1>2. /\ c \in Call
      /\ c = calls[1] /\ 1 \in 1..Len(calls)
      /\ Tail(calls) \in Seq(Call)
      /\ \A i \in 1..Len(Tail(calls)) :
           Tail(calls)[i] = calls[i + 1] /\ i + 1 \in 1..Len(calls)
  BY <1>1, TakeCall
<1>3. c.op \in {"insert", "commit"} /\ c.audit \in Audit
  BY <1>2 DEF Call
<1>4. /\ disk \subseteq rows /\ rows \subseteq Audit /\ last.audits \subseteq disk
      /\ c.op = "commit" => c.audit \in rows
      /\ \A i \in 1..Len(Tail(calls)) :
           Tail(calls)[i].op = "commit" => Tail(calls)[i].audit \in rows
      /\ \A p \in Pass :
           /\ pass[p].audits \subseteq disk
           /\ pass[p].pc = "alert" => <<pass[p].run, pass[p].at>> \in disk
  BY <1>2 DEF SafeInv, Typed, Kept
<1>5. UNCHANGED <<passes, upsets, token, cut, last, pushed>>
  BY DEF Insert, Commit, CallFails
<1>6. \A p \in Waiting(c) :
        LET s == pass[p] IN
        /\ s \in PassState /\ s.run \in 1..MaxPasses /\ c.audit = <<s.run, s.at>>
        /\ \A t \in {To(s, "commit", NoToken), To(s, "alert", NoToken),
                     Audited(s), Excused(s)} :
             /\ t \in PassState
             /\ t.run = s.run /\ t.at = s.at
             /\ t.audits \subseteq s.audits \union {<<s.run, s.at>>}
        /\ \A t \in {To(s, "commit", NoToken), Excused(s)} :
             t.pc # "alert" /\ t.audits = s.audits
  BY <1>3, WaiterMoves DEF SafeInv
<1>7. Waiting(c) \subseteq Pass
  BY DEF Waiting
<1>8. /\ pass' = [p \in Pass |-> pass'[p]]
      /\ \A p \in Pass \ Waiting(c) : pass'[p] = pass[p]
      /\ \A p \in Waiting(c) :
           pass'[p] \in {To(pass[p], "commit", NoToken), To(pass[p], "alert", NoToken),
                         Audited(pass[p]), Excused(pass[p])}
      /\ Commit \/ \A p \in Waiting(c) :
           pass'[p] \in {To(pass[p], "commit", NoToken), Excused(pass[p])}
  <2>1. CASE Insert
    <3>1. pass' = [p \in Pass |-> IF p \in Waiting(c) THEN To(pass[p], "commit", NoToken)
                                  ELSE pass[p]]
      BY <2>1 DEF Insert, Resume
    <3> QED BY <1>7, <3>1
  <2>2. CASE CallFails
    <3>1. pass' = [p \in Pass |-> IF p \in Waiting(c) THEN Excused(pass[p]) ELSE pass[p]]
      BY <2>2 DEF CallFails, Resume
    <3> QED BY <1>7, <3>1
  <2>3. CASE Commit
    <3>1. PICK loud \in BOOLEAN :
            pass' = [p \in Pass |->
                       IF p \in Waiting(c)
                       THEN IF loud THEN To(pass[p], "alert", NoToken) ELSE Audited(pass[p])
                       ELSE pass[p]]
      BY <2>3 DEF Commit, Resume
    <3>2. CASE loud = TRUE
      <4>1. pass' = [p \in Pass |-> IF p \in Waiting(c) THEN To(pass[p], "alert", NoToken)
                                    ELSE pass[p]]
        BY <3>1, <3>2
      <4> QED BY <1>7, <2>3, <4>1
    <3>3. CASE loud = FALSE
      <4>1. pass' = [p \in Pass |-> IF p \in Waiting(c) THEN Audited(pass[p]) ELSE pass[p]]
        BY <3>1, <3>3
      <4> QED BY <1>7, <2>3, <4>1
    <3> QED BY <3>2, <3>3
  <2> QED BY <2>1, <2>2, <2>3
<1> HIDE DEF c
<1>9. pass' \in [Pass -> PassState]
  <2>1. \A p \in Pass : pass'[p] \in PassState
    BY <1>1, <1>6, <1>8
  <2> QED BY <1>8, <2>1
<1>10. Numbered'
  <2>1. \A p \in Waiting(c) : pass'[p].run \in 1..MaxPasses
    BY <1>6, <1>8
  <2> QED BY <1>8, <2>1 DEF SafeInv, Numbered
<1>11. /\ disk \subseteq disk' /\ rows \subseteq rows'
       /\ disk' \subseteq rows' /\ rows' \subseteq Audit
       /\ Commit => disk' = rows /\ c.op = "commit"
  BY <1>3, <1>4 DEF Insert, Commit, CallFails, c
<1>12. \A p \in Pass : /\ pass'[p].audits \subseteq disk'
                       /\ pass'[p].pc = "alert" => <<pass'[p].run, pass'[p].at>> \in disk'
  <2> SUFFICES ASSUME NEW p \in Pass
               PROVE  /\ pass'[p].audits \subseteq disk'
                      /\ pass'[p].pc = "alert" => <<pass'[p].run, pass'[p].at>> \in disk'
    OBVIOUS
  <2>1. CASE p \notin Waiting(c)
    BY <1>4, <1>8, <1>11, <2>1
  <2>2. CASE p \in Waiting(c) /\ Commit
    <3>1. /\ pass'[p].run = pass[p].run /\ pass'[p].at = pass[p].at
          /\ pass'[p].audits \subseteq pass[p].audits \union {<<pass[p].run, pass[p].at>>}
          /\ <<pass[p].run, pass[p].at>> = c.audit
      BY <1>6, <1>8, <2>2
    <3>2. c.audit \in disk' /\ pass[p].audits \subseteq disk'
      BY <1>4, <1>11, <2>2
    <3> QED BY <3>1, <3>2
  <2>3. CASE p \in Waiting(c) /\ ~Commit
    <3>1. pass'[p].pc # "alert" /\ pass'[p].audits = pass[p].audits
      BY <1>6, <1>8, <2>3
    <3> QED BY <1>4, <1>11, <3>1
  <2> QED BY <2>1, <2>2, <2>3
<1>13. /\ calls' \in Seq(Call)
       /\ \A i \in 1..Len(calls') : calls'[i].op = "commit" => calls'[i].audit \in rows'
  <2>1. CASE calls' = Tail(calls)
    BY <1>2, <1>4, <1>11, <2>1
  <2>2. CASE Insert /\ calls' # Tail(calls)
    <3> DEFINE d == [c EXCEPT !.op = "commit"]
    <3>1. calls' = Append(Tail(calls), d) /\ rows' = rows \union {c.audit}
      BY <2>2 DEF Insert, c
    <3>2. d \in Call /\ d.audit = c.audit
      BY <1>2 DEF Call
    <3> HIDE DEF d
    <3>3. /\ calls' \in Seq(Call)
          /\ \A i \in 1..Len(calls') :
               calls'[i] = d \/ (i \in 1..Len(Tail(calls)) /\ calls'[i] = Tail(calls)[i])
      BY <1>2, <3>1, <3>2, AddCall
    <3> QED BY <1>4, <3>1, <3>2, <3>3
  <2> QED BY <2>1, <2>2 DEF Insert, Commit, CallFails
<1>14. Typed'
  BY <1>5, <1>9, <1>11, <1>13 DEF SafeInv, Typed
<1>15. Kept'
  BY <1>4, <1>5, <1>11, <1>12, <1>13 DEF Kept
<1> QED BY <1>10, <1>14, <1>15 DEF SafeInv

\* The steps of the process and of the outside.
LEMMA OthersKeep ==
  ASSUME SafeInv,
         Start \/ Stop \/ StopCloses \/ Crash \/ Connect \/ Push \/ UNCHANGED vars
  PROVE  SafeInv'
<1>1. /\ UNCHANGED <<passes, disk>>
      /\ upsets' \in 0..MaxUpsets
      /\ token' \in Token
      /\ pushed' \in 0..MaxPasses
      /\ rows' = rows \/ rows' = disk
      /\ calls' = calls \/ calls' = <<>>
      /\ last' = last \/ last' = NoReport
  BY AuditTrailAssumption
  DEF Start, Stop, StopCloses, Crash, Booted, Connect, Push, vars, SafeInv, Typed, Token
<1>2. /\ pass' \in [Pass -> PassState]
      /\ \A p \in Pass : pass'[p] = pass[p] \/ pass'[p] = NoPass
  <2>1. pass' = pass \/ pass' = [p \in Pass |-> NoPass] \/ Goes("loop", NoPass)
    BY DEF Start, Stop, StopCloses, Crash, Booted, Connect, Push, vars
  <2>2. pass \in [Pass -> PassState] /\ "loop" \in Pass
    BY DEF SafeInv, Typed, Pass
  <2>3. CASE Goes("loop", NoPass)
    BY <2>2, <2>3, NoPassTyped, OneMoves
  <2> QED BY <2>1, <2>2, <2>3, NoPassTyped
<1>3. last' \in [run : 0..MaxPasses, audits : SUBSET Audit, excused : SUBSET Producer]
  BY <1>1, AuditTrailAssumption DEF SafeInv, Typed, NoReport
<1>4. calls' \in Seq(Call)
  <2>1. calls \in Seq(Call) /\ <<>> \in Seq(Call)
    BY DEF SafeInv, Typed
  <2> QED BY <1>1, <2>1
<1>5. Typed'
  <2>1. cut' \subseteq Audit
    <3>1. CASE StopCloses
      BY <3>1, CutIsOfAudits DEF StopCloses, SafeInv, Typed
    <3>2. CASE cut' = cut
      BY <3>2 DEF SafeInv, Typed
    <3> QED BY <3>1, <3>2 DEF Start, Stop, Crash, Connect, Push, vars
  <2> QED BY <1>1, <1>2, <1>3, <1>4, <2>1 DEF SafeInv, Typed, Kept
<1>6. Numbered'
  BY <1>2 DEF SafeInv, Numbered, NoPass
<1>7. \A p \in Pass : /\ pass'[p].audits \subseteq disk'
                      /\ pass'[p].pc = "alert" => <<pass'[p].run, pass'[p].at>> \in disk'
  BY <1>1, <1>2 DEF SafeInv, Kept, NoPass
<1>8. \A i \in 1..Len(calls') : calls'[i].op = "commit" => calls'[i].audit \in rows'
  <2>1. CASE calls' = <<>>
    BY <2>1
  <2>2. CASE calls' = calls /\ rows' = rows
    BY <2>2 DEF SafeInv, Kept
  <2> QED BY <1>1, <2>1, <2>2
          DEF Start, Stop, StopCloses, Crash, Booted, Connect, Push, vars
<1>9. last'.audits \subseteq disk'
  BY <1>1 DEF SafeInv, Kept, NoReport
<1>10. disk' \subseteq rows'
  BY <1>1 DEF SafeInv, Kept
<1>11. Kept'
  BY <1>7, <1>8, <1>9, <1>10 DEF Kept
<1> QED BY <1>5, <1>6, <1>11 DEF SafeInv

\* The first state.
LEMMA SafeInit == Init => SafeInv
<1> SUFFICES ASSUME Init PROVE SafeInv
  OBVIOUS
<1>1. \A p \in Pass : pass[p] = NoPass
  BY DEF Init
<1>2. Typed
  BY <1>1, NoPassTyped, AuditTrailAssumption DEF Init, Typed, NoReport, Token
<1>3. Numbered
  BY <1>1 DEF Numbered, NoPass
<1>4. Kept
  BY <1>1 DEF Init, Kept, NoPass, NoReport
<1> QED BY <1>2, <1>3, <1>4 DEF SafeInv

\* SafeInv is inductive.
LEMMA SafeStep == SafeInv /\ [Next]_vars => SafeInv'
  BY PassKeeps, StoreKeeps, OthersKeep DEF Next

\* SafeInv holds in every reachable state.
THEOREM Safety == Spec => []SafeInv
  BY SafeInit, SafeStep, PTL DEF Spec

\* The Booleans stay Booleans.
Flags == running \in BOOLEAN /\ stopping \in BOOLEAN /\ http \in BOOLEAN

\* Every step leaves the flags Booleans.
LEMMA FlagsStep == Flags /\ [Next]_vars => Flags'
<1> SUFFICES ASSUME Flags, [Next]_vars PROVE Flags'
  OBVIOUS
<1>1. ASSUME NEW p \in Pass, BeginPass(p) \/ PassStep(p) PROVE Flags'
  BY <1>1 DEF Flags, BeginPass, PassStep, Login, Accepted, Unauthorized, RefusedAgain,
              Compare, CannotCompare, ClientClosed, Alert, NextProducer, EndPass
<1>2. CASE Insert \/ Commit \/ CallFails
  BY <1>2 DEF Flags, Insert, Commit, CallFails
<1>3. CASE Start \/ Stop \/ StopCloses \/ Crash \/ Connect \/ Push \/ UNCHANGED vars
  BY <1>3 DEF Flags, Start, Stop, StopCloses, Crash, Booted, Connect, Push, vars
<1> QED BY <1>1, <1>2, <1>3 DEF Next

\* The state of the audit trail has its type.
THEOREM TypeCorrect == Spec => []TypeOK
<1>1. Init => Flags
  BY DEF Init, Flags
<1>2. SafeInv /\ Flags => TypeOK
  BY DEF SafeInv, Typed, Kept, Flags, TypeOK, Call
<1> QED BY <1>1, <1>2, FlagsStep, Safety, PTL DEF Spec

\* The invariant says it of each of the places where audits are told.
LEMMA SafeTold == SafeInv => ToldIsKept
<1> SUFFICES ASSUME SafeInv, NEW a \in Told PROVE a \in disk
  BY DEF ToldIsKept
<1>1. CASE a \in {<<pass[p].run, pass[p].at>> : p \in {q \in Pass : pass[q].pc = "alert"}}
  BY <1>1 DEF SafeInv, Kept
<1>2. CASE \E p \in Pass : a \in pass[p].audits
  BY <1>2 DEF SafeInv, Kept
<1>3. CASE a \in last.audits
  BY <1>3 DEF SafeInv, Kept
<1>4. a \in UNION {pass[p].audits : p \in Pass} => \E p \in Pass : a \in pass[p].audits
  OBVIOUS
<1> DEFINE A == {<<pass[p].run, pass[p].at>> : p \in {q \in Pass : pass[q].pc = "alert"}}
           B == UNION {pass[p].audits : p \in Pass}
<1>5. Told = (A \union B) \union last.audits
  BY DEF Told
<1> HIDE DEF A, B
<1>6. a \in A \/ a \in B \/ a \in last.audits
  BY <1>5
<1> USE DEF A, B
<1> QED BY <1>1, <1>2, <1>3, <1>4, <1>6

\* Whatever the arbiter tells of its audits is in the database.
THEOREM WhatIsToldIsKept == Spec => []ToldIsKept
  BY SafeTold, Safety, PTL

\* A step leaves the durable table alone or makes it what the connection sees,
\* which holds all of it.
LEMMA DiskGrows ==
  ASSUME SafeInv, [Next]_vars
  PROVE  disk \subseteq disk'
<1>1. disk \subseteq rows
  BY DEF SafeInv, Kept
<1>2. CASE Commit
  BY <1>1, <1>2 DEF Commit
<1>3. ASSUME NEW p \in Pass, BeginPass(p) \/ PassStep(p) PROVE UNCHANGED disk
  BY <1>3 DEF BeginPass, PassStep, Login, Accepted, Unauthorized, RefusedAgain,
              Compare, CannotCompare, ClientClosed, Alert, NextProducer, EndPass
<1>4. CASE Insert \/ CallFails
  BY <1>4 DEF Insert, CallFails
<1>5. CASE Start \/ Stop \/ StopCloses \/ Crash \/ Connect \/ Push \/ UNCHANGED vars
  BY <1>5 DEF Start, Stop, StopCloses, Crash, Booted, Connect, Push, vars
<1> QED BY <1>2, <1>3, <1>4, <1>5 DEF Next

\* The arbiter implements AuditLog: however passes overlap, fail, are cancelled
\* or lost, its log is only added to, and it tells of nothing that is not in it.
THEOREM KeepsItsLog == Spec => Promise
<1>1. Init => Log!Init
  BY DEF Init, Log!Init, Told, NoPass, NoReport
<1>2. SafeInv /\ SafeInv' /\ [Next]_vars => [Log!Next]_(Log!vars)
  <2> SUFFICES ASSUME SafeInv, SafeInv', [Next]_vars PROVE Log!Next
    OBVIOUS
  <2>1. disk \subseteq disk'
    BY DiskGrows
  <2>2. disk' \subseteq Audit
    BY DEF SafeInv, Kept, Typed
  <2>3. Told' \subseteq disk'
    <3>1. ToldIsKept'
      BY SafeTold, PTL
    <3> QED BY <3>1 DEF ToldIsKept
  <2> QED BY <2>1, <2>2, <2>3 DEF Log!Next
<1>3. QED
  BY <1>1, <1>2, SafeInit, SafeStep, PTL DEF Spec, Promise, Log!Spec

----------------------------------------------------------------------------
(* A report leaves out only what could not be reached.                     *)

\* What the moves of a pass's state do to the producers it has dealt with.
LEMMA ThroughMoves ==
  ASSUME NEW s \in PassState, NEW c, Through(s, c)
  PROVE  /\ Through(Excused(s), c)
         /\ Through(Audited(s), c)
         /\ \A pc, tok : pc # "next" /\ (pc = "reget" => tok \in {NoToken, s.at})
              => Through(To(s, pc, tok), c)
         /\ s.pc = "next" => Through(Ask(s, s.at + 1), c)
<1>1. s.at \in Nat
  BY AuditTrailAssumption DEF PassState, Producer
<1>2. Through(Excused(s), c)
  <2> DEFINE t == State("next", s.run, s.at, NoToken, s.audits, s.excused \union {s.at})
  <2>1. /\ t.pc = "next" /\ t.run = s.run /\ t.at = s.at
        /\ t.audits = s.audits /\ t.excused = s.excused \union {s.at}
    BY StateFields
  <2> HIDE DEF t
  <2>2. Through(t, c)
    BY <2>1 DEF Through, Dealt
  <2> QED BY <2>2, StateMoves DEF t
<1>3. Through(Audited(s), c)
  <2> DEFINE t == State("next", s.run, s.at, NoToken, s.audits \union {<<s.run, s.at>>},
                        s.excused)
  <2>1. /\ t.pc = "next" /\ t.run = s.run /\ t.at = s.at
        /\ t.audits = s.audits \union {<<s.run, s.at>>} /\ t.excused = s.excused
    BY StateFields
  <2> HIDE DEF t
  <2>2. Through(t, c)
    BY <2>1 DEF Through, Dealt
  <2> QED BY <2>2, StateMoves DEF t
<1>4. ASSUME NEW pc, NEW tok, pc # "next", pc = "reget" => tok \in {NoToken, s.at}
      PROVE  Through(To(s, pc, tok), c)
  <2> DEFINE t == State(pc, s.run, s.at, tok, s.audits, s.excused)
  <2>1. /\ t.pc = pc /\ t.run = s.run /\ t.at = s.at /\ t.tok = tok
        /\ t.audits = s.audits /\ t.excused = s.excused
    BY StateFields
  <2> HIDE DEF t
  <2>2. Through(t, c)
    BY <1>4, <2>1 DEF Through, Dealt
  <2> QED BY <2>2, ToFields DEF t
<1>5. ASSUME s.pc = "next" PROVE Through(Ask(s, s.at + 1), c)
  <2> DEFINE t == State(IF token = NoToken THEN "login" ELSE "get", s.run, s.at + 1, token,
                        s.audits, s.excused)
  <2>1. /\ t.pc \in {"login", "get"} /\ t.run = s.run /\ t.at = s.at + 1
        /\ t.audits = s.audits /\ t.excused = s.excused
    BY StateFields
  <2> HIDE DEF t
  <2>2. ASSUME NEW u \in Producer, u < s.at + 1 PROVE Dealt(s, u, c)
    <3>1. u < s.at \/ u = s.at
      BY <1>1, <2>2 DEF Producer
    <3> QED BY <1>5, <3>1 DEF Through
  <2>3. Through(t, c)
    BY <2>1, <2>2 DEF Through, Dealt
  <2> QED BY <2>3, StateMoves DEF t
<1> QED BY <1>2, <1>3, <1>4, <1>5

\* A pass that has not begun has nothing to deal with.
LEMMA ThroughNothing ==
  ASSUME NEW c
  PROVE  /\ Through(NoPass, c)
         /\ \A n : Through(Ask([NoPass EXCEPT !.run = n], 1), c)
<1>1. \A u \in Producer : ~(u < 1)
  BY AuditTrailAssumption DEF Producer
<1>2. Through(NoPass, c)
  BY <1>1 DEF Through, NoPass
<1>3. ASSUME NEW n PROVE Through(Ask([NoPass EXCEPT !.run = n], 1), c)
  <2> DEFINE t == Ask([NoPass EXCEPT !.run = n], 1)
  <2>1. t.at = 1 /\ t.pc \in {"login", "get"}
    BY DEF Ask, To, NoPass
  <2> HIDE DEF t
  <2>2. Through(t, c)
    BY <1>1, <2>1 DEF Through
  <2> QED BY <2>2 DEF t
<1> QED BY <1>2, <1>3

\* A pass cut off under a call has dealt with the producer it was at.
LEMMA ThroughCut ==
  ASSUME NEW s \in PassState, NEW c, Through(s, c), <<s.run, s.at>> \in c
  PROVE  Through(Skipped(s), c)
<1> DEFINE t == State("next", s.run, s.at, NoToken, s.audits, s.excused)
<1>1. /\ t.pc = "next" /\ t.run = s.run /\ t.at = s.at
      /\ t.audits = s.audits /\ t.excused = s.excused
  BY StateFields
<1> HIDE DEF t
<1>2. Through(t, c)
  BY <1>1 DEF Through, Dealt
<1> QED BY <1>2, StateMoves DEF t

\* What is cut off stays so.
LEMMA ThroughMore ==
  ASSUME NEW s, NEW c, NEW d, Through(s, c), c \subseteq d
  PROVE  Through(s, d)
  BY DEF Through, Dealt

\* A step cuts off audits, or leaves it.
LEMMA CutGrows ==
  ASSUME [Next]_vars
  PROVE  cut \subseteq cut'
<1>1. ASSUME NEW p \in Pass, BeginPass(p) \/ PassStep(p) PROVE cut \subseteq cut'
  BY <1>1 DEF BeginPass, PassStep, Login, Accepted, Unauthorized, RefusedAgain,
              Compare, CannotCompare, ClientClosed, Alert, NextProducer, EndPass
<1>2. CASE Insert \/ Commit \/ CallFails
  BY <1>2 DEF Insert, Commit, CallFails
<1>3. CASE Start \/ Stop \/ StopCloses \/ Crash \/ Connect \/ Push \/ UNCHANGED vars
  BY <1>3 DEF Start, Stop, StopCloses, Crash, Booted, Connect, Push, vars
<1> QED BY <1>1, <1>2, <1>3 DEF Next

\* Every step leaves the passes through with the producers behind them, and a
\* report is made only of a pass that is through with all.
LEMMA ThroughStep == SafeInv /\ AllThrough /\ [Next]_vars => AllThrough'
<1> SUFFICES ASSUME SafeInv, AllThrough, [Next]_vars PROVE AllThrough'
  OBVIOUS
<1> DEFINE c == cut'
<1>0. cut \subseteq c
  BY CutGrows
<1>1. pass \in [Pass -> PassState] /\ \A p \in Pass : Through(pass[p], c)
  <2>1. \A p \in Pass : Through(pass[p], cut)
    BY DEF AllThrough
  <2> QED BY <1>0, <2>1, ThroughMore DEF SafeInv, Typed
<1> HIDE DEF c
<1>2. ASSUME NEW p \in Pass, BeginPass(p) \/ PassStep(p)
      PROVE  AllThrough'
  <2> DEFINE s == pass[p]
  <2>1. s \in PassState /\ Through(s, c)
    BY <1>1
  <2>2. /\ Through(Excused(s), c) /\ Through(Audited(s), c)
        /\ \A pc, tok : pc # "next" /\ (pc = "reget" => tok \in {NoToken, s.at})
             => Through(To(s, pc, tok), c)
        /\ s.pc = "next" => Through(Ask(s, s.at + 1), c)
    BY <2>1, ThroughMoves
  <2>3. \E t : Goes(p, t) /\ Through(t, c)
    <3>1. CASE BeginPass(p)
      BY <3>1, ThroughNothing DEF BeginPass
    <3>2. CASE Login(p)
      BY <2>2, <3>2 DEF Login
    <3>3. CASE Accepted(p, "get") \/ Accepted(p, "reget")
      BY <2>2, <3>3 DEF Accepted
    <3>4. CASE Unauthorized(p)
      BY <2>2, <3>4 DEF Unauthorized
    <3>5. CASE RefusedAgain(p)
      BY <2>1, <2>2, <3>5 DEF RefusedAgain, Through
    <3>6. CASE Compare(p)
      BY <2>2, <3>6 DEF Compare
    <3>7. CASE CannotCompare(p)
      BY <2>2, <3>7 DEF CannotCompare
    <3>11. CASE ClientClosed(p)
      <4>1. <<s.run, s.at>> \in c
        BY <3>11 DEF ClientClosed, c
      <4> QED BY <2>1, <3>11, <4>1, ThroughCut DEF ClientClosed
    <3>8. CASE Alert(p)
      BY <2>2, <3>8 DEF Alert
    <3>9. CASE NextProducer(p)
      BY <2>2, <3>9 DEF NextProducer
    <3>10. CASE EndPass(p)
      BY <3>10, ThroughNothing DEF EndPass
    <3> QED BY <1>2, <3>1, <3>2, <3>3, <3>4, <3>5, <3>6, <3>7, <3>8, <3>9, <3>10, <3>11
            DEF PassStep
  <2>4. PICK t : Goes(p, t) /\ Through(t, c)
    BY <2>3
  <2>5. pass'[p] = t /\ \A q \in Pass \ {p} : pass'[q] = pass[q]
    BY <1>1, <2>4, OneMoves
  <2>6. \A q \in Pass : Through(pass'[q], c)
    BY <1>1, <2>4, <2>5
  <2>7. OnlyTheUnreachedAreLeftOut'
    <3>1. CASE last' = last
      BY <1>0, <3>1 DEF c, AllThrough, OnlyTheUnreachedAreLeftOut
    <3>2. CASE EndPass(p)
      <4>1. /\ s.pc = "next" /\ s.at = Producers
            /\ last' = [run |-> s.run, audits |-> s.audits, excused |-> s.excused]
        BY <3>2 DEF EndPass
      <4>2. ASSUME NEW u \in Producer PROVE Dealt(s, u, c)
        <5>1. u < s.at \/ u = s.at
          BY <4>1, AuditTrailAssumption DEF Producer
        <5> QED BY <2>1, <4>1, <5>1 DEF Through
      <4> QED BY <4>1, <4>2 DEF c, OnlyTheUnreachedAreLeftOut, Dealt
    <3> QED BY <1>2, <3>1, <3>2
            DEF BeginPass, PassStep, Login, Accepted, Unauthorized, RefusedAgain, Compare,
                CannotCompare, ClientClosed, Alert, NextProducer
  <2> QED BY <2>6, <2>7 DEF c, AllThrough
<1>3. CASE Insert \/ Commit \/ CallFails
  <2> DEFINE d == Head(calls)
  <2>1. \A p \in Pass :
          pass'[p] \in {pass[p], To(pass[p], "commit", NoToken),
                        To(pass[p], "alert", NoToken), Audited(pass[p]), Excused(pass[p])}
    <3>1. CASE Insert
      <4>1. pass' = [p \in Pass |-> IF p \in Waiting(d) THEN To(pass[p], "commit", NoToken)
                                    ELSE pass[p]]
        BY <3>1 DEF Insert, Resume
      <4> QED BY <4>1
    <3>2. CASE CallFails
      <4>1. pass' = [p \in Pass |-> IF p \in Waiting(d) THEN Excused(pass[p]) ELSE pass[p]]
        BY <3>2 DEF CallFails, Resume
      <4> QED BY <4>1
    <3>3. CASE Commit
      <4>1. PICK loud \in BOOLEAN :
              pass' = [p \in Pass |->
                         IF p \in Waiting(d)
                         THEN IF loud THEN To(pass[p], "alert", NoToken) ELSE Audited(pass[p])
                         ELSE pass[p]]
        BY <3>3 DEF Commit, Resume
      <4>2. CASE loud = TRUE
        <5>1. pass' = [p \in Pass |-> IF p \in Waiting(d) THEN To(pass[p], "alert", NoToken)
                                      ELSE pass[p]]
          BY <4>1, <4>2
        <5> QED BY <5>1
      <4>3. CASE loud = FALSE
        <5>1. pass' = [p \in Pass |-> IF p \in Waiting(d) THEN Audited(pass[p]) ELSE pass[p]]
          BY <4>1, <4>3
        <5> QED BY <5>1
      <4> QED BY <4>2, <4>3
    <3> QED BY <1>3, <3>1, <3>2, <3>3
  <2>2. ASSUME NEW p \in Pass PROVE Through(pass'[p], c)
    <3>1. /\ Through(Excused(pass[p]), c) /\ Through(Audited(pass[p]), c)
          /\ Through(To(pass[p], "commit", NoToken), c) /\ Through(To(pass[p], "alert", NoToken), c)
      BY <1>1, ThroughMoves
    <3> QED BY <1>1, <2>1, <3>1
  <2>3. last' = last
    BY <1>3 DEF Insert, Commit, CallFails
  <2> QED BY <1>0, <2>2, <2>3 DEF c, AllThrough, OnlyTheUnreachedAreLeftOut
<1>4. CASE Start \/ Stop \/ StopCloses \/ Crash \/ Connect \/ Push \/ UNCHANGED vars
  <2>1. pass' = pass \/ pass' = [p \in Pass |-> NoPass] \/ Goes("loop", NoPass)
    BY <1>4 DEF Start, Stop, StopCloses, Crash, Booted, Connect, Push, vars
  <2>2. \A p \in Pass : pass'[p] = pass[p] \/ pass'[p] = NoPass
    <3>1. CASE Goes("loop", NoPass)
      <4>1. "loop" \in Pass
        BY DEF Pass
      <4> QED BY <1>1, <3>1, <4>1, OneMoves
    <3> QED BY <2>1, <3>1
  <2>3. last' = last \/ last'.run = 0
    BY <1>4 DEF Start, Stop, StopCloses, Crash, Booted, Connect, Push, vars, NoReport
  <2>4. \A p \in Pass : Through(pass'[p], c)
    BY <1>1, <2>2, ThroughNothing
  <2> QED BY <1>0, <2>3, <2>4 DEF c, AllThrough, OnlyTheUnreachedAreLeftOut
<1> QED BY <1>2, <1>3, <1>4 DEF Next

\* The failure of one producer takes no other's audit with it, and no producer
\* is refused for a token that is not its own: what a report leaves out failed
\* for a reason outside the arbiter, or was cut off by the arbiter's own stop().
THEOREM NoneIsLeftOut == Spec => []OnlyTheUnreachedAreLeftOut
<1>1. Init => AllThrough
  <2> SUFFICES ASSUME Init PROVE AllThrough
    OBVIOUS
  <2>1. \A p \in Pass : pass[p] = NoPass
    BY DEF Init
  <2>2. last.run = 0
    BY DEF Init, NoReport
  <2>3. \A p \in Pass : Through(pass[p], cut)
    BY <2>1, ThroughNothing
  <2> QED BY <2>2, <2>3 DEF AllThrough, OnlyTheUnreachedAreLeftOut
<1>2. AllThrough => OnlyTheUnreachedAreLeftOut
  BY DEF AllThrough
<1> QED BY <1>1, <1>2, ThroughStep, Safety, PTL DEF Spec
=============================================================================
