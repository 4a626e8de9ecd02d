--------------------------- MODULE IsolationProofs ---------------------------
(***************************************************************************)
(* What holds of the controller's isolation requests and of its audit log  *)
(* for any number of requests, machines and interfaces.                    *)
(*                                                                         *)
(* The audit needs that a row stays in the table, and that the commit of   *)
(* any request makes all rows durable.  The flag needs to know how far a   *)
(* request has come: as long as it is alone at the links of its machine    *)
(* and no command has failed, the interfaces before its port are as it     *)
(* wants them (Working).                                                   *)
(***************************************************************************)
EXTENDS Isolation, TLAPS

\* A request that creates a policy has its name; one that is at work on the
\* links has a machine, and is alone if it thinks so.
Placed ==
  \A r \in Request :
    /\ req[r].pc = "call" /\ req[r].op = "create" => req[r].target \in Policy
    /\ req[r].pc \in {"list", "link"} =>
         req[r].op \in {"cut", "restore"} /\ req[r].target \in Machine \ Host
    /\ req[r].pc \in {"new", "call", "list"} => req[r].port = 1
    /\ req[r].pc = "link" => req[r].port \in Iface
    /\ req[r].pc = "link" /\ req[r].alone => Setting(req[r].target, r) = {}

\* The interfaces that an undisturbed request has set are as it wants them.
Working ==
  \A r \in Request :
    req[r].pc = "link" /\ req[r].alone /\ req[r].ok =>
      \A i \in Iface : i < req[r].port =>
        (i \in down[req[r].target] <=> req[r].op = "cut")

\* Every machine that counts as cut was cut by a request.
CutByRequest ==
  \A n \in cutNodes : \E r \in Request :
    req[r].op = "cut" /\ req[r].target = n /\ req[r].ok /\ req[r].port = Ports + 1

\* Sharp machines look as the flag says.
SharpIsTold ==
  \A n \in Machine \ blurred : down[n] = IF n \in cutNodes THEN Iface ELSE {}

\* A request that commits has inserted its event.
Rows == \A r \in Request : req[r].pc = "commit" => r \in events

AuditInv == TypeOK /\ Placed /\ Rows /\ AnsweredIsAudited
LinkInv == Working /\ CutByRequest /\ SharpIsTold

\* The record of a request that has not come yet.
LEMMA NewType == New \in RequestState /\ New.port = 1
  BY IsolationAssumption DEF New, RequestState, Iface

\* What the module starts from.
LEMMA InvInitially == Init => AuditInv /\ LinkInv
  <1> SUFFICES ASSUME Init PROVE AuditInv /\ LinkInv
    OBVIOUS
  <1>2. TypeOK
    BY NewType DEF Init, TypeOK, New
  <1>3. \A r \in Request : req[r] = New
    BY DEF Init
  <1> QED
    BY <1>2, <1>3 DEF Init, AuditInv, LinkInv, Placed, Rows, AnsweredIsAudited, Working,
      CutByRequest, SharpIsTold, New

\* A step of a request that is not at the links, and does not get there,
\* leaves what is known about the links alone.
LEMMA OwnStep ==
  ASSUME AuditInv, LinkInv, NEW r \in Request, NEW st \in RequestState, Goes(r, st),
         req[r].pc # "link", st.pc # "link",
         st.pc = "call" /\ st.op = "create" => st.target \in Policy,
         st.pc = "list" => st.op \in {"cut", "restore"} /\ st.target \in Machine \ Host,
         st.pc \in {"new", "call", "list"} => st.port = 1,
         req[r].port # 1 =>
           /\ st.op = req[r].op /\ st.target = req[r].target
           /\ st.ok = req[r].ok /\ st.port = req[r].port,
         UNCHANGED <<down, cutNodes, blurred>>
  PROVE  Placed' /\ LinkInv'
  <1>1. /\ req' = [req EXCEPT ![r] = st]
        /\ req \in [Request -> RequestState]
        /\ down' = down /\ cutNodes' = cutNodes /\ blurred' = blurred
    BY DEF Goes, AuditInv, TypeOK
  <1>2. \A s \in Request : req'[s] = IF s = r THEN st ELSE req[s]
    BY <1>1
  <1>3. \A n, s : Setting(n, s)' = Setting(n, s)
    BY <1>2 DEF Setting
  <1>4. Placed'
    BY <1>2, <1>3 DEF Placed, AuditInv
  <1>5. Working'
    BY <1>1, <1>2 DEF Working, LinkInv
  <1>6. CutByRequest'
    <2> SUFFICES ASSUME NEW n \in cutNodes
                 PROVE  \E s \in Request : /\ req'[s].op = "cut" /\ req'[s].target = n
                                           /\ req'[s].ok /\ req'[s].port = Ports + 1
      BY <1>1 DEF CutByRequest
    <2>1. PICK s \in Request : /\ req[s].op = "cut" /\ req[s].target = n
                               /\ req[s].ok /\ req[s].port = Ports + 1
      BY DEF LinkInv, CutByRequest
    <2>2. req[s].port # 1
      BY <2>1, IsolationAssumption
    <2> QED
      BY <1>2, <2>1, <2>2
  <1>7. SharpIsTold'
    BY <1>1 DEF SharpIsTold, LinkInv
  <1> QED
    BY <1>4, <1>5, <1>6, <1>7 DEF LinkInv

\* A step that does not touch the log, of a request that gives no answer.
LEMMA QuietStep ==
  ASSUME AuditInv, NEW r \in Request, NEW st \in RequestState, Goes(r, st),
         st.pc \notin {"commit", "answered"},
         req[r].pc \in {"new", "call", "list", "link", "insert"} \/ st.pc = "raised",
         UNCHANGED logVars,
         policies' \subseteq Policy,
         down' \in [Machine -> SUBSET Iface],
         cutNodes' \subseteq Machine \ Host,
         blurred' \subseteq Machine
  PROVE  TypeOK' /\ Rows' /\ AnsweredIsAudited'
  <1>1. /\ req' = [req EXCEPT ![r] = st]
        /\ req \in [Request -> RequestState]
        /\ events' = events /\ disk' = disk
    BY DEF Goes, AuditInv, TypeOK, logVars
  <1>2. \A s \in Request : req'[s] = IF s = r THEN st ELSE req[s]
    BY <1>1
  <1>3. req' \in [Request -> RequestState]
    BY <1>1
  <1>4. events' \subseteq {s \in Request : req'[s].pc \in {"commit", "answered", "raised", "lost"}}
    BY <1>1, <1>2 DEF AuditInv, TypeOK
  <1>5. Rows' /\ AnsweredIsAudited'
    BY <1>1, <1>2 DEF Rows, AnsweredIsAudited, AuditInv
  <1> QED
    BY <1>1, <1>3, <1>4, <1>5 DEF AuditInv, TypeOK

\* A call that is over leaves a record with its status.
LEMMA CallDoneStep ==
  ASSUME AuditInv, LinkInv, NEW r \in Request, NEW ok \in BOOLEAN,
         req[r].pc \in {"call", "list"}, CallDone(r, ok),
         UNCHANGED <<down, cutNodes, blurred, logVars>>, policies' \subseteq Policy
  PROVE  AuditInv' /\ LinkInv'
  <1> DEFINE st == [req[r] EXCEPT !.pc = "insert", !.ok = ok]
  <1>1. st \in RequestState /\ st.pc = "insert" /\ Goes(r, st)
    BY DEF AuditInv, TypeOK, RequestState, CallDone
  <1>2. req[r].port = 1
    BY DEF AuditInv, Placed
  <1> HIDE DEF st
  <1>3. Placed' /\ LinkInv'
    BY <1>1, <1>2, OwnStep
  <1>4. TypeOK' /\ Rows' /\ AnsweredIsAudited'
    <2>1. /\ down' \in [Machine -> SUBSET Iface]
          /\ cutNodes' \subseteq Machine \ Host /\ blurred' \subseteq Machine
      BY DEF AuditInv, TypeOK
    <2> QED
      BY <1>1, <2>1, QuietStep DEF logVars
  <1> QED
    BY <1>3, <1>4 DEF AuditInv

\* A request is accepted.
LEMMA AcceptStep ==
  ASSUME AuditInv, LinkInv, NEW r \in Request,
         \/ \E p \in Policy, op \in {"create", "delete"} : AcceptPolicy(r, op, p)
         \/ \E n \in Machine, op \in {"cut", "restore", "reset"} : AcceptMachine(r, op, n)
  PROVE  AuditInv' /\ LinkInv'
  <1>1. PICK st \in RequestState :
          /\ Goes(r, st) /\ req[r].pc = "new" /\ st.port = 1
          /\ st.pc \in {"call", "list", "insert"}
          /\ st.pc = "call" /\ st.op = "create" => st.target \in Policy
          /\ st.pc = "list" => st.op \in {"cut", "restore"} /\ st.target \in Machine \ Host
          /\ UNCHANGED <<clusterVars, cutNodes, logVars, blurred>>
    <2>1. CASE \E p \in Policy, op \in {"create", "delete"} : AcceptPolicy(r, op, p)
      <3>1. PICK p \in Policy, op \in {"create", "delete"} : AcceptPolicy(r, op, p)
        BY <2>1
      <3> DEFINE taken == [New EXCEPT !.op = op, !.target = p, !.pc = "call"]
      <3>2. taken \in RequestState /\ taken.port = 1
            /\ taken.pc = "call" /\ taken.target = p
        BY NewType DEF RequestState
      <3>3. Goes(r, taken) /\ req[r].pc = "new"
            /\ UNCHANGED <<clusterVars, cutNodes, logVars, blurred>>
        BY <3>1 DEF AcceptPolicy
      <3> HIDE DEF taken
      <3> QED
        BY <3>2, <3>3
    <2>2. CASE \E n \in Machine, op \in {"cut", "restore", "reset"} : AcceptMachine(r, op, n)
      <3>1. PICK n \in Machine, op \in {"cut", "restore", "reset"} : AcceptMachine(r, op, n)
        BY <2>2
      <3> DEFINE first == IF n \in Host THEN "insert"
                       ELSE IF op = "reset" THEN "call" ELSE "list"
      <3> DEFINE taken == [New EXCEPT !.op = op, !.target = n, !.pc = first]
      <3>2. /\ taken \in RequestState /\ taken.port = 1
            /\ taken.pc = first /\ taken.op = op /\ taken.target = n
        BY NewType DEF RequestState
      <3>3. Goes(r, taken) /\ req[r].pc = "new"
            /\ UNCHANGED <<clusterVars, cutNodes, logVars, blurred>>
        BY <3>1 DEF AcceptMachine
      <3>4. /\ first \in {"call", "list", "insert"}
            /\ first = "list" => op \in {"cut", "restore"} /\ n \in Machine \ Host
        OBVIOUS
      <3> HIDE DEF taken, first
      <3> QED
        BY <3>2, <3>3, <3>4
    <2> QED
      BY <2>1, <2>2
  <1>2. req[r].port = 1
    BY <1>1 DEF AuditInv, Placed
  <1>3. UNCHANGED <<policies, down, cutNodes, blurred, logVars>>
    BY <1>1 DEF clusterVars
  <1>4. Placed' /\ LinkInv'
    BY <1>1, <1>2, <1>3, OwnStep
  <1>5. TypeOK' /\ Rows' /\ AnsweredIsAudited'
    <2>1. /\ policies' \subseteq Policy /\ down' \in [Machine -> SUBSET Iface]
          /\ cutNodes' \subseteq Machine \ Host /\ blurred' \subseteq Machine
      BY <1>3 DEF AuditInv, TypeOK
    <2> QED
      BY <1>1, <1>3, <2>1, QuietStep DEF logVars
  <1> QED
    BY <1>4, <1>5 DEF AuditInv

\* The calls that end with a status, and the one that gets no answer.
LEMMA CallStep ==
  ASSUME AuditInv, LinkInv, NEW r \in Request,
         \/ PolicyCreated(r) \/ PolicyDeleted(r) \/ CallRefused(r) \/ NoAnswer(r)
         \/ MachineReset(r) \/ NothingListed(r)
  PROVE  AuditInv' /\ LinkInv'
  <1>1. policies \subseteq Policy /\ req[r] \in RequestState
    BY DEF AuditInv, TypeOK
  <1>2. CASE PolicyCreated(r)
    <2>1. policies' \subseteq Policy
      BY <1>1, <1>2 DEF PolicyCreated, Calling, AuditInv, Placed
    <2> QED
      BY <1>2, <2>1, CallDoneStep DEF PolicyCreated, Calling
  <1>3. CASE PolicyDeleted(r)
    BY <1>1, <1>3, CallDoneStep DEF PolicyDeleted, Calling
  <1>4. CASE CallRefused(r)
    BY <1>1, <1>4, CallDoneStep DEF CallRefused, clusterVars
  <1>5. CASE MachineReset(r)
    BY <1>1, <1>5, CallDoneStep DEF MachineReset, Calling, clusterVars
  <1>6. CASE NothingListed(r)
    BY <1>1, <1>6, CallDoneStep DEF NothingListed, clusterVars
  <1>7. CASE NoAnswer(r)
    <2> DEFINE st == [req[r] EXCEPT !.pc = "raised"]
    <2>1. st \in RequestState /\ st.pc = "raised" /\ Goes(r, st)
      BY <1>1, <1>7 DEF RequestState, NoAnswer
    <2>2. req[r].pc = "call" /\ req[r].port = 1
      BY <1>7 DEF NoAnswer, Calling, AuditInv, Placed
    <2>3. policies' \subseteq Policy /\ UNCHANGED <<down, cutNodes, blurred, logVars>>
      BY <1>1, <1>7 DEF NoAnswer, Calling, AuditInv, Placed
    <2>4. /\ down' \in [Machine -> SUBSET Iface]
          /\ cutNodes' \subseteq Machine \ Host /\ blurred' \subseteq Machine
      BY <2>3 DEF AuditInv, TypeOK
    <2> HIDE DEF st
    <2>5. Placed' /\ LinkInv'
      BY <2>1, <2>2, <2>3, OwnStep
    <2>6. TypeOK' /\ Rows' /\ AnsweredIsAudited'
      BY <2>1, <2>3, <2>4, QuietStep DEF logVars
    <2> QED
      BY <2>5, <2>6 DEF AuditInv
  <1> QED
    BY <1>2, <1>3, <1>4, <1>5, <1>6, <1>7

\* save_event(): a row that is inserted stays, and a commit takes all rows.
LEMMA SaveStep ==
  ASSUME AuditInv, LinkInv, NEW r \in Request,
         Inserted(r) \/ Committed(r) \/ SaveFails(r)
  PROVE  AuditInv' /\ LinkInv'
  <1>1. PICK pc \in {"commit", "answered", "raised"} :
          /\ Goes(r, [req[r] EXCEPT !.pc = pc])
          /\ req[r].pc \in {"insert", "commit"}
          /\ UNCHANGED <<policies, down, cutNodes, blurred>>
          /\ \/ req[r].pc = "insert" /\ pc = "commit" /\ events' = events \union {r} /\ disk' = disk
             \/ req[r].pc = "commit" /\ pc = "answered" /\ events' = events /\ disk' = events
             \/ pc = "raised" /\ events' = events /\ disk' = disk
    BY DEF Inserted, Committed, SaveFails, clusterVars, logVars
  <1> DEFINE st == [req[r] EXCEPT !.pc = pc]
  <1>2. /\ st \in RequestState /\ st.pc = pc
        /\ st.op = req[r].op /\ st.target = req[r].target
        /\ st.ok = req[r].ok /\ st.port = req[r].port
    BY <1>1 DEF AuditInv, TypeOK, RequestState
  <1>3. Goes(r, st)
    BY <1>1
  <1> HIDE DEF st
  <1>4. Placed' /\ LinkInv'
    BY <1>1, <1>2, <1>3, OwnStep
  <1>5. /\ req' = [req EXCEPT ![r] = st]
        /\ req \in [Request -> RequestState]
        /\ events \subseteq {s \in Request : req[s].pc \in {"commit", "answered", "raised", "lost"}}
        /\ disk \subseteq events
        /\ req[r].pc = "commit" => r \in events
    BY <1>3 DEF Goes, AuditInv, TypeOK, Rows
  <1>6. \A s \in Request : req'[s] = IF s = r THEN st ELSE req[s]
    BY <1>5
  <1>7. req' \in [Request -> RequestState]
    BY <1>2, <1>5
  <1>8. events' \subseteq {s \in Request : req'[s].pc \in {"commit", "answered", "raised", "lost"}}
        /\ disk' \subseteq events'
    BY <1>1, <1>2, <1>5, <1>6
  <1>9. AnsweredIsAudited' /\ Rows'
    BY <1>1, <1>2, <1>5, <1>6 DEF AnsweredIsAudited, AuditInv, Rows
  <1> QED
    BY <1>1, <1>4, <1>7, <1>8, <1>9 DEF AuditInv, TypeOK

\* A request comes to the links; neither it nor those it meets there are alone.
LEMMA ListedStep ==
  ASSUME AuditInv, LinkInv, NEW r \in Request, Listed(r)
  PROVE  AuditInv' /\ LinkInv'
  <1> DEFINE n == req[r].target
             others == Setting(n, r)
             here == [req[r] EXCEPT !.pc = "link", !.ok = TRUE, !.alone = others = {}]
  <1>1. /\ req[r].pc = "list" /\ req[r].port = 1
        /\ req[r].op \in {"cut", "restore"} /\ n \in Machine \ Host
        /\ \A s \in Request : req[s] \in RequestState
        /\ UNCHANGED <<policies, down, cutNodes, events, disk, blurred>>
    BY DEF Listed, AuditInv, TypeOK, Placed, clusterVars, logVars
  <1>2. /\ here \in RequestState
        /\ here.pc = "link" /\ here.ok /\ here.port = 1
        /\ here.op = req[r].op /\ here.target = n
        /\ here.alone <=> others = {}
    BY <1>1 DEF RequestState
  <1>3. \A s \in Request : [req[s] EXCEPT !.alone = FALSE] \in RequestState
    BY <1>1 DEF RequestState
  <1>4. /\ req' = [s \in Request |-> req'[s]]
        /\ req'[r] = here
        /\ \A s \in Request \ {r} :
             req'[s] = IF s \in others THEN [req[s] EXCEPT !.alone = FALSE] ELSE req[s]
    BY DEF Listed, Setting
  <1>5. \A s \in Request \ {r} :
          /\ req'[s].pc = req[s].pc /\ req'[s].op = req[s].op
          /\ req'[s].target = req[s].target
          /\ req'[s].ok = req[s].ok /\ req'[s].port = req[s].port
          /\ req'[s].alone => req[s].alone /\ s \notin others
    BY <1>1, <1>4 DEF RequestState
  <1>5a. req'[r] = here
    BY <1>4
  <1> HIDE DEF here
  <1>6. req' \in [Request -> RequestState]
    <2>1. \A s \in Request : req'[s] \in RequestState
      BY <1>1, <1>2, <1>3, <1>4
    <2> QED
      BY <1>4, <2>1
  <1>7. TypeOK' /\ Rows' /\ AnsweredIsAudited'
    <2>1. \A s \in Request : req'[s].pc = IF s = r THEN "link" ELSE req[s].pc
      BY <1>2, <1>4, <1>5
    <2> QED
      BY <1>1, <1>6, <2>1 DEF AuditInv, TypeOK, Rows, AnsweredIsAudited
  <1>8. Placed'
    <2>1. ASSUME NEW s \in Request, req'[s].pc = "link", req'[s].alone
          PROVE  Setting(req[s].target, s)' = {}
      <3>1. CASE s = r
        <4>1. others = {} /\ req'[r].target = n
          BY <1>2, <1>5a, <2>1, <3>1
        <4> QED
          BY <1>5, <3>1, <4>1 DEF Setting
      <3>2. CASE s # r
        <4>1. Setting(req[s].target, s) = {} /\ s \notin others /\ req[s].pc = "link"
          BY <1>5, <2>1, <3>2 DEF AuditInv, Placed
        <4>2. req[s].target # n
          BY <3>2, <4>1 DEF Setting
        <4> QED
          BY <1>2, <1>5, <1>5a, <3>2, <4>1, <4>2 DEF Setting
      <3> QED
        BY <3>1, <3>2
    <2>2. 1 \in Iface
      BY IsolationAssumption DEF Iface
    <2>3. ASSUME NEW s \in Request
          PROVE  /\ req'[s].pc = "call" /\ req'[s].op = "create" => req'[s].target \in Policy
                 /\ req'[s].pc \in {"list", "link"} =>
                      req'[s].op \in {"cut", "restore"} /\ req'[s].target \in Machine \ Host
                 /\ req'[s].pc \in {"new", "call", "list"} => req'[s].port = 1
                 /\ req'[s].pc = "link" => req'[s].port \in Iface
      BY <1>1, <1>2, <1>5, <1>5a, <2>2 DEF AuditInv, Placed
    <2> QED
      BY <2>1, <2>3 DEF Placed
  <1>9. Working'
    <2> SUFFICES ASSUME NEW s \in Request, req'[s].pc = "link", req'[s].alone, req'[s].ok,
                        NEW i \in Iface, i < req'[s].port
                 PROVE  i \in down[req'[s].target] <=> req'[s].op = "cut"
      BY <1>1 DEF Working
    <2>1. s # r
      BY <1>2, <1>5a DEF Iface
    <2> QED
      BY <1>5, <2>1 DEF LinkInv, Working
  <1>10. CutByRequest'
    <2> SUFFICES ASSUME NEW m \in cutNodes
                 PROVE  \E s \in Request : /\ req'[s].op = "cut" /\ req'[s].target = m
                                           /\ req'[s].ok /\ req'[s].port = Ports + 1
      BY <1>1 DEF CutByRequest
    <2>1. PICK s \in Request : /\ req[s].op = "cut" /\ req[s].target = m
                               /\ req[s].ok /\ req[s].port = Ports + 1
      BY DEF LinkInv, CutByRequest
    <2>2. s # r
      BY <1>1, <2>1, IsolationAssumption
    <2> QED
      BY <1>5, <2>1, <2>2
  <1>11. SharpIsTold'
    BY <1>1 DEF SharpIsTold, LinkInv
  <1> QED
    BY <1>7, <1>8, <1>9, <1>10, <1>11 DEF AuditInv, LinkInv

\* One virsh command returns.
LEMMA LinkSetStep ==
  ASSUME AuditInv, LinkInv, NEW r \in Request, NEW worked \in BOOLEAN, LinkSet(r, worked)
  PROVE  AuditInv' /\ LinkInv'
  <1> DEFINE n == req[r].target
             i == req[r].port
             ok == req[r].ok /\ worked
             last == i = Ports
             pc == IF last THEN "insert" ELSE "link"
             st == [req[r] EXCEPT !.port = i + 1, !.ok = ok, !.pc = pc]
             links == IF ~ worked THEN down[n]
                      ELSE IF req[r].op = "cut" THEN down[n] \union {i} ELSE down[n] \ {i}
  <1>1. /\ req[r].pc = "link" /\ i \in Iface
        /\ req[r].op \in {"cut", "restore"} /\ n \in Machine \ Host
        /\ req[r].alone => Setting(n, r) = {}
        /\ req[r] \in RequestState /\ req \in [Request -> RequestState]
        /\ down \in [Machine -> SUBSET Iface]
    BY DEF LinkSet, AuditInv, Placed, TypeOK
  <1>2. /\ i \in Nat \ {0} /\ i <= Ports
        /\ ~ last => i + 1 \in Iface
        /\ i + 1 \in Iface \union {Ports + 1}
        /\ last => i + 1 = Ports + 1
    BY <1>1, IsolationAssumption DEF Iface
  <1>3. ok \in BOOLEAN
    BY <1>1 DEF RequestState
  <1>4. /\ st \in RequestState
        /\ st.op = req[r].op /\ st.target = n /\ st.alone = req[r].alone
        /\ st.pc = pc /\ st.ok = ok /\ st.port = i + 1
    BY <1>1, <1>2, <1>3 DEF RequestState
  <1>5. /\ req' = [req EXCEPT ![r] = st]
        /\ down' = [down EXCEPT ![n] = links]
        /\ IF last THEN Account(r, ok) ELSE cutNodes' = cutNodes
        /\ blurred' = IF last /\ ok /\ req[r].alone THEN blurred \ {n} ELSE blurred \union {n}
        /\ UNCHANGED <<policies, events, disk>>
    BY <1>1 DEF LinkSet, Relinked, Goes, logVars
  <1> HIDE DEF st
  <1>6. \A s \in Request : req'[s] = IF s = r THEN st ELSE req[s]
    BY <1>1, <1>5
  <1>7. /\ links \in SUBSET Iface
        /\ \A m \in Machine : down'[m] = IF m = n THEN links ELSE down[m]
    BY <1>1, <1>5
  <1>8. TypeOK' /\ Rows' /\ AnsweredIsAudited'
    <2>1. req' \in [Request -> RequestState] /\ down' \in [Machine -> SUBSET Iface]
      BY <1>1, <1>4, <1>5, <1>7
    <2>2. cutNodes' \subseteq Machine \ Host /\ blurred' \subseteq Machine
      BY <1>1, <1>5 DEF Account, AuditInv, TypeOK
    <2>3. pc \notin {"commit", "answered"} /\ req[r].pc = "link"
      BY <1>1
    <2> HIDE DEF pc
    <2> QED
      BY <1>4, <1>5, <1>6, <2>1, <2>2, <2>3 DEF AuditInv, TypeOK, Rows, AnsweredIsAudited
  <1>9. Placed'
    <2>1. ASSUME NEW s \in Request, req'[s].pc = "link", req'[s].alone
          PROVE  Setting(req[s].target, s)' = {}
      <3>1. Setting(req[s].target, s) = {} /\ req'[s].target = req[s].target
        BY <1>1, <1>4, <1>6, <2>1 DEF AuditInv, Placed
      <3> QED
        BY <1>1, <1>4, <1>6, <3>1 DEF Setting
    <2>2. ASSUME NEW s \in Request
          PROVE  /\ req'[s].pc = "call" /\ req'[s].op = "create" => req'[s].target \in Policy
                 /\ req'[s].pc \in {"list", "link"} =>
                      req'[s].op \in {"cut", "restore"} /\ req'[s].target \in Machine \ Host
                 /\ req'[s].pc \in {"new", "call", "list"} => req'[s].port = 1
                 /\ req'[s].pc = "link" => req'[s].port \in Iface
      BY <1>1, <1>2, <1>4, <1>6 DEF AuditInv, Placed
    <2> QED
      BY <2>1, <2>2 DEF Placed
  <1>10. ASSUME req[r].alone, ok, NEW j \in Iface, j < i + 1
         PROVE  j \in links <=> req[r].op = "cut"
    <2>1. j < i => (j \in down[n] <=> req[r].op = "cut")
      BY <1>1, <1>3, <1>10 DEF LinkInv, Working, RequestState
    <2>2. j < i \/ j = i
      BY <1>2, <1>10 DEF Iface
    <2>3. worked
      BY <1>10
    <2> QED
      BY <1>1, <2>1, <2>2, <2>3
  <1>11. Working'
    <2> SUFFICES ASSUME NEW s \in Request, req'[s].pc = "link", req'[s].alone, req'[s].ok,
                        NEW j \in Iface, j < req'[s].port
                 PROVE  j \in down'[req'[s].target] <=> req'[s].op = "cut"
      BY DEF Working
    <2>1. CASE s = r
      <3>1. req[r].alone /\ ok /\ j < i + 1
        BY <1>4, <1>6, <2>1
      <3>2. req'[s].target = n /\ req'[s].op = req[r].op /\ down'[n] = links
        BY <1>1, <1>4, <1>6, <1>7, <2>1
      <3>3. j \in links <=> req[r].op = "cut"
        BY <1>10, <3>1
      <3> HIDE DEF links
      <3> QED
        BY <3>2, <3>3
    <2>2. CASE s # r
      <3>1. req'[s] = req[s] /\ Setting(req[s].target, s) = {}
        BY <1>6, <2>2 DEF AuditInv, Placed
      <3>2. req[s].target # n
        BY <1>1, <2>2, <3>1 DEF Setting
      <3>3. req[s].target \in Machine
        BY <3>1 DEF AuditInv, Placed
      <3> QED
        BY <1>7, <3>1, <3>2, <3>3 DEF LinkInv, Working
    <2> QED
      BY <2>1, <2>2
  <1>12. CutByRequest'
    <2> SUFFICES ASSUME NEW m \in cutNodes'
                 PROVE  \E s \in Request : /\ req'[s].op = "cut" /\ req'[s].target = m
                                           /\ req'[s].ok /\ req'[s].port = Ports + 1
      BY DEF CutByRequest
    <2>1. m \in cutNodes \/ (last /\ ok /\ req[r].op = "cut" /\ m = n)
      BY <1>5 DEF Account
    <2>2. CASE m \in cutNodes
      <3>1. PICK s \in Request : /\ req[s].op = "cut" /\ req[s].target = m
                                 /\ req[s].ok /\ req[s].port = Ports + 1
        BY <2>2 DEF LinkInv, CutByRequest
      <3>2. s # r
        BY <1>2, <3>1, IsolationAssumption
      <3> QED
        BY <1>6, <3>1, <3>2
    <2>3. CASE last /\ ok /\ req[r].op = "cut" /\ m = n
      BY <1>2, <1>4, <1>6, <2>3
    <2> QED
      BY <2>1, <2>2, <2>3
  <1>13. SharpIsTold'
    <2> SUFFICES ASSUME NEW m \in Machine \ blurred'
                 PROVE  down'[m] = IF m \in cutNodes' THEN Iface ELSE {}
      BY DEF SharpIsTold
    <2>1. CASE m # n
      <3>1. m \notin blurred /\ (m \in cutNodes' <=> m \in cutNodes)
        BY <1>5, <2>1 DEF Account
      <3> QED
        BY <1>7, <2>1, <3>1 DEF LinkInv, SharpIsTold
    <2>2. CASE m = n
      <3>1. last /\ ok /\ req[r].alone
        BY <1>5, <2>2
      <3>2. \A j \in Iface : j < i + 1
        BY <1>2, <3>1, IsolationAssumption DEF Iface
      <3>3. \A j \in Iface : j \in links <=> req[r].op = "cut"
        BY <1>10, <3>1, <3>2
      <3>4. n \in cutNodes' <=> req[r].op = "cut"
        BY <1>1, <1>5, <3>1 DEF Account
      <3> HIDE DEF links
      <3> QED
        BY <1>7, <2>2, <3>3, <3>4
    <2> QED
      BY <2>1, <2>2
  <1> QED
    BY <1>8, <1>9, <1>11, <1>12, <1>13 DEF AuditInv, LinkInv

\* The call of virsh raises: the request is gone, and its machine is blurred if
\* the command had an effect on a link.
LEMMA RaiseStep ==
  ASSUME AuditInv, LinkInv, NEW r \in Request, VirshRaises(r)
  PROVE  AuditInv' /\ LinkInv'
  <1> DEFINE n == req[r].target
             st == [req[r] EXCEPT !.pc = "raised"]
  <1>1. /\ req[r] \in RequestState /\ req \in [Request -> RequestState]
        /\ down \in [Machine -> SUBSET Iface] /\ blurred \subseteq Machine
        /\ req' = [req EXCEPT ![r] = st]
        /\ UNCHANGED <<policies, cutNodes, events, disk>>
    BY DEF VirshRaises, Goes, AuditInv, TypeOK, logVars
  <1>2. /\ st \in RequestState /\ st.pc = "raised"
        /\ st.op = req[r].op /\ st.target = n /\ st.ok = req[r].ok /\ st.port = req[r].port
    BY <1>1 DEF RequestState
  <1>3. req[r].pc \in {"call", "list", "link"} /\ req[r].port # Ports + 1
    BY IsolationAssumption DEF VirshRaises, Calling, AuditInv, Placed, Iface
  <1>4. /\ \A m \in Machine \ {n} : down'[m] = down[m]
        /\ down' \in [Machine -> SUBSET Iface]
        /\ blurred' \subseteq Machine /\ blurred \subseteq blurred'
        /\ \A m \in Machine \ blurred' : down'[m] = down[m]
        /\ down' = down \/ req[r].pc = "link"
    <2>1. CASE UNCHANGED <<down, blurred>>
      BY <1>1, <2>1
    <2>2. CASE req[r].pc = "link" /\ down' = Relinked(r) /\ blurred' = blurred \union {n}
      <3>1. n \in Machine /\ req[r].port \in Iface
        BY <2>2 DEF AuditInv, Placed
      <3> QED
        BY <1>1, <2>2, <3>1 DEF Relinked
    <2> QED
      BY <2>1, <2>2 DEF VirshRaises
  <1> HIDE DEF st
  <1>5. \A s \in Request : req'[s] = IF s = r THEN st ELSE req[s]
    BY <1>1
  <1>6. TypeOK' /\ Rows' /\ AnsweredIsAudited'
    <2>1. /\ policies' \subseteq Policy /\ cutNodes' \subseteq Machine \ Host
          /\ Goes(r, st) /\ UNCHANGED logVars
      BY <1>1 DEF AuditInv, TypeOK, Goes, logVars
    <2> QED
      BY <1>2, <1>4, <2>1, QuietStep
  <1>7. Placed'
    <2>1. ASSUME NEW s \in Request, req'[s].pc = "link", req'[s].alone
          PROVE  Setting(req[s].target, s)' = {}
      <3>1. Setting(req[s].target, s) = {} /\ req'[s].target = req[s].target
        BY <1>2, <1>5, <2>1 DEF AuditInv, Placed
      <3> QED
        BY <1>2, <1>5, <3>1 DEF Setting
    <2> QED
      BY <1>2, <1>5, <2>1 DEF AuditInv, Placed
  <1>8. Working'
    <2> SUFFICES ASSUME NEW s \in Request, req'[s].pc = "link", req'[s].alone, req'[s].ok,
                        NEW j \in Iface, j < req'[s].port
                 PROVE  j \in down'[req'[s].target] <=> req'[s].op = "cut"
      BY DEF Working
    <2>1. s # r /\ req'[s] = req[s]
      BY <1>2, <1>5
    <2>2. Setting(req[s].target, s) = {} /\ req[s].target \in Machine
      BY <2>1 DEF AuditInv, Placed
    <2>3. down' = down \/ req[s].target # n
      BY <1>4, <2>1, <2>2 DEF Setting
    <2>4. down'[req[s].target] = down[req[s].target]
      BY <1>4, <2>2, <2>3
    <2> QED
      BY <2>1, <2>4 DEF LinkInv, Working
  <1>9. CutByRequest'
    <2> SUFFICES ASSUME NEW m \in cutNodes
                 PROVE  \E s \in Request : /\ req'[s].op = "cut" /\ req'[s].target = m
                                           /\ req'[s].ok /\ req'[s].port = Ports + 1
      BY <1>1 DEF CutByRequest
    <2>1. PICK s \in Request : /\ req[s].op = "cut" /\ req[s].target = m
                               /\ req[s].ok /\ req[s].port = Ports + 1
      BY DEF LinkInv, CutByRequest
    <2> QED
      BY <1>3, <1>5, <2>1
  <1>10. SharpIsTold'
    BY <1>1, <1>4 DEF SharpIsTold, LinkInv
  <1> QED
    BY <1>6, <1>7, <1>8, <1>9, <1>10 DEF AuditInv, LinkInv

\* A restart: no machine counts as cut, and those with links down are blurred.
LEMMA CrashStep ==
  ASSUME AuditInv, LinkInv, Crash
  PROVE  AuditInv' /\ LinkInv'
  <1>1. \A s \in Request :
          /\ req'[s] \in RequestState
          /\ req'[s].pc \in {"new", "answered", "raised", "lost"}
          /\ req'[s].pc # "lost" => req'[s] = req[s]
          /\ req'[s].port = req[s].port
    BY DEF Crash, AuditInv, TypeOK, RequestState
  <1>2. req' \in [Request -> RequestState]
    BY <1>1 DEF Crash
  <1>3. /\ UNCHANGED <<policies, down, disk>> /\ events' = disk /\ cutNodes' = {}
        /\ blurred' = {n \in Machine : down[n] # {}}
    BY DEF Crash, clusterVars
  <1>4. \A s \in events' : req'[s].pc \in {"commit", "answered", "raised", "lost"}
    <2> SUFFICES ASSUME NEW s \in disk PROVE req'[s].pc # "new"
      BY <1>1, <1>3 DEF AuditInv, TypeOK
    <2>1. s \in Request /\ req[s].pc # "new"
      BY DEF AuditInv, TypeOK
    <2> QED
      BY <1>1, <2>1
  <1>5. TypeOK'
    BY <1>2, <1>3, <1>4 DEF AuditInv, TypeOK
  <1>6. Rows' /\ Placed' /\ AnsweredIsAudited'
    BY <1>1, <1>3 DEF AuditInv, Rows, Placed, AnsweredIsAudited
  <1>7. Working' /\ CutByRequest' /\ SharpIsTold'
    BY <1>1, <1>3 DEF Working, CutByRequest, SharpIsTold
  <1> QED
    BY <1>5, <1>6, <1>7 DEF AuditInv, LinkInv

\* The invariant is inductive.
LEMMA Inductive == AuditInv /\ LinkInv /\ [Next]_vars => AuditInv' /\ LinkInv'
  <1> SUFFICES ASSUME AuditInv, LinkInv, [Next]_vars PROVE AuditInv' /\ LinkInv'
    OBVIOUS
  <1>1. ASSUME NEW r \in Request, Serve(r) PROVE AuditInv' /\ LinkInv'
    BY <1>1, AcceptStep, CallStep, ListedStep, LinkSetStep, RaiseStep, SaveStep DEF Serve
  <1>2. CASE Crash
    BY <1>2, CrashStep
  <1>3. CASE UNCHANGED vars
    BY <1>3 DEF vars, clusterVars, logVars, AuditInv, LinkInv, TypeOK, Placed, Setting, Rows,
      AnsweredIsAudited, Working, CutByRequest, SharpIsTold
  <1> QED
    BY <1>1, <1>2, <1>3 DEF Next

\* The state of the isolation requests and of the audit log has its type.
THEOREM TypeCorrect == Spec => []TypeOK
  <1>1. AuditInv => TypeOK
    BY DEF AuditInv
  <1> QED
    BY InvInitially, Inductive, <1>1, PTL DEF Spec

\* Every request that was answered has a durable event, however requests share
\* the transaction, fail and crash.
THEOREM AnswersAreAudited == Spec => []AnsweredIsAudited
  <1>1. AuditInv => AnsweredIsAudited
    BY DEF AuditInv
  <1> QED
    BY InvInitially, Inductive, <1>1, PTL DEF Spec

\* A step leaves the durable log alone or makes it what the connection sees,
\* which holds all of it.
LEMMA DiskGrows ==
  ASSUME AuditInv, [Next]_vars
  PROVE  disk \subseteq disk'
  <1>1. disk \subseteq events
    BY DEF AuditInv, TypeOK
  <1>2. ASSUME NEW r \in Request, Serve(r) PROVE disk' \in {disk, events}
    BY <1>2 DEF Serve, AcceptPolicy, AcceptMachine, PolicyCreated, PolicyDeleted, CallRefused,
      NoAnswer, MachineReset, Listed, NothingListed, LinkSet, VirshRaises, Inserted, Committed, SaveFails,
      logVars
  <1>3. CASE Crash \/ UNCHANGED vars
    BY <1>3 DEF Crash, vars, logVars
  <1> QED
    BY <1>1, <1>2, <1>3 DEF Next

\* The controller implements AuditLog: whichever requests share a transaction,
\* fail or are lost, its log is only added to, and an answer is in it.
THEOREM KeepsItsLog == Spec => Promise
  <1>1. Init => Log!Init
    BY DEF Init, New, Log!Init
  <1>2. AuditInv /\ AuditInv' /\ [Next]_vars => [Log!Next]_(Log!vars)
    <2> SUFFICES ASSUME AuditInv, AuditInv', [Next]_vars PROVE Log!Next
      OBVIOUS
    <2>1. disk \subseteq disk'
      BY DiskGrows
    <2>2. disk' \subseteq Request
      BY DEF AuditInv, TypeOK
    <2>3. {r \in Request : req[r].pc = "answered"}' \subseteq disk'
      BY DEF AuditInv, AnsweredIsAudited
    <2> QED
      BY <2>1, <2>2, <2>3 DEF Log!Next
  <1> QED
    BY InvInitially, Inductive, <1>1, <1>2, PTL DEF Spec, Promise, Log!Spec

\* The flag on the status page tells how the links are, for any number of
\* machines, interfaces and overlapping requests.
THEOREM FlagIsTrue == Spec => []FlagTellsLinks
  <1>1. LinkInv => FlagTellsLinks
    BY DEF LinkInv, CutByRequest, SharpIsTold, FlagTellsLinks
  <1> QED
    BY InvInitially, Inductive, <1>1, PTL DEF Spec
----------------------------------------------------------------------------
(* Partitions.                                                             *)

\* What a request that accounts for policy p looks like.
Accounts(a, p) ==
  /\ a.op = "create" /\ a.target = p
  /\ a.pc \in {"insert", "commit", "answered"} => a.ok
  /\ a.pc # "call"

\* A request that has not come yet accounts for none.
NewIsNone == \A r \in Request : req[r].pc = "new" => req[r].op = "none"

PolicyInv == NewIsNone /\ PoliciesAreAccountedFor

\* One request goes on and still accounts for what it did, as well as for the
\* policy it adds.
LEMMA AccountStep ==
  ASSUME AuditInv, PolicyInv, NEW r \in Request, NEW st, Goes(r, st), st.pc # "new",
         \A p \in Policy : Accounts(req[r], p) => Accounts(st, p),
         \A p \in policies' : p \in policies \/ Accounts(st, p)
  PROVE  PolicyInv'
  <1>1. \A s \in Request : req'[s] = IF s = r THEN st ELSE req[s]
    BY DEF Goes, AuditInv, TypeOK
  <1>2. NewIsNone'
    BY <1>1 DEF NewIsNone, PolicyInv
  <1>3. ASSUME NEW p \in policies' PROVE \E s \in Request : Accounts(req'[s], p)
    <2>1. CASE p \in policies
      <3>1. PICK s \in Request : Accounts(req[s], p)
        BY <2>1 DEF PolicyInv, PoliciesAreAccountedFor, Accounts
      <3>2. p \in Policy
        BY <2>1 DEF AuditInv, TypeOK
      <3>3. Accounts(req'[s], p)
        BY <1>1, <3>1, <3>2
      <3> QED
        BY <3>3
    <2>2. CASE p \notin policies
      BY <1>1, <1>3, <2>2
    <2> QED
      BY <2>1, <2>2
  <1> QED
    BY <1>2, <1>3 DEF PolicyInv, PoliciesAreAccountedFor, Accounts

\* A request is accepted; none that has come yet is given up.
LEMMA AcceptAccounts ==
  ASSUME AuditInv, PolicyInv, NEW r \in Request,
         \/ \E p \in Policy, op \in {"create", "delete"} : AcceptPolicy(r, op, p)
         \/ \E n \in Machine, op \in {"cut", "restore", "reset"} : AcceptMachine(r, op, n)
  PROVE  PolicyInv'
  <1>1. PICK op, t, pc :
          /\ Goes(r, [New EXCEPT !.op = op, !.target = t, !.pc = pc])
          /\ pc \in {"call", "list", "insert"}
          /\ req[r].pc = "new" /\ policies' = policies
    BY DEF AcceptPolicy, AcceptMachine, clusterVars
  <1> DEFINE st == [New EXCEPT !.op = op, !.target = t, !.pc = pc]
  <1>2. st.pc # "new"
    BY <1>1 DEF New
  <1>3. req[r].op # "create"
    BY <1>1 DEF PolicyInv, NewIsNone
  <1> HIDE DEF st
  <1>4. \A p \in Policy : ~ Accounts(req[r], p)
    BY <1>3 DEF Accounts
  <1> QED
    BY <1>1, <1>2, <1>4, AccountStep DEF st

\* A Kubernetes or virsh call ends: a policy it may have created has its
\* creation noted as a success, or as a call without an answer.
LEMMA CallAccounts ==
  ASSUME AuditInv, PolicyInv, NEW r \in Request,
         \/ PolicyCreated(r) \/ PolicyDeleted(r) \/ CallRefused(r) \/ NoAnswer(r)
         \/ MachineReset(r) \/ NothingListed(r)
  PROVE  PolicyInv'
  <1> DEFINE ended(ok) == [req[r] EXCEPT !.pc = "insert", !.ok = ok]
             raised == [req[r] EXCEPT !.pc = "raised"]
  <1>1. req[r] \in RequestState
    BY DEF AuditInv, TypeOK
  <1>2. \A p : ~ Accounts(req[r], p)
    BY DEF PolicyCreated, PolicyDeleted, CallRefused, NoAnswer, MachineReset, NothingListed,
      Calling, Accounts, AuditInv, Placed
  <1>3. /\ raised.pc = "raised" /\ raised.op = req[r].op /\ raised.target = req[r].target
        /\ \A ok \in BOOLEAN :
             /\ ended(ok).pc = "insert" /\ ended(ok).op = req[r].op
             /\ ended(ok).target = req[r].target /\ ended(ok).ok = ok
    BY <1>1 DEF RequestState
  <1>4. CASE PolicyCreated(r)
    <2>1. /\ Goes(r, ended(TRUE)) /\ req[r].op = "create"
          /\ policies' = policies \union {req[r].target}
      BY <1>4 DEF PolicyCreated, CallDone, Calling
    <2>2. Accounts(ended(TRUE), req[r].target)
      BY <1>3, <2>1 DEF Accounts
    <2>3. ended(TRUE).pc # "new"
      BY <1>3
    <2> HIDE DEF ended
    <2> QED
      BY <1>2, <2>1, <2>2, <2>3, AccountStep
  <1>5. CASE PolicyDeleted(r) \/ CallRefused(r) \/ MachineReset(r) \/ NothingListed(r)
    <2>1. \E ok \in BOOLEAN : Goes(r, ended(ok)) /\ policies' \subseteq policies
      BY <1>5 DEF PolicyDeleted, CallRefused, MachineReset, NothingListed, CallDone, clusterVars
    <2>2. \A ok \in BOOLEAN : ended(ok).pc # "new"
      BY <1>3
    <2> HIDE DEF ended
    <2> QED
      BY <1>2, <2>1, <2>2, AccountStep
  <1>6. CASE NoAnswer(r)
    <2>1. /\ Goes(r, raised)
          /\ \/ policies' \subseteq policies
             \/ req[r].op = "create" /\ policies' = policies \union {req[r].target}
      BY <1>6 DEF NoAnswer, Calling
    <2>2. req[r].op = "create" => Accounts(raised, req[r].target)
      BY <1>3 DEF Accounts
    <2>3. raised.pc # "new"
      BY <1>3
    <2> HIDE DEF raised
    <2> QED
      BY <1>2, <2>1, <2>2, <2>3, AccountStep
  <1> QED
    BY <1>4, <1>5, <1>6

\* The way to the audit log keeps the status.
LEMMA SaveAccounts ==
  ASSUME AuditInv, PolicyInv, NEW r \in Request, Inserted(r) \/ Committed(r) \/ SaveFails(r)
  PROVE  PolicyInv'
  <1>1. PICK pc \in {"commit", "answered", "raised"} :
          /\ Goes(r, [req[r] EXCEPT !.pc = pc])
          /\ req[r].pc \in {"insert", "commit"} /\ policies' = policies
    BY DEF Inserted, Committed, SaveFails, clusterVars
  <1> DEFINE st == [req[r] EXCEPT !.pc = pc]
  <1>2. /\ st.pc = pc /\ st.op = req[r].op /\ st.target = req[r].target /\ st.ok = req[r].ok
    BY DEF AuditInv, TypeOK, RequestState
  <1> HIDE DEF st
  <1>3. \A p \in Policy : Accounts(req[r], p) => Accounts(st, p)
    BY <1>1, <1>2 DEF Accounts
  <1>4. st.pc # "new"
    BY <1>1, <1>2
  <1> QED
    BY <1>1, <1>3, <1>4, AccountStep DEF st

\* What is done to links, and a crash, concern no request that accounts for a
\* policy, or leave it as one that was lost.
LEMMA OtherAccounts ==
  ASSUME AuditInv, PolicyInv,
         \/ \E r \in Request : Listed(r) \/ VirshRaises(r) \/ \E worked \in BOOLEAN : LinkSet(r, worked)
         \/ Crash
  PROVE  PolicyInv'
  <1>1. policies' = policies
    BY DEF Listed, LinkSet, VirshRaises, Crash, clusterVars
  <1>2. ASSUME NEW s \in Request
        PROVE  /\ req'[s].pc = "new" => req'[s] = req[s]
               /\ req[s].op = "create" =>
                    req'[s] = req[s] \/ (req'[s].op = "create" /\ req'[s].pc = "lost"
                                         /\ req'[s].target = req[s].target)
    <2>1. req[s] \in RequestState /\ req \in [Request -> RequestState]
      BY DEF AuditInv, TypeOK
    <2>2. req[s].pc \in {"list", "link"} => req[s].op # "create"
      BY DEF AuditInv, Placed
    <2>3. ASSUME NEW r \in Request, Listed(r) PROVE /\ req'[s].pc = "new" => req'[s] = req[s]
                                                    /\ req[s].op = "create" => req'[s] = req[s]
      BY <2>1, <2>2, <2>3 DEF Listed, Setting, RequestState
    <2>4. ASSUME NEW r \in Request, NEW worked \in BOOLEAN, LinkSet(r, worked)
          PROVE  /\ req'[s].pc = "new" => req'[s] = req[s]
                 /\ req[s].op = "create" => req'[s] = req[s]
      BY <2>1, <2>2, <2>4 DEF LinkSet, Goes, RequestState
    <2>5. ASSUME NEW r \in Request, VirshRaises(r)
          PROVE  /\ req'[s].pc = "new" => req'[s] = req[s]
                 /\ req[s].op = "create" => req'[s] = req[s]
      BY <2>1, <2>2, <2>5 DEF VirshRaises, Calling, Goes, RequestState
    <2>6. CASE Crash
      BY <2>1, <2>6 DEF Crash, RequestState
    <2> QED
      BY <2>3, <2>4, <2>5, <2>6
  <1>3. NewIsNone'
    BY <1>2 DEF NewIsNone, PolicyInv
  <1>4. \A p, s : s \in Request /\ Accounts(req[s], p) => Accounts(req'[s], p)
    BY <1>2 DEF Accounts
  <1>5. PoliciesAreAccountedFor'
    BY <1>1, <1>4 DEF PolicyInv, PoliciesAreAccountedFor, Accounts
  <1> QED
    BY <1>3, <1>5 DEF PolicyInv

\* No partition is in the cluster that no request accounts for: also a call
\* without an answer, a crash and a failing database leave a trace of it.
THEOREM PartitionsAreAccountedFor == Spec => []PoliciesAreAccountedFor
  <1>1. Init => PolicyInv
    BY DEF Init, New, PolicyInv, NewIsNone, PoliciesAreAccountedFor
  <1>2. AuditInv /\ PolicyInv /\ [Next]_vars => PolicyInv'
    <2> SUFFICES ASSUME AuditInv, PolicyInv, [Next]_vars PROVE PolicyInv'
      OBVIOUS
    <2>1. CASE UNCHANGED vars
      BY <2>1 DEF vars, clusterVars, PolicyInv, NewIsNone, PoliciesAreAccountedFor
    <2>2. ASSUME NEW r \in Request, Serve(r) PROVE PolicyInv'
      BY <2>2, AcceptAccounts, CallAccounts, SaveAccounts, OtherAccounts DEF Serve
    <2>3. CASE Crash
      BY <2>3, OtherAccounts
    <2> QED
      BY <2>1, <2>2, <2>3 DEF Next
  <1>3. PolicyInv => PoliciesAreAccountedFor
    BY DEF PolicyInv
  <1> QED
    BY InvInitially, Inductive, <1>1, <1>2, <1>3, PTL DEF Spec

=============================================================================
