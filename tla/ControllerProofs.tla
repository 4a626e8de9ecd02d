-------------------------- MODULE ControllerProofs --------------------------
(***************************************************************************)
(* What holds of the controller for every cluster and every number of      *)
(* requests: its state has its type, and a drain accounts for every        *)
(* evictable pod of its node.                                              *)
(*                                                                         *)
(* The second fact is inductive together with HeldIsCordoned: a node that  *)
(* a drain holds is cordoned, so that no step can bring a pod to it.       *)
(***************************************************************************)
EXTENDS Controller, TLAPS

\* A drain that was not interfered with works on a cordoned node.
HeldIsCordoned ==
  \A r \in Request :
    req[r].held => req[r].pc \in {"list", "evict", "drained"} /\ req[r].node \in cordoned

\* A drain has a node to work on.
DrainHasNode ==
  \A r \in Request :
    req[r].pc \in {"cordon", "list", "evict", "drained"} => req[r].node \in Node

IInv == TypeOK /\ HeldIsCordoned /\ DrainHasNode /\ DrainLeavesOnlyRefused

\* The part of TypeOK that is about single variables.
Types ==
  /\ where \in [Pod -> Node \union {Nowhere}]
  /\ cordoned \subseteq Node
  /\ ready \in BOOLEAN
  /\ req \in [Request -> RequestState]

\* What the drains of one request may rely on.
Sound(r) ==
  /\ req[r].pc \in {"cordon", "list", "evict", "drained"} => req[r].node \in Node
  /\ req[r].pc = "evict" => req[r].pods \subseteq req[r].takes
  /\ req[r].held => req[r].pc \in {"list", "evict", "drained"} /\ req[r].node \in cordoned
  /\ req[r].held /\ req[r].pc \in {"evict", "drained"} =>
       On(req[r].node) \intersect Evictable \subseteq req[r].pods \union req[r].refused

\* Every drain evicts evictable pods, and only pods.
LEMMA TakesEvictable ==
  ASSUME NEW t \in Takes
  PROVE  Evictable \subseteq t /\ t \subseteq Pod
  <1>1. PICK ignore \in BOOLEAN, force \in BOOLEAN : t = Drained(ignore, force)
    BY DEF Takes
  <1> QED
    BY <1>1 DEF Drained, Evictable

\* Every pair of parameters names what a drain may be asked to evict.
LEMMA DrainedType ==
  ASSUME NEW ignore \in BOOLEAN, NEW force \in BOOLEAN
  PROVE  Drained(ignore, force) \in Takes
  BY DEF Takes

\* The idle request is a request state.
LEMMA IdleType == Idle \in RequestState
  <1>1. Drained(TRUE, FALSE) \in Takes
    BY DrainedType
  <1> QED
    BY <1>1 DEF Idle, RequestState

\* A handler that returns leaves its request idle and the types intact.
LEMMA ReturnsType ==
  ASSUME Types, NEW r \in Request, Returns(r)
  PROVE  req' \in [Request -> RequestState] /\ ready' \in BOOLEAN
  <1>1. req' = [req EXCEPT ![r] = Idle]
    BY DEF Returns, Goes
  <1>2. req' \in [Request -> RequestState]
    BY <1>1, IdleType DEF Types
  <1>3. ready' \in BOOLEAN
    BY DEF Returns, Types
  <1> QED
    BY <1>2, <1>3

\* IInv says that the variables have their types and every request is sound.
LEMMA IInvIsSound == IInv <=> Types /\ \A r \in Request : Sound(r)
  BY DEF IInv, HeldIsCordoned, DrainHasNode, DrainLeavesOnlyRefused, Sound, Types, TypeOK

\* Every cluster the controller may find satisfies the invariant.
LEMMA InitSound == Init => IInv
  <1> SUFFICES ASSUME Init PROVE IInv
    OBVIOUS
  <1>1. Types
    BY IdleType DEF Init, Types
  <1>2. ASSUME NEW r \in Request PROVE ~ req[r].held /\ req[r].pc = "idle"
    BY DEF Init, Idle
  <1> QED
    BY <1>1, <1>2, IInvIsSound DEF Sound

\* The types are kept by every step.
LEMMA TypeStep == Types /\ (\A r \in Request : Sound(r)) /\ [Next]_vars => Types'
  <1> SUFFICES ASSUME Types, \A r \in Request : Sound(r), [Next]_vars PROVE Types'
    OBVIOUS
  <1> USE ControllerAssumption
  <1>1. ASSUME NEW n \in Node, Cordon(n) PROVE Types'
    BY <1>1 DEF Types, Cordon
  <1>2. ASSUME NEW n \in Node, Uncordon(n) PROVE Types'
    <2>1. ASSUME NEW r \in Request
          PROVE [req[r] EXCEPT !.held = @ /\ req[r].node # n] \in RequestState
      BY DEF Types, RequestState
    <2>2. req' \in [Request -> RequestState]
      BY <1>2, <2>1 DEF Uncordon
    <2> QED
      BY <1>2, <2>2 DEF Types, Uncordon
  <1>3. ASSUME NEW p \in Pod, DeletePod(p) PROVE Types'
    BY <1>3 DEF Types, DeletePod
  <1>4. ASSUME NEW r \in Request, NEW n \in Node, NEW ignore \in BOOLEAN, NEW force \in BOOLEAN,
               DrainStarts(r, n, ignore, force)
        PROVE  Types'
    <2>1. [Idle EXCEPT !.pc = "cordon", !.node = n, !.takes = Drained(ignore, force)]
            \in RequestState
      BY IdleType, DrainedType DEF Idle, RequestState
    <2> QED
      BY <1>4, <2>1 DEF Types, DrainStarts, Goes, clusterVars
  <1>5. ASSUME NEW r \in Request, ChaosStarts(r) PROVE Types'
    <2>1. PICK action \in {"podDelete", "partition", "nodeDrain"} :
            Goes(r, [Idle EXCEPT !.pc = action, !.chaos = TRUE])
      BY <1>5 DEF ChaosStarts
    <2>2. [Idle EXCEPT !.pc = action, !.chaos = TRUE] \in RequestState
      BY IdleType DEF Idle, RequestState
    <2> QED
      BY <1>5, <2>1, <2>2 DEF Types, ChaosStarts, Goes, clusterVars
  <1>6. ASSUME NEW r \in Request, Advance(r) PROVE Types'
    <2> USE DEF Goes, clusterVars
    <2>0. req[r] \in RequestState
      BY DEF Types
    <2>1. CASE DrainCordons(r)
      <3>1. [req[r] EXCEPT !.pc = "list", !.held = TRUE] \in RequestState
        BY <2>0 DEF RequestState
      <3>2. req[r].node \in Node
        BY <2>1 DEF DrainCordons, Sound
      <3> QED
        BY <2>1, <3>1, <3>2 DEF Types, DrainCordons
    <2>2. CASE DrainLists(r)
      <3>1. [req[r] EXCEPT !.pc = "evict", !.pods = On(req[r].node) \intersect req[r].takes]
              \in RequestState
        BY <2>0 DEF RequestState, On
      <3> QED
        BY <2>2, <3>1 DEF Types, DrainLists
    <2>3. CASE DrainEvicts(r)
      <3>1. PICK p \in req[r].pods : Evicted(r, p) \/ Refused(r, p)
        BY <2>3 DEF DrainEvicts
      <3>2. p \in Pod
        BY <2>0 DEF RequestState
      <3>3. [req[r] EXCEPT !.pods = @ \ {p}] \in RequestState
        BY <2>0 DEF RequestState
      <3>4. CASE Evicted(r, p)
        BY <2>3, <3>2, <3>3, <3>4 DEF Types, DrainEvicts, Evicted
      <3>5. CASE Refused(r, p)
        <4>1. [req[r] EXCEPT !.pods = @ \ {p}, !.refused = @ \union {p}] \in RequestState
          BY <2>0, <3>2 DEF RequestState
        <4> QED
          BY <2>3, <3>5, <4>1 DEF Types, DrainEvicts, Refused
      <3> QED
        BY <3>1, <3>4, <3>5
    <2>4. CASE DrainEnds(r)
      <3>1. [req[r] EXCEPT !.pc = "drained"] \in RequestState
        BY <2>0 DEF RequestState
      <3> QED
        BY <2>4, <3>1 DEF Types, DrainEnds
    <2>5. CASE DrainReturns(r)
      BY <2>5, ReturnsType DEF Types, DrainReturns
    <2>6. CASE ChaosPicks(r)
      <3>2. ASSUME NEW n \in Node
            PROVE [req[r] EXCEPT !.pc = "cordon", !.node = n] \in RequestState
        BY <2>0 DEF RequestState
      <3>3. CASE \E p \in Pod : Goes(r, [req[r] EXCEPT !.pods = {p},
                    !.pc = IF @ = "podDelete" THEN "delete" ELSE "isolate"])
        <4>1. PICK p \in Pod : Goes(r, [req[r] EXCEPT !.pods = {p},
                    !.pc = IF @ = "podDelete" THEN "delete" ELSE "isolate"])
          BY <3>3
        <4>2. [req[r] EXCEPT !.pods = {p},
                    !.pc = IF @ = "podDelete" THEN "delete" ELSE "isolate"] \in RequestState
          BY <2>0 DEF RequestState
        <4> QED
          BY <2>6, <4>1, <4>2 DEF Types, ChaosPicks
      <3>4. CASE \E n \in WorkerNodes :
                   Goes(r, [req[r] EXCEPT !.pc = "cordon", !.node = n])
        <4>1. PICK n \in Node : Goes(r, [req[r] EXCEPT !.pc = "cordon", !.node = n])
          BY <3>4, ControllerAssumption DEF WorkerNodes
        <4> QED
          BY <2>6, <3>2, <4>1 DEF Types, ChaosPicks
      <3> QED
        BY <2>6, <3>3, <3>4 DEF ChaosPicks, RunningPods
    <2>7. CASE ChaosPasses(r)
      BY <2>7, ReturnsType DEF Types, ChaosPasses
    <2>8. CASE ChaosStrikes(r)
      BY <2>8, ReturnsType DEF Types, ChaosStrikes
    <2>9. CASE CallFails(r)
      BY <2>9, ReturnsType DEF Types, CallFails
    <2>10. CASE ConnectionFails(r)
      BY <2>10, IdleType DEF Types, ConnectionFails
    <2> QED
      BY <1>6, <2>1, <2>2, <2>3, <2>4, <2>5, <2>6, <2>7, <2>8, <2>9, <2>10 DEF Advance
  <1>7. ASSUME NEW p \in Pod, NEW n \in Node, Schedule(p, n) PROVE Types'
    BY <1>7 DEF Types, Schedule
  <1>8. CASE IntervalElapses
    BY <1>8 DEF Types, IntervalElapses, clusterVars
  <1>9. CASE UNCHANGED vars
    BY <1>9 DEF Types, vars, clusterVars
  <1> QED
    BY <1>1, <1>2, <1>3, <1>4, <1>5, <1>6, <1>7, <1>8, <1>9 DEF Next

\* No step brings an evictable pod to a cordoned node.
LEMMA CordonedNodesOnlyEmpty ==
  ASSUME Types, [Next]_vars, NEW n \in Node, n \in cordoned
  PROVE  {p \in Evictable : where'[p] = n} \subseteq On(n)
  <1> USE ControllerAssumption DEF On, Types, Evictable
  <1>1. ASSUME NEW p \in Pod, DeletePod(p) PROVE {q \in Evictable : where'[q] = n} \subseteq On(n)
    BY <1>1 DEF DeletePod
  <1>2. ASSUME NEW r \in Request, DrainEvicts(r) PROVE {q \in Evictable : where'[q] = n} \subseteq On(n)
    <2>1. req[r].pods \subseteq Pod
      BY DEF RequestState
    <2> QED
      BY <1>2, <2>1 DEF DrainEvicts, Evicted, Refused
  <1>3. ASSUME NEW r \in Request, ChaosStrikes(r) PROVE {q \in Evictable : where'[q] = n} \subseteq On(n)
    BY <1>3 DEF ChaosStrikes
  <1>4. ASSUME NEW p \in Pod, NEW m \in Node, Schedule(p, m) PROVE {q \in Evictable : where'[q] = n} \subseteq On(n)
    BY <1>4 DEF Schedule
  <1>5. ASSUME where' = where PROVE {q \in Evictable : where'[q] = n} \subseteq On(n)
    BY <1>5
  <1>6. ASSUME NEW r \in Request, Advance(r) PROVE {q \in Evictable : where'[q] = n} \subseteq On(n)
    <2>1. where' = where \/ DrainEvicts(r) \/ ChaosStrikes(r)
      BY <1>6 DEF Advance, DrainCordons, DrainLists, DrainEnds, DrainReturns, ChaosPicks,
                  ChaosPasses, CallFails, ConnectionFails, clusterVars
    <2> QED
      BY <1>2, <1>3, <1>5, <2>1
  <1>7. CASE where' = where
    BY <1>5, <1>7
  <1>8. where' = where \/ (\E p \in Pod : DeletePod(p)) \/ (\E r \in Request : Advance(r))
        \/ (\E p \in Pod, m \in Node : Schedule(p, m))
    BY DEF Next, vars, clusterVars, Cordon, Uncordon, DrainStarts, ChaosStarts, IntervalElapses
  <1> QED
    BY <1>1, <1>4, <1>6, <1>7, <1>8

\* Requests that a step does not touch stay sound, if it uncordons no node.
LEMMA OthersStaySound ==
  ASSUME Types, [Next]_vars, cordoned \subseteq cordoned',
         NEW r \in Request, Sound(r), req'[r] = req[r]
  PROVE  Sound(r)'
  <1>1. ASSUME req[r].held
        PROVE {p \in Evictable : where'[p] = req[r].node} \subseteq On(req[r].node)
    <2> DEFINE n == req[r].node
    <2>1. n \in cordoned /\ n \in Node
      BY <1>1 DEF Sound, Types
    <2> HIDE DEF n
    <2>2. {p \in Evictable : where'[p] = n} \subseteq On(n)
      BY <2>1, CordonedNodesOnlyEmpty
    <2> QED
      BY <2>2 DEF n
  <1> QED
    BY <1>1 DEF Sound, On

\* The step of one request leaves that request sound.
LEMMA AdvanceStaysSound ==
  ASSUME Types, [Next]_vars, NEW r \in Request, Sound(r), Advance(r)
  PROVE  Sound(r)'
  <1> USE ControllerAssumption DEF Goes
  <1>0. req[r] \in RequestState /\ req \in [Request -> RequestState]
    BY DEF Types
  <1>1. CASE DrainCordons(r)
    <2>1. req'[r] = [req[r] EXCEPT !.pc = "list", !.held = TRUE]
      BY <1>0, <1>1 DEF DrainCordons
    <2>2. req'[r].pc = "list" /\ req'[r].node = req[r].node
      BY <1>0, <2>1 DEF RequestState
    <2>3. req[r].node \in Node /\ req[r].node \in cordoned'
      BY <1>1 DEF DrainCordons, Sound
    <2> QED
      BY <2>2, <2>3 DEF Sound
  <1>2. CASE DrainLists(r)
    <2>1. req'[r] = [req[r] EXCEPT !.pc = "evict",
                                   !.pods = On(req[r].node) \intersect req[r].takes]
      BY <1>0, <1>2 DEF DrainLists
    <2>2. /\ req'[r].node = req[r].node /\ req'[r].held = req[r].held
          /\ req'[r].takes = req[r].takes
          /\ req'[r].pods = On(req[r].node) \intersect req[r].takes /\ req'[r].pc = "evict"
      BY <1>0, <2>1 DEF RequestState
    <2>4. Evictable \subseteq req[r].takes
      BY <1>0, TakesEvictable DEF RequestState
    <2>3. where' = where /\ cordoned' = cordoned /\ req[r].pc = "list"
      BY <1>2 DEF DrainLists, clusterVars
    <2> QED
      BY <2>2, <2>3, <2>4 DEF Sound, On
  <1>3. CASE DrainEvicts(r)
    <2>1. PICK p \in req[r].pods : Evicted(r, p) \/ Refused(r, p)
      BY <1>3 DEF DrainEvicts
    <2>2. cordoned' = cordoned /\ req[r].pc = "evict"
      BY <1>3 DEF DrainEvicts
    <2>3. /\ req[r].node \in Node /\ req[r].pods \subseteq req[r].takes
          /\ req[r].pods \subseteq Pod /\ Evictable \subseteq Pod
      BY <1>0, <2>2 DEF Sound, RequestState, Evictable
    <2>4. CASE Evicted(r, p)
      <3>1. req'[r] = [req[r] EXCEPT !.pods = @ \ {p}]
        BY <1>0, <2>4 DEF Evicted
      <3>2. /\ req'[r].pc = req[r].pc /\ req'[r].node = req[r].node
            /\ req'[r].held = req[r].held /\ req'[r].pods = req[r].pods \ {p}
            /\ req'[r].refused = req[r].refused /\ req'[r].takes = req[r].takes
        BY <1>0, <3>1 DEF RequestState
      <3>3. where' = [where EXCEPT ![p] = Nowhere]
        BY <2>4 DEF Evicted
      <3>4. {q \in Evictable : where'[q] = req[r].node} \subseteq On(req[r].node) \ {p}
        BY <2>3, <3>3 DEF Types, On
      <3> QED
        BY <2>2, <2>3, <3>2, <3>4 DEF Sound, On
    <2>5. CASE Refused(r, p)
      <3>1. req'[r] = [req[r] EXCEPT !.pods = @ \ {p}, !.refused = @ \union {p}]
        BY <1>0, <2>5 DEF Refused
      <3>2. /\ req'[r].pc = req[r].pc /\ req'[r].node = req[r].node
            /\ req'[r].held = req[r].held /\ req'[r].pods = req[r].pods \ {p}
            /\ req'[r].refused = req[r].refused \union {p} /\ req'[r].takes = req[r].takes
        BY <1>0, <3>1 DEF RequestState
      <3>3. where' = where
        BY <2>5 DEF Refused
      <3> QED
        BY <2>2, <2>3, <3>2, <3>3 DEF Sound, On
    <2> QED
      BY <2>1, <2>4, <2>5
  <1>4. CASE DrainEnds(r)
    <2>1. req'[r] = [req[r] EXCEPT !.pc = "drained"]
      BY <1>0, <1>4 DEF DrainEnds
    <2>2. /\ req'[r].pc = "drained" /\ req'[r].node = req[r].node
          /\ req'[r].held = req[r].held /\ req'[r].pods = req[r].pods
          /\ req'[r].refused = req[r].refused
      BY <1>0, <2>1 DEF RequestState
    <2>3. where' = where /\ cordoned' = cordoned /\ req[r].pc = "evict"
      BY <1>4 DEF DrainEnds, clusterVars
    <2> QED
      BY <2>2, <2>3 DEF Sound, On
  <1>5. ASSUME req'[r] = Idle PROVE Sound(r)'
    BY <1>5 DEF Sound, Idle
  <1>6. CASE ChaosPicks(r)
    <2>1. ~ req[r].held
      BY <1>6 DEF ChaosPicks, Sound
    <2>2. CASE \E n \in WorkerNodes :
                 Goes(r, [req[r] EXCEPT !.pc = "cordon", !.node = n])
      <3>1. PICK n \in Node : req'[r] = [req[r] EXCEPT !.pc = "cordon", !.node = n]
        BY <1>0, <2>2, ControllerAssumption DEF WorkerNodes
      <3>2. req'[r].pc = "cordon" /\ req'[r].node = n /\ req'[r].held = req[r].held
        BY <1>0, <3>1 DEF RequestState
      <3> QED
        BY <2>1, <3>2 DEF Sound
    <2>3. CASE \E p \in Pod : Goes(r, [req[r] EXCEPT !.pods = {p},
                 !.pc = IF @ = "podDelete" THEN "delete" ELSE "isolate"])
      <3>1. PICK p \in Pod : req'[r] = [req[r] EXCEPT !.pods = {p},
                 !.pc = IF @ = "podDelete" THEN "delete" ELSE "isolate"]
        BY <1>0, <2>3
      <3>2. req'[r].pc \in {"delete", "isolate"} /\ req'[r].held = req[r].held
        BY <1>0, <3>1 DEF RequestState
      <3> QED
        BY <2>1, <3>2 DEF Sound
    <2> QED
      BY <1>6, <2>2, <2>3 DEF ChaosPicks, RunningPods
  <1>7. CASE DrainReturns(r) \/ ChaosPasses(r) \/ ChaosStrikes(r) \/ CallFails(r)
             \/ ConnectionFails(r)
    <2>1. req'[r] = Idle
      BY <1>0, <1>7 DEF DrainReturns, ChaosPasses, ChaosStrikes, CallFails, ConnectionFails, Returns
    <2> QED
      BY <1>5, <2>1
  <1> QED
    BY <1>1, <1>2, <1>3, <1>4, <1>6, <1>7 DEF Advance

\* An operator who uncordons a node releases the drains of that node.
LEMMA UncordonStaysSound ==
  ASSUME Types, NEW n \in Node, Uncordon(n), NEW r \in Request, Sound(r)
  PROVE  Sound(r)'
  <1>0. req[r] \in RequestState
    BY DEF Types
  <1>1. req'[r] = [req[r] EXCEPT !.held = @ /\ req[r].node # n]
    BY DEF Uncordon
  <1>2. /\ req'[r].pc = req[r].pc /\ req'[r].node = req[r].node
        /\ req'[r].pods = req[r].pods /\ req'[r].refused = req[r].refused
        /\ req'[r].takes = req[r].takes
        /\ req'[r].held = (req[r].held /\ req[r].node # n)
    BY <1>0, <1>1 DEF RequestState
  <1>3. cordoned' = cordoned \ {n} /\ where' = where
    BY DEF Uncordon
  <1> QED
    BY <1>2, <1>3 DEF Sound, On

\* Every step leaves every request sound.
LEMMA SoundStep ==
  ASSUME Types, [Next]_vars, NEW r \in Request, Sound(r)
  PROVE  Sound(r)'
  <1>0. req \in [Request -> RequestState]
    BY DEF Types
  <1>1. ASSUME NEW n \in Node, Uncordon(n) PROVE Sound(r)'
    BY <1>1, UncordonStaysSound
  <1>2. ASSUME NEW s \in Request, Advance(s) PROVE Sound(r)'
    <2>1. CASE s = r
      BY <1>2, <2>1, AdvanceStaysSound
    <2>2. CASE s # r
      <3>1. cordoned \subseteq cordoned'
        BY <1>2 DEF Advance, DrainCordons, DrainLists, DrainEvicts, DrainEnds, DrainReturns,
                    ChaosPicks, ChaosPasses, ChaosStrikes, CallFails, ConnectionFails, clusterVars
      <3>2. req'[r] = req[r]
        BY <1>0, <1>2, <2>2
           DEF Advance, DrainCordons, DrainLists, DrainEvicts, Evicted, Refused, DrainEnds,
               DrainReturns, ChaosPicks, ChaosPasses, ChaosStrikes, CallFails, ConnectionFails,
               Returns, Goes
      <3> QED
        BY <3>1, <3>2, OthersStaySound
    <2> QED
      BY <2>1, <2>2
  <1>3. ASSUME NEW s \in Request, NEW n \in Node, NEW ignore \in BOOLEAN, NEW force \in BOOLEAN,
               DrainStarts(s, n, ignore, force)
        PROVE  Sound(r)'
    <2>1. CASE s = r
      <3>1. req'[r] = [Idle EXCEPT !.pc = "cordon", !.node = n,
                                   !.takes = Drained(ignore, force)]
        BY <1>0, <1>3, <2>1 DEF DrainStarts, Goes
      <3> QED
        BY <3>1 DEF Sound, Idle
    <2>2. CASE s # r
      <3>1. cordoned' = cordoned /\ req'[r] = req[r]
        BY <1>0, <1>3, <2>2 DEF DrainStarts, Goes, clusterVars
      <3> QED
        BY <3>1, OthersStaySound
    <2> QED
      BY <2>1, <2>2
  <1>4. ASSUME NEW s \in Request, ChaosStarts(s) PROVE Sound(r)'
    <2>1. PICK action \in {"podDelete", "partition", "nodeDrain"} :
            req' = [req EXCEPT ![s] = [Idle EXCEPT !.pc = action, !.chaos = TRUE]]
      BY <1>4 DEF ChaosStarts, Goes
    <2>2. CASE s = r
      <3>1. req'[r] = [Idle EXCEPT !.pc = action, !.chaos = TRUE]
        BY <1>0, <2>1, <2>2
      <3> QED
        BY <3>1 DEF Sound, Idle
    <2>3. CASE s # r
      <3>1. cordoned' = cordoned /\ req'[r] = req[r]
        BY <1>0, <1>4, <2>1, <2>3 DEF ChaosStarts, clusterVars
      <3> QED
        BY <3>1, OthersStaySound
    <2> QED
      BY <2>2, <2>3
  <1>5. CASE req' = req /\ cordoned \subseteq cordoned'
    BY <1>5, OthersStaySound
  <1>6. \/ req' = req /\ cordoned \subseteq cordoned'
        \/ \E n \in Node : Uncordon(n)
        \/ \E s \in Request : ChaosStarts(s) \/ Advance(s)
        \/ \E s \in Request, n \in Node, ignore, force \in BOOLEAN :
             DrainStarts(s, n, ignore, force)
    BY DEF Next, vars, clusterVars, Cordon, DeletePod, Schedule, IntervalElapses
  <1> QED
    BY <1>1, <1>2, <1>3, <1>4, <1>5, <1>6

\* The invariant holds in every state of every cluster.
LEMMA Invariance == Spec => []IInv
  <1>1. IInv /\ [Next]_vars => IInv'
    <2> SUFFICES ASSUME IInv, [Next]_vars PROVE IInv'
      OBVIOUS
    <2>1. Types /\ \A r \in Request : Sound(r)
      BY IInvIsSound
    <2>2. Types'
      BY <2>1, TypeStep
    <2>3. ASSUME NEW r \in Request PROVE Sound(r)'
      BY <2>1, SoundStep
    <2>4. IInv' <=> Types' /\ \A r \in Request : Sound(r)'
      BY DEF IInv, HeldIsCordoned, DrainHasNode, DrainLeavesOnlyRefused, Sound, Types, TypeOK
    <2> QED
      BY <2>2, <2>3, <2>4
  <1> QED
    BY InitSound, <1>1, PTL DEF Spec

\* The state of the controller always has its type, and a drain evicts only
\* the pods that its parameters name.
THEOREM TypeCorrect == Spec => []TypeOK
  <1>1. IInv => TypeOK
    BY DEF IInv
  <1> QED
    BY Invariance, <1>1, PTL

\* However drains, chaos runs, operators and the scheduler interleave, a
\* drain accounts for every evictable pod of its node (drain_node).
THEOREM DrainsAreComplete == Spec => []DrainLeavesOnlyRefused
  <1>1. IInv => DrainLeavesOnlyRefused
    BY DEF IInv
  <1> QED
    BY Invariance, <1>1, PTL

=============================================================================
