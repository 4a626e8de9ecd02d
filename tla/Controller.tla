----------------------------- MODULE Controller -----------------------------
(***************************************************************************)
(* The HAMq controller: the handlers that act on the Kubernetes cluster    *)
(* (cordon, uncordon, drain, delete or restart a pod) and the ChaosEngine, *)
(* which deletes, isolates or drains a victim of its choice.               *)
(*                                                                         *)
(* Every Kubernetes call leaves the event loop, so requests interleave at  *)
(* each call.  A handler that makes a single call and reads nothing before *)
(* it is one step; a drain and a chaos run are one step per call.          *)
(*                                                                         *)
(* The cluster is external: the scheduler binds the pods that wait to      *)
(* nodes that are not cordoned, and a pod that is deleted or evicted waits *)
(* again, under the same name (StatefulSet).  Termination takes no time.   *)
(* The clock of the rate limit is the flag "ready": the interval has       *)
(* elapsed since _last_chaos_time.  Partition policies, the operations on  *)
(* the virtual machines and the audit log are the subject of module        *)
(* Isolation; nothing here reads them.  Metrics are left out.              *)
(***************************************************************************)
EXTENDS FiniteSets

CONSTANTS
  Node,       \* Kubernetes nodes
  Workers,    \* those that are not control-plane nodes
  Pod,        \* pod names
  Daemons,    \* pods of a DaemonSet
  Statics,    \* pods without an owner
  Request,    \* bound: drain and chaos requests in progress at a time
  Nowhere     \* the node of a pod that waits to be scheduled

ASSUME ControllerAssumption ==
  /\ Workers \subseteq Node
  /\ Daemons \subseteq Pod /\ Statics \subseteq Pod
  /\ Nowhere \notin Node

VARIABLES
  where,     \* the node each pod is bound to
  cordoned,  \* nodes marked unschedulable
  ready,     \* the chaos rate limit would let a run pass
  req        \* the drain and chaos requests

clusterVars == <<where, cordoned>>
vars == <<clusterVars, ready, req>>

\* The pods that no drain spares.
Evictable == Pod \ (Daemons \union Statics)

\* The pods that a drain with these parameters evicts from its node.
Drained(ignore_daemonsets, force) ==
  Pod \ ((IF ignore_daemonsets THEN Daemons ELSE {}) \union (IF force THEN {} ELSE Statics))

\* What a drain may be asked to evict.
Takes == {Drained(ignore, force) : ignore, force \in BOOLEAN}

\* chaos: made by the ChaosEngine; node: the node to drain; takes: the pods to
\* evict if they are there; pods: still to evict, or the victim; refused:
\* evictions that failed; held: the node was cordoned for the drain and not
\* uncordoned since.
RequestState ==
  [pc : {"idle", "cordon", "list", "evict", "drained", "podDelete",
         "partition", "nodeDrain", "delete", "isolate"},
   chaos : BOOLEAN, node : Node \union {Nowhere},
   takes : Takes, pods : SUBSET Pod,
   refused : SUBSET Pod, held : BOOLEAN]

\* The parameters have the defaults, which the ChaosEngine gives too.
Idle == [pc |-> "idle", chaos |-> FALSE, node |-> Nowhere, takes |-> Drained(TRUE, FALSE),
         pods |-> {}, refused |-> {}, held |-> FALSE]

On(n) == {p \in Pod : where[p] = n}

\* What the ChaosEngine chooses from: list_pods() and list_nodes(), filtered.
RunningPods == {p \in Pod : where[p] # Nowhere}
WorkerNodes == Workers \ cordoned

Init ==
  /\ where \in [Pod -> Node]
  /\ cordoned = {}
  /\ ready \in BOOLEAN  \* FALSE when the host itself started less than the interval ago
  /\ req = [r \in Request |-> Idle]

----------------------------------------------------------------------------
(* Requests of one call.                                                   *)

Cordon(n) ==
  /\ cordoned' = cordoned \union {n}
  /\ UNCHANGED <<where, ready, req>>

\* A drain of n in progress no longer holds the node.
Uncordon(n) ==
  /\ cordoned' = cordoned \ {n}
  /\ req' = [r \in Request |-> [req[r] EXCEPT !.held = @ /\ req[r].node # n]]
  /\ UNCHANGED <<where, ready>>

DeletePod(p) ==
  /\ where' = [where EXCEPT ![p] = Nowhere]
  /\ UNCHANGED <<cordoned, ready, req>>

----------------------------------------------------------------------------
(* A request of several calls: drain_node, and run_chaos.                  *)

Goes(r, state) == req' = [req EXCEPT ![r] = state]

\* The handler returns; a chaos run restarts the interval on the way.
Returns(r) ==
  /\ Goes(r, Idle)
  /\ ready' = (ready /\ ~ req[r].chaos)

DrainStarts(r, n, ignore_daemonsets, force) ==
  /\ req[r].pc = "idle"
  /\ Goes(r, [Idle EXCEPT !.pc = "cordon", !.node = n,
                         !.takes = Drained(ignore_daemonsets, force)])
  /\ UNCHANGED <<clusterVars, ready>>

\* Seeded fault: the node is left schedulable.
DrainListsOnly(r) ==
  /\ req[r].pc = "cordon"
  /\ Goes(r, [req[r] EXCEPT !.pc = "list", !.held = TRUE])
  /\ UNCHANGED <<clusterVars, ready>>

DrainCordons(r) ==
  /\ req[r].pc = "cordon"
  /\ cordoned' = cordoned \union {req[r].node}
  /\ Goes(r, [req[r] EXCEPT !.pc = "list", !.held = TRUE])
  /\ UNCHANGED <<where, ready>>

\* Seeded fault: pods of a DaemonSet, and static ones, are never skipped.
DrainListsUnfiltered(r) ==
  /\ req[r].pc = "list"
  /\ Goes(r, [req[r] EXCEPT !.pc = "evict", !.pods = On(req[r].node)])
  /\ UNCHANGED <<clusterVars, ready>>

DrainLists(r) ==
  /\ req[r].pc = "list"
  /\ Goes(r, [req[r] EXCEPT !.pc = "evict",
                            !.pods = On(req[r].node) \intersect req[r].takes])
  /\ UNCHANGED <<clusterVars, ready>>

\* Eviction is by name: it takes the pod wherever it is by now.
Evicted(r, p) ==
  /\ where' = [where EXCEPT ![p] = Nowhere]
  /\ Goes(r, [req[r] EXCEPT !.pods = @ \ {p}])

\* The exception of one eviction is logged and the drain goes on.
Refused(r, p) ==
  /\ Goes(r, [req[r] EXCEPT !.pods = @ \ {p}, !.refused = @ \union {p}])
  /\ UNCHANGED where

DrainEvicts(r) ==
  /\ req[r].pc = "evict"
  /\ \E p \in req[r].pods : Evicted(r, p) \/ Refused(r, p)
  /\ UNCHANGED <<cordoned, ready>>

\* All pods tried: the event says "success".
DrainEnds(r) ==
  /\ req[r].pc = "evict"
  /\ req[r].pods = {}
  /\ Goes(r, [req[r] EXCEPT !.pc = "drained"])
  /\ UNCHANGED <<clusterVars, ready>>

DrainReturns(r) ==
  /\ req[r].pc = "drained"
  /\ Returns(r)
  /\ UNCHANGED clusterVars

\* The gate is checked here, and set only when the run returns.
ChaosStarts(r) ==
  /\ req[r].pc = "idle"
  /\ ready
  /\ \E action \in {"podDelete", "partition", "nodeDrain"} :
       Goes(r, [Idle EXCEPT !.pc = action, !.chaos = TRUE])
  /\ UNCHANGED <<clusterVars, ready>>

\* The list of pods or nodes has come back.
ChaosPicks(r) ==
  /\ \/ /\ req[r].pc \in {"podDelete", "partition"}
        /\ \E p \in RunningPods :
             Goes(r, [req[r] EXCEPT !.pods = {p},
                    !.pc = IF @ = "podDelete" THEN "delete" ELSE "isolate"])
     \/ /\ req[r].pc = "nodeDrain"
        /\ \E n \in WorkerNodes :
             Goes(r, [req[r] EXCEPT !.pc = "cordon", !.node = n])
  /\ UNCHANGED <<clusterVars, ready>>

\* A dry run, no victim, or an empty list because the call failed.
ChaosPasses(r) ==
  /\ req[r].pc \in {"podDelete", "partition", "nodeDrain"}
  /\ Returns(r)
  /\ UNCHANGED clusterVars

ChaosStrikes(r) ==
  /\ req[r].pc \in {"delete", "isolate"}
  /\ where' = [p \in Pod |-> IF req[r].pc = "delete" /\ p \in req[r].pods
                            THEN Nowhere ELSE where[p]]
  /\ Returns(r)
  /\ UNCHANGED cordoned

\* ApiException: the event says "failed"; what was done stays done.
CallFails(r) ==
  /\ req[r].pc \in {"cordon", "list", "delete", "isolate"}
  /\ Returns(r)
  /\ UNCHANGED clusterVars

\* No answer from the API server: the exception leaves the handler.
ConnectionFails(r) ==
  /\ req[r].pc \notin {"idle", "drained"}
  /\ Goes(r, Idle)
  /\ UNCHANGED <<clusterVars, ready>>

Advance(r) ==
  \/ DrainCordons(r) \/ DrainLists(r) \/ DrainEvicts(r) \/ DrainEnds(r)
  \/ DrainReturns(r) \/ ChaosPicks(r) \/ ChaosPasses(r) \/ ChaosStrikes(r)
  \/ CallFails(r) \/ ConnectionFails(r)

----------------------------------------------------------------------------
(* The surroundings.                                                       *)

\* A cordon keeps out neither the pods of a DaemonSet nor static ones.
Schedule(p, n) ==
  /\ where[p] = Nowhere
  /\ p \in Evictable => n \notin cordoned
  /\ where' = [where EXCEPT ![p] = n]
  /\ UNCHANGED <<cordoned, ready, req>>

IntervalElapses ==
  /\ ~ ready
  /\ ready' = TRUE
  /\ UNCHANGED <<clusterVars, req>>

Next ==
  \/ \E n \in Node : Cordon(n) \/ Uncordon(n)
  \/ \E p \in Pod : DeletePod(p)
  \/ \E r \in Request, n \in Node, ignore, force \in BOOLEAN : DrainStarts(r, n, ignore, force)
  \/ \E r \in Request : ChaosStarts(r) \/ Advance(r)
  \/ \E p \in Pod, n \in Node : Schedule(p, n)
  \/ IntervalElapses

Spec == Init /\ [][Next]_vars

----------------------------------------------------------------------------

\* The state has its type: pods are bound to nodes, and a drain works on the
\* pods it was asked to evict only.
TypeOK ==
  /\ where \in [Pod -> Node \union {Nowhere}]
  /\ cordoned \subseteq Node
  /\ ready \in BOOLEAN
  /\ req \in [Request -> RequestState]
  /\ \A r \in Request : req[r].pc = "evict" => req[r].pods \subseteq req[r].takes

\* A drain accounts for every evictable pod of its node: unless an operator
\* uncordoned the node meanwhile, what still runs there is waiting for its
\* eviction or refused it; after "success" only pods that refused are left
\* (drain_node cordons before it lists).  Pods of a DaemonSet and static ones
\* are excepted: evicted or not, they may be there, as a cordon does not keep
\* them out.
DrainLeavesOnlyRefused ==
  \A r \in Request :
    req[r].held /\ req[r].pc \in {"evict", "drained"} =>
      On(req[r].node) \intersect Evictable \subseteq req[r].pods \union req[r].refused

\* Only one chaos run at a time works on its victim, the least that "too
\* close together" can mean (docstring of ChaosEngine and _check_interval).
\* The gate is set after the run, so that a second request passes it.
ChaosRunsApart ==
  \A r, s \in Request :
    LET strikes(q) == req[q].chaos /\ req[q].pc \in {"delete", "isolate", "list", "evict"}
    IN strikes(r) /\ strikes(s) => r = s

=============================================================================
