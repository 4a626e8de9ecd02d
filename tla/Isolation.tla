------------------------------ MODULE Isolation ------------------------------
(***************************************************************************)
(* The HAMq controller's requests that isolate pods and machines, and the  *)
(* audit log every request ends with.                                      *)
(*                                                                         *)
(* A network partition is a NetworkPolicy, created or deleted by one       *)
(* Kubernetes call; the partitions of the ChaosEngine are creations too.   *)
(* Cutting or restoring the network of a virtual machine takes one virsh   *)
(* command to list its interfaces and one for each of them; the controller *)
(* keeps the names of the machines it has cut in memory, for its status    *)
(* page.  Resetting or rebooting a machine is one command.                 *)
(*                                                                         *)
(* A request is one step per await.  save_event() inserts and commits in   *)
(* two awaits on a connection that all requests share, so that a commit    *)
(* takes along the rows that others have inserted.  A Kubernetes call that *)
(* gets no answer raises out of the handler, whether it took effect or     *)
(* not, and so may the call of virsh.  The policies, the links and the     *)
(* committed log outlive a crash of the controller; what a request was     *)
(* doing when it crashed is lost.                                          *)
(* The gauge of active partitions is left out.                             *)
(***************************************************************************)
EXTENDS Naturals

CONSTANTS
  Request,   \* bound: requests (each is served once and has an event of its own)
  Policy,    \* names of NetworkPolicies
  Machine,   \* Kubernetes nodes
  Host,      \* those that are the hypervisor itself: HOST_NODES
  Ports      \* network interfaces of a machine, numbered in virsh's order

ASSUME IsolationAssumption ==
  /\ Host \subseteq Machine
  /\ Ports \in Nat \ {0}

VARIABLES
  policies,   \* the policies in the cluster
  down,       \* machine -> its interfaces whose link is down
  cutNodes,   \* app.state.network_cut_nodes
  events,     \* the events table as the shared connection sees it
  disk,       \* the events table as last committed
  req,        \* the requests
  blurred     \* machines whose links nobody can tell from requests: see below

clusterVars == <<policies, down>>
logVars == <<events, disk>>
vars == <<clusterVars, cutNodes, logVars, req, blurred>>

Iface == 1 .. Ports

\* ok: the status of the event is "success"; port: the interface to set next;
\* alone: no other request has worked on the links of the machine meanwhile.
RequestState ==
  [op : {"none", "create", "delete", "cut", "restore", "reset"},
   target : Policy \union Machine \union {"none"},
   pc : {"new", "call", "list", "link", "insert", "commit",
         "answered", "raised", "lost"},
   ok : BOOLEAN, port : Iface \union {Ports + 1}, alone : BOOLEAN]

New == [op |-> "none", target |-> "none", pc |-> "new", ok |-> FALSE,
        port |-> 1, alone |-> FALSE]

\* The other requests that are setting the links of machine n.
Setting(n, r) == {s \in Request \ {r} : req[s].pc = "link" /\ req[s].target = n}

Init ==
  /\ policies = {}
  /\ down = [n \in Machine |-> {}]
  /\ cutNodes = {}
  /\ events = {} /\ disk = {}
  /\ req = [r \in Request |-> New]
  /\ blurred = {}

Goes(r, state) == req' = [req EXCEPT ![r] = state]

\* The call is over and the event has its status; save_event() comes next.
CallDone(r, ok) == Goes(r, [req[r] EXCEPT !.pc = "insert", !.ok = ok])

----------------------------------------------------------------------------
(* Network policies.                                                       *)

AcceptPolicy(r, op, p) ==
  /\ req[r].pc = "new"
  /\ op \in {"create", "delete"}
  /\ Goes(r, [New EXCEPT !.op = op, !.target = p, !.pc = "call"])
  /\ UNCHANGED <<clusterVars, cutNodes, logVars, blurred>>

Calling(r, op) == req[r].pc = "call" /\ req[r].op = op

PolicyCreated(r) ==
  /\ Calling(r, "create")
  /\ req[r].target \notin policies
  /\ policies' = policies \union {req[r].target}
  /\ CallDone(r, TRUE)
  /\ UNCHANGED <<down, cutNodes, logVars, blurred>>

\* A policy that is not there any more counts as deleted.
PolicyDeleted(r) ==
  /\ Calling(r, "delete")
  /\ policies' = policies \ {req[r].target}
  /\ CallDone(r, TRUE)
  /\ UNCHANGED <<down, cutNodes, logVars, blurred>>

\* ApiException (a creation: also because the name is taken), a client that is
\* not connected, or a virsh command that fails.
CallRefused(r) ==
  /\ req[r].pc = "call"
  /\ CallDone(r, FALSE)
  /\ UNCHANGED <<clusterVars, cutNodes, logVars, blurred>>

\* Seeded fault: a call without an answer is reported as failed.
NoAnswerIsFailure(r) ==
  /\ Calling(r, "create") \/ Calling(r, "delete")
  /\ policies' = IF req[r].op = "create" THEN policies \union {req[r].target}
                                         ELSE policies \ {req[r].target}
  /\ CallDone(r, FALSE)
  /\ UNCHANGED <<down, cutNodes, logVars, blurred>>

\* The API server does not answer; it may have done what it was asked for.
NoAnswer(r) ==
  /\ Calling(r, "create") \/ Calling(r, "delete")
  /\ \/ UNCHANGED policies
     \/ policies' = IF req[r].op = "create" THEN policies \union {req[r].target}
                                            ELSE policies \ {req[r].target}
  /\ Goes(r, [req[r] EXCEPT !.pc = "raised"])
  /\ UNCHANGED <<down, cutNodes, logVars, blurred>>

----------------------------------------------------------------------------
(* Machines.                                                               *)

\* Seeded fault: the hypervisor is taken for a virtual machine.
AcceptAnyMachine(r, op, n) ==
  /\ req[r].pc = "new"
  /\ op \in {"cut", "restore", "reset"}
  /\ Goes(r, [New EXCEPT !.op = op, !.target = n,
                         !.pc = IF op = "reset" THEN "call" ELSE "list"])
  /\ UNCHANGED <<clusterVars, cutNodes, logVars, blurred>>

\* is_kvm_node(): requests for the hypervisor fail without a command.
AcceptMachine(r, op, n) ==
  /\ req[r].pc = "new"
  /\ op \in {"cut", "restore", "reset"}
  /\ Goes(r, [New EXCEPT !.op = op, !.target = n,
                         !.pc = IF n \in Host THEN "insert"
                                ELSE IF op = "reset" THEN "call" ELSE "list"])
  /\ UNCHANGED <<clusterVars, cutNodes, logVars, blurred>>

MachineReset(r) ==
  /\ Calling(r, "reset")
  /\ CallDone(r, TRUE)
  /\ UNCHANGED <<clusterVars, cutNodes, logVars, blurred>>

\* The interfaces are known.  Two requests on one machine are not alone.
Listed(r) ==
  /\ req[r].pc = "list"
  /\ LET others == Setting(req[r].target, r)
     IN req' = [s \in Request |->
          CASE s = r        -> [req[r] EXCEPT !.pc = "link", !.ok = TRUE,
                                              !.alone = others = {}]
            [] s \in others -> [req[s] EXCEPT !.alone = FALSE]
            [] OTHER        -> req[s]]
  /\ UNCHANGED <<clusterVars, cutNodes, logVars, blurred>>

\* virsh lists no interface, or fails.
NothingListed(r) ==
  /\ req[r].pc = "list"
  /\ CallDone(r, FALSE)
  /\ UNCHANGED <<clusterVars, cutNodes, logVars, blurred>>

\* Seeded fault: a cut counts although some interface could not be set.
AccountAlways(r, ok) ==
  cutNodes' = IF req[r].op = "cut" THEN cutNodes \union {req[r].target}
              ELSE cutNodes \ {req[r].target}

\* The handler has its answer and keeps account of the machines it has cut.
Account(r, ok) ==
  cutNodes' = IF ~ ok THEN cutNodes
              ELSE IF req[r].op = "cut" THEN cutNodes \union {req[r].target}
              ELSE cutNodes \ {req[r].target}

\* The links when the command for the request's next interface has worked.
Relinked(r) ==
  [down EXCEPT ![req[r].target] =
     IF req[r].op = "cut" THEN @ \union {req[r].port} ELSE @ \ {req[r].port}]

\* One command has returned (worked: with success); a failure is noted and the
\* next interface is set all the same.  The machine is blurred unless this
\* request has set all its interfaces, and nobody else any meanwhile.
LinkSet(r, worked) ==
  LET n == req[r].target
      i == req[r].port
      ok == req[r].ok /\ worked
      last == i = Ports
  IN /\ req[r].pc = "link"
     /\ down' = IF worked THEN Relinked(r) ELSE down
     /\ Goes(r, [req[r] EXCEPT !.port = i + 1, !.ok = ok,
                               !.pc = IF last THEN "insert" ELSE "link"])
     /\ IF last THEN Account(r, ok) ELSE UNCHANGED cutNodes
     /\ blurred' = IF last /\ ok /\ req[r].alone THEN blurred \ {n}
                   ELSE blurred \union {n}
     /\ UNCHANGED <<policies, logVars>>

\* The call of virsh raises out of the handler, before or after the command has
\* worked: the other interfaces are not set, and no event is saved.
VirshRaises(r) ==
  /\ req[r].pc \in {"list", "link"} \/ Calling(r, "reset")
  /\ \/ UNCHANGED <<down, blurred>>
     \/ /\ req[r].pc = "link"
        /\ down' = Relinked(r)
        /\ blurred' = blurred \union {req[r].target}
  /\ Goes(r, [req[r] EXCEPT !.pc = "raised"])
  /\ UNCHANGED <<policies, cutNodes, logVars>>

----------------------------------------------------------------------------
(* The audit log: save_event(), and the end of every request.              *)

Inserted(r) ==
  /\ req[r].pc = "insert"
  /\ events' = events \union {r}
  /\ Goes(r, [req[r] EXCEPT !.pc = "commit"])
  /\ UNCHANGED <<clusterVars, cutNodes, disk, blurred>>

\* Seeded fault: the answer does not wait for the commit to succeed.
CommittedLater(r) ==
  /\ req[r].pc = "commit"
  /\ Goes(r, [req[r] EXCEPT !.pc = "answered"])
  /\ UNCHANGED <<clusterVars, cutNodes, logVars, blurred>>

Committed(r) ==
  /\ req[r].pc = "commit"
  /\ disk' = events
  /\ Goes(r, [req[r] EXCEPT !.pc = "answered"])
  /\ UNCHANGED <<clusterVars, cutNodes, events, blurred>>

\* The database raises: the client gets an error.
SaveFails(r) ==
  /\ req[r].pc \in {"insert", "commit"}
  /\ Goes(r, [req[r] EXCEPT !.pc = "raised"])
  /\ UNCHANGED <<clusterVars, cutNodes, logVars, blurred>>

\* Seeded fault: the events table is made anew.
CrashEmptiesLog ==
  /\ cutNodes' = {}
  /\ events' = {}
  /\ req' = [r \in Request |->
       IF req[r].pc \in {"call", "list", "link", "insert", "commit"}
       THEN [req[r] EXCEPT !.pc = "lost"] ELSE req[r]]
  /\ blurred' = {n \in Machine : down[n] # {}}
  /\ UNCHANGED <<clusterVars, disk>>

\* The process ends and starts again, knowing no cut machine.
Crash ==
  /\ cutNodes' = {}
  /\ events' = disk
  /\ req' = [r \in Request |->
       IF req[r].pc \in {"call", "list", "link", "insert", "commit"}
       THEN [req[r] EXCEPT !.pc = "lost"] ELSE req[r]]
  /\ blurred' = {n \in Machine : down[n] # {}}
  /\ UNCHANGED <<clusterVars, disk>>

Serve(r) ==
  \/ \E p \in Policy, op \in {"create", "delete"} : AcceptPolicy(r, op, p)
  \/ \E n \in Machine, op \in {"cut", "restore", "reset"} : AcceptMachine(r, op, n)
  \/ PolicyCreated(r) \/ PolicyDeleted(r) \/ CallRefused(r) \/ NoAnswer(r)
  \/ MachineReset(r)
  \/ Listed(r) \/ NothingListed(r)
  \/ \E worked \in BOOLEAN : LinkSet(r, worked)
  \/ VirshRaises(r)
  \/ Inserted(r) \/ Committed(r) \/ SaveFails(r)

Next == (\E r \in Request : Serve(r)) \/ Crash

Spec == Init /\ [][Next]_vars

----------------------------------------------------------------------------

\* The state has its type, and the log has no event of a request that has
\* nothing to report yet.
TypeOK ==
  /\ policies \subseteq Policy
  /\ down \in [Machine -> SUBSET Iface]
  /\ cutNodes \subseteq Machine \ Host
  /\ req \in [Request -> RequestState]
  /\ blurred \subseteq Machine
  /\ disk \subseteq events
  /\ events \subseteq {r \in Request : req[r].pc \in {"commit", "answered", "raised", "lost"}}

\* Whoever got an answer finds its event in the log for ever, also after a
\* crash (docstring of save_event: "Persist a cluster event to the audit log"),
\* although requests share one transaction.
AnsweredIsAudited ==
  \A r \in Request : req[r].pc = "answered" => r \in disk

\* What the readers of the audit log rely on: it is only added to, by whichever
\* request commits, and an answer speaks of an event that is in it by then.
Log == INSTANCE AuditLog WITH
  Entry <- Request,
  kept  <- disk,
  told  <- {r \in Request : req[r].pc = "answered"}

Promise == Log!Spec

\* Every partition in the cluster is accounted for: its creation is in the log,
\* or about to be, or it ended in an error or a crash (create_network_partition
\* of the client and of the route).
PoliciesAreAccountedFor ==
  \A p \in policies : \E r \in Request :
    /\ req[r].op = "create" /\ req[r].target = p
    /\ req[r].pc \in {"insert", "commit", "answered"} => req[r].ok
    /\ req[r].pc # "call"

\* network_cut tells the truth: a machine is shown as cut only after a request
\* has cut all its links; a machine shown as cut has every link down, and any
\* other machine has every link up.  Blurred machines are excepted from the
\* second part: the last request that touched their links is still at work,
\* failed, overlapped another one or was lost, or they were cut when the
\* controller restarted (cut_node_network, restore_node_network).
FlagTellsLinks ==
  /\ \A n \in cutNodes : \E r \in Request :
       req[r].op = "cut" /\ req[r].target = n /\ req[r].ok /\ req[r].port = Ports + 1
  /\ \A n \in Machine \ blurred : down[n] = IF n \in cutNodes THEN Iface ELSE {}

=============================================================================
