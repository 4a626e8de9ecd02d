-------------------------------- MODULE Inbox --------------------------------
(***************************************************************************)
(* What the HAMq consumer promises of the records of the topic, seen from  *)
(* outside: clients, loops, transactions and crashes do not appear.  The   *)
(* detailed module Consumer implements this one (Consumer!Promise).        *)
(*                                                                         *)
(* Records are acknowledged one at a time, in the order of the topic, none *)
(* skipped and none twice, and each only once its message is stored.  What *)
(* leaves the store leaves it by the retention.                            *)
(***************************************************************************)
EXTENDS Naturals, Sequences

CONSTANT Msg

VARIABLES
  topic,    \* the records, in offset order
  next,     \* the offset a restart resumes from
  stored,   \* messages in the store that survive a crash
  pruned    \* messages the retention has removed

vars == <<topic, next, stored, pruned>>

Records == {topic[i] : i \in DOMAIN topic}

Init ==
  /\ topic = <<>>
  /\ next = 1
  /\ stored = {}
  /\ pruned = {}

Arrive ==
  /\ \E m \in Msg : topic' = Append(topic, m)
  /\ UNCHANGED <<next, stored, pruned>>

\* A commit of the store.
Keep ==
  /\ stored' \subseteq Records
  /\ pruned \subseteq pruned'
  /\ pruned' \subseteq Records
  /\ stored \ stored' \subseteq pruned'
  /\ UNCHANGED <<topic, next>>

Acknowledge ==
  /\ next \in DOMAIN topic
  /\ topic[next] \in stored \union pruned
  /\ next' = next + 1
  /\ UNCHANGED <<topic, stored, pruned>>

Next == Arrive \/ Keep \/ Acknowledge

Spec == Init /\ [][Next]_vars
==============================================================================
