-------------------------------- MODULE Outbox --------------------------------
(***************************************************************************)
(* What the HAMq producer promises of the messages it takes charge of, seen*)
(* from outside: neither loops nor transactions nor crashes appear.  The   *)
(* detailed module Producer implements this one (Producer!Promise).        *)
(*                                                                         *)
(* A message is held while its row on disk waits to be sent, published once*)
(* it is in the topic, and dropped once the producer has logged that it    *)
(* may be lost: evicted from a full buffer, or refused by the database.    *)
(***************************************************************************)
CONSTANT Msg

VARIABLES
  accepted,   \* messages reported as sent
  held,       \* messages that would survive a crash, to be sent
  published,  \* messages in the topic
  dropped     \* messages whose loss was logged

vars == <<accepted, held, published, dropped>>

Init ==
  /\ accepted = {}
  /\ held = {}
  /\ published = {}
  /\ dropped = {}

\* Where a message is not silently lost.
Safe == held \union published \union dropped

\* A message is reported as sent only when it is safe.
Accepts ==
  /\ accepted \subseteq accepted'
  /\ accepted' \ accepted \subseteq Safe'

Accept ==
  /\ UNCHANGED <<held, published, dropped>>
  /\ Accepts

Publish(m) ==
  /\ published' = published \union {m}
  /\ UNCHANGED <<accepted, held, dropped>>

Drop(m) ==
  /\ dropped' = dropped \union {m}
  /\ UNCHANGED <<held, published>>
  /\ Accepts

\* A commit: what is no longer held is in the topic or dropped, and what was
\* reported as sent does not come back to be sent again.
Commit ==
  /\ UNCHANGED <<published, dropped>>
  /\ held' \subseteq Msg
  /\ held \ held' \subseteq published \union dropped
  /\ (held' \ held) \intersect accepted \subseteq dropped
  /\ Accepts

Next ==
  \/ Accept
  \/ \E m \in Msg : Publish(m) \/ Drop(m)
  \/ Commit

Spec == Init /\ [][Next]_vars
===============================================================================
