------------------------------ MODULE AuditLog ------------------------------
(***************************************************************************)
(* What the HAMq services that keep an audit log promise of it, seen from  *)
(* outside: the arbiter of its audits (AuditTrail!Promise), the controller *)
(* of its events (Isolation!Promise).  Connections, transactions, requests *)
(* and crashes do not appear.                                              *)
(*                                                                         *)
(* The log is only ever added to.  What others are told of is in the log   *)
(* by then, and so for ever after, whether or not the service itself still *)
(* remembers having told it.                                               *)
(***************************************************************************)
CONSTANT Entry

VARIABLES
  kept,  \* entries of the log that survive a crash
  told   \* entries the service still speaks of

vars == <<kept, told>>

Init == kept = {} /\ told = {}

Next ==
  /\ kept \subseteq kept'
  /\ kept' \subseteq Entry
  /\ told' \subseteq told \union kept'

Spec == Init /\ [][Next]_vars
=============================================================================
