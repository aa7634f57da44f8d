------------------------------- MODULE Outbox -------------------------------
(***************************************************************************)
(* What `lsec notify` promises: an outbox with at-least-once delivery.  A  *)
(* notification is pending from the moment it is planned, with its payload *)
(* handed out, until it is settled, which takes a delivery, a user who     *)
(* says so or an answer to a redirected request.  It may be delivered      *)
(* again at any time.                                                      *)
(*                                                                         *)
(* A call that is cut short may move a notification without making sure of *)
(* it: then nothing moves until the notification falls back to where it is *)
(* for sure.                                                               *)
(*                                                                         *)
(* Notify is the detailed specification (the event log, the webhook); it   *)
(* is shown to implement this one.                                         *)
(***************************************************************************)
EXTENDS Naturals

CONSTANT Ids        \* notification identifiers

VARIABLES
  state,      \* of each notification: "none", "pending" or "settled"
  sure,       \* the same, without the last move if that may be lost
  written,    \* the notifications whose payload was handed to the user
  planned,    \* the notifications that were pending once
  delivered,  \* how often each was posted
  marked,     \* the notifications a user declared sent
  diverted    \* the notifications whose request was redirected

outboxVars == <<state, sure, written, planned, delivered, marked, diverted>>

OutboxInit ==
  /\ state = [id \in Ids |-> "none"] /\ sure = state
  /\ written = {} /\ planned = {}
  /\ delivered = [id \in Ids |-> 0]
  /\ marked = {} /\ diverted = {}

HandOut(id) ==
  /\ written' = written \cup {id}
  /\ UNCHANGED <<state, sure, planned, delivered, marked, diverted>>

\* Once and for all, or until it is lost.
Move(id, to) ==
  /\ state = sure /\ state[id] # to
  /\ state' = [state EXCEPT ![id] = to]
  /\ sure' \in {state', sure}

Plan(id) ==
  /\ id \in written /\ state[id] = "none"
  /\ Move(id, "pending")
  /\ planned' = planned \cup {id}
  /\ UNCHANGED <<written, delivered, marked, diverted>>

Deliver(id) ==
  /\ id \in planned
  /\ delivered' = [delivered EXCEPT ![id] = @ + 1]
  /\ UNCHANGED <<state, sure, written, planned, marked, diverted>>

DeclareSent(id) ==
  /\ id \in planned
  /\ marked' = marked \cup {id}
  /\ UNCHANGED <<state, sure, written, planned, delivered, diverted>>

Divert(id) ==
  /\ id \in planned
  /\ diverted' = diverted \cup {id}
  /\ UNCHANGED <<state, sure, written, planned, delivered, marked>>

Settle(id) ==
  /\ delivered[id] > 0 \/ id \in marked \cup diverted
  /\ Move(id, "settled")
  /\ UNCHANGED <<written, planned, delivered, marked, diverted>>

FallBack ==
  /\ state' = sure
  /\ UNCHANGED <<sure, written, planned, delivered, marked, diverted>>

OutboxNext ==
  \/ \E id \in Ids : \/ HandOut(id) \/ Plan(id) \/ Deliver(id) \/ DeclareSent(id)
                      \/ Divert(id) \/ Settle(id)
  \/ FallBack

OutboxSpec == OutboxInit /\ [][OutboxNext]_outboxVars
=============================================================================
