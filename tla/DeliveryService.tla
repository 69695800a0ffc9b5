-------------------------- MODULE DeliveryService --------------------------
(***************************************************************************)
(* What the gateway promises about an event of QoS 1 or 2, without saying  *)
(* how: no sockets, no index, no statuses, no timers.  From the moment it  *)
(* accepts an event the gateway owes it to each of the event's users, and  *)
(* it stops owing it for one of four reasons only: the user is served, the *)
(* deadline has passed, there is too much to remember, or the process was  *)
(* restarted.  What it has stopped owing it never sends.                   *)
(*                                                                         *)
(* Module Delivery implements this specification.                          *)
(***************************************************************************)
EXTENDS Integers, FiniteSets

CONSTANTS
  User, NEvents,       \* users, and how many events are ever accepted
  MaxTotal, MaxPerUser \* what the gateway is prepared to remember

VARIABLES
  entry,    \* the accepted events: their users, QoS and deadline
  owed,     \* the pairs of event and user the gateway still has to serve
  received, \* the pairs of event and user where the client was sent the event
  acked,    \* the pairs where the client has acknowledged it
  restarts, \* how often the process was restarted
  clock     \* the time

vars == <<entry, owed, received, acked, restarts, clock>>

Event == 1 .. NEvents

NoEntry == [to |-> {}, qos |-> 0, deadline |-> 0]

Accepted(e) == entry[e] # NoEntry

Init ==
  /\ entry = [e \in Event |-> NoEntry]
  /\ owed = {}
  /\ received = {}
  /\ acked = {}
  /\ restarts = 0
  /\ clock = 1

\* The pairs of an event that enters with this step.
Entering == UNION {{e} \X entry'[e].to : e \in {f \in Event : ~ Accepted(f)}}

\* A QoS 1 event is served by sending it, a QoS 2 event by its acknowledgement.
Served == {p \in received' : entry'[p[1]].qos = 1} \cup acked'

(***************************************************************************)
(* What any step may do: accept one event at most, send what is owed and   *)
(* nothing else, and take an acknowledgement of what was sent before, even *)
(* a late one.                                                             *)
(***************************************************************************)
Exchange ==
  /\ UNCHANGED clock
  /\ \/ UNCHANGED entry
     \/ \E e \in Event : ~ Accepted(e) /\ \A f \in Event \ {e} : entry'[f] = entry[f]
  /\ received \subseteq received'
  /\ received' \ received \subseteq owed \cup Entering
  /\ acked \subseteq acked'
  /\ acked' \ acked \subseteq {p \in received : entry[p[1]].qos = 2}

\* Normal operation: nothing that is not served is forgotten.
Serve ==
  /\ Exchange
  /\ owed' = (owed \cup Entering) \ Served
  /\ UNCHANGED restarts

\* More was accepted for a user, or in total, than the gateway remembers.
Overload ==
  \/ Cardinality({e \in Event : entry'[e] # NoEntry}) > MaxTotal
  \/ \E u \in User : Cardinality({e \in Event : u \in entry'[e].to}) > MaxPerUser

\* Some of it is given up, and only then.
Shed ==
  /\ Exchange /\ Overload
  /\ owed' \subseteq (owed \cup Entering) \ Served
  /\ UNCHANGED restarts

\* The process dies, possibly while it sends a new event: nothing is owed any
\* more, and what was sent by then was sent.
Restart == Exchange /\ owed' = {} /\ restarts' = restarts + 1

\* Time passes, and an event is owed up to its deadline and not longer.
Tick ==
  /\ clock' = clock + 1
  /\ owed' = {p \in owed : clock' <= entry[p[1]].deadline}
  /\ UNCHANGED <<entry, received, acked, restarts>>

Next == Serve \/ Shed \/ Restart \/ Tick

Spec == Init /\ [][Next]_vars
=============================================================================
