----------------------------- MODULE MCGateway -----------------------------
(* Values for the constants of Gateway: a device publishes to a browser    *)
(* that comes with two sockets.                                            *)
EXTENDS Gateway, TLC

CONSTANTS dev, b1, c1, c2, c3, p1, p2

MCDevice == {dev}
MCBrowser == {b1}
MCSock == {c1, c2, c3}
MCRoute == {[from |-> dev, to |-> {b1}, allowed |-> {b1}]}
MCKind == {[qos |-> 2, ttl |-> 1, notify |-> FALSE]}

MCProduct == {p1, p2}
MCProductOf == dev :> p2 @@ b1 :> p1

\* A session that the browser's first socket creates is told of the device, one
\* that its second creates is not.
MCInit ==
  /\ Init
  /\ owner = (c1 :> b1 @@ c2 :> b1 @@ c3 :> dev)
  /\ asks = (c1 :> AnyProduct @@ c2 :> p1 @@ c3 :> AnyProduct)

MCSpec == MCInit /\ [][Next]_vars
=============================================================================
