------------------------------ MODULE MCSession ------------------------------
(* Values for the constants of Session.                                    *)
EXTENDS Session, TLC

CONSTANTS dev, b1, c1, c2, c3, p1, p2

MCDevice == {dev}
MCBrowser == {b1}
MCSock == {c1, c2, c3}
MCDead == {c1}
MCProduct == {p1, p2}
MCProductOf == dev :> p1 @@ b1 :> p1
Sockets == Permutations(MCSock)

\* The device comes with two of the sockets, the browser with the third.  (In
\* MCGateway it is the other way round.)  Only the browser's URL has a product that
\* anybody looks at: none, its own or another.
MCInit ==
  /\ Init
  /\ owner = (c1 :> dev @@ c2 :> dev @@ c3 :> b1)
  /\ asks[c1] = AnyProduct /\ asks[c2] = AnyProduct

MCSpec == MCInit /\ [][Next]_vars /\ Fairness
=============================================================================
