----------------------------- MODULE MCDelivery -----------------------------
(* Values for the constants of Delivery: a device and two browsers.        *)
EXTENDS Delivery, TLC

CONSTANTS dev, b1, b2

MCUser == {dev, b1, b2}
TwoUsers == {dev, b1}

\* A device publishes to both browsers of its tenant; all may receive it.
Fanout == {[from |-> dev, to |-> {b1, b2}, allowed |-> {b1, b2}]}

\* One receiver.
Single == {[from |-> dev, to |-> {b1}, allowed |-> {b1}]}

\* Events for one browser, and events for both that the whitelist of b2 does not
\* cover: b2 is then a target like one that is offline.
Mixed == Single \cup {[from |-> dev, to |-> {b1, b2}, allowed |-> {b1}]}

Qos1 == [qos |-> 1, ttl |-> 1, notify |-> FALSE]
Qos2 == [qos |-> 2, ttl |-> 1, notify |-> TRUE]
Long2 == [qos |-> 2, ttl |-> 4, notify |-> FALSE]

Both == {Qos1, Qos2}
OnlyQos1 == {Qos1}
OnlyQos2 == {[qos |-> 2, ttl |-> 1, notify |-> FALSE]}
BothAndLong == {Qos1, Qos2, Long2}

\* The two browsers are interchangeable in every route that names both.
Browsers == Permutations({b1, b2})
=============================================================================
