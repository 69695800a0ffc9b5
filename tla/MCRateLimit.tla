---------------------------- MODULE MCRateLimit ----------------------------
(* Values for the constants of RateLimit.                                  *)
EXTENDS RateLimit

CONSTANTS ip1, ip1ip1

OneIp == {ip1}

\* A client may send as its token or header what happens to be an address.
OneCred == {ip1}
Strings == {ip1, ip1ip1}
Joined == [p \in OneIp \X OneCred |-> ip1ip1]

\* The rules meet under ip1: requests without credentials, and REST calls whose
\* header is that string.  Only handshakes count under "ip1:ip1".
Rules == [r \in {"ws:preConnect", "rest:postConnect"} |->
            IF r = "ws:preConnect" THEN [windowMs |-> 1, maxAttempts |-> 2]
                                   ELSE [windowMs |-> 2, maxAttempts |-> 3]]
=============================================================================
