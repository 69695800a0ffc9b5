------------------------------ MODULE Presence ------------------------------
(***************************************************************************)
(* What the gateway promises about who is there, without connections,      *)
(* timers or queries: a user comes, is missed for a while and comes back   *)
(* or is given up; and an observer, once it has been given the states of   *)
(* the devices in its scope, is told of each change in the step in which   *)
(* it happens, and of nothing outside its scope, for as long as it stays.  *)
(* A user that is there is never given up without having been missed.      *)
(*                                                                         *)
(* Module Session implements this specification; Gateway does so across    *)
(* restarts of the process.                                                *)
(***************************************************************************)
CONSTANTS
  Device,  \* whose presence is told
  Browser  \* who may observe

User == Device \cup Browser

VARIABLES
  presence, \* the state of each user
  told      \* a function on the observers: what each of them believes

vars == <<presence, told>>

Nobody == [b \in {} |-> [d \in Device |-> "unknown"]]

Init ==
  /\ presence = [u \in User |-> "OFFLINE"]
  /\ told = Nobody

Legal == {<<"OFFLINE", "ONLINE">>, <<"ONLINE", "SUSPEND">>,
          <<"SUSPEND", "ONLINE">>, <<"SUSPEND", "OFFLINE">>}

\* Observers may leave with every step.
NoneJoins == DOMAIN told' \subseteq DOMAIN told

\* What b believes of u becomes x, if u is in b's scope.
Learns(b, u, x) ==
  [d \in Device |-> IF d = u /\ told[b][d] # "unknown" THEN x ELSE told[b][d]]

Change(u, x) ==
  /\ <<presence[u], x>> \in Legal
  /\ presence' = [presence EXCEPT ![u] = x]
  /\ NoneJoins
  /\ told' = [b \in DOMAIN told' |-> Learns(b, u, x)]

\* b is given the states of the devices in its scope.
Observe(b, scope) ==
  /\ told' = [o \in DOMAIN told \cup {b} |->
                IF o = b
                THEN [d \in Device |-> IF d \in scope THEN presence[d] ELSE "unknown"]
                ELSE told[o]]
  /\ UNCHANGED presence

\* Those that stay keep what they believe.
Leave ==
  /\ NoneJoins
  /\ told' = [b \in DOMAIN told' |-> told[b]]
  /\ UNCHANGED presence

\* The process has died: nobody is there and nobody observes.
Restart ==
  /\ presence' = [u \in User |-> "OFFLINE"]
  /\ told' = Nobody

Next ==
  \/ \E u \in User, x \in {"ONLINE", "SUSPEND", "OFFLINE"} : Change(u, x)
  \/ \E b \in Browser, scope \in SUBSET Device : Observe(b, scope)
  \/ Leave
  \/ Restart

Spec == Init /\ [][Next]_vars
=============================================================================
