-------------------------- MODULE MCAuthentication --------------------------
(* Values for the constants of Authentication.                             *)
EXTENDS Authentication

CONSTANTS device, role, firebase, m1, m2

MCKey == {firebase}
MCCaller == {m1, m2}
=============================================================================
