-------------------------- MODULE MCServiceDiscovery --------------------------
(* An instance of ServiceDiscovery for TLC: the three services.               *)
EXTENDS ServiceDiscovery, TLC

CONSTANTS chat, user, session

MCLink == {<<chat, user>>, <<chat, session>>, <<user, session>>, <<session, user>>}
MCAddr == (chat :> {1}) @@ (user :> {1}) @@ (session :> {1, 2})
===============================================================================
