------------------------------ MODULE MCPushEvents ------------------------------
(***************************************************************************)
(* Five events, of which the cfg has one refused and one not interpreted,  *)
(* and three processors: one subscribed by channel and by event (the case  *)
(* calledProcessors is for), one by event, and the proxy handler, which is *)
(* subscribed to all and to one event besides.  Another instance of the    *)
(* plugin comes and goes.                                                  *)
(***************************************************************************)
EXTENDS PushProxy

CONSTANTS releases, stands, proxy

MCProcessors == {releases, stands, proxy}
MCByChannel  == [e \in EventIds |-> IF e = 1 THEN {releases} ELSE {}]
MCByEvent    == [e \in EventIds |-> IF e = 1 THEN {releases, proxy} ELSE {stands}]
MCByAll      == {proxy}
===============================================================================
