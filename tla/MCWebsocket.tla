------------------------------ MODULE MCWebsocket ------------------------------
(* Websockets on small instances. *)
EXTENDS Websocket

MCOneSlots == 0 .. 1    \* a listener and a connection
MCTwoSlots == 0 .. 2    \* a listener and two connections
MCFds == 0 .. 2
=============================================================================
