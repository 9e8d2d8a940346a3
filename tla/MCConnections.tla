--------------------------- MODULE MCConnections ---------------------------
(* A small instance of Connections: two sockets that may use one client id, *)
(* at once or one after the other, or an id each, and two messages, so that *)
(* the listener goes on after a fan-out that raised.                        *)
EXTENDS Connections
=============================================================================
