---------------------------- MODULE MCRouteTable ----------------------------
(* A small instance of RouteTable, for every configuration of the client.  *)
EXTENDS RouteTable
=============================================================================
