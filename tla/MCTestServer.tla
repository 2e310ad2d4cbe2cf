---------------------------- MODULE MCTestServer ----------------------------
(* Two tests creating servers in parallel over two ports, which other      *)
(* processes may also take; NewServerWithRandomPort's bound of five.       *)
EXTENDS TestServer

CONSTANTS s1, s2, p1, p2

MCServers == {s1, s2}
MCPorts == {p1, p2}
=============================================================================
