---------------------------- MODULE MCToolGateway ----------------------------
(* Constants for TLC: two request threads, two closers, one MCP server. *)
EXTENDS ToolGateway

CONSTANTS c1, c2, k1, k2, sql
=============================================================================
