------------------------------- MODULE MCRequest -------------------------------
(* An instance of Request for TLC. *)
EXTENDS Request

\* With a colon, with what looks like a port behind it, and the PAC file.
MCPaths ==
  {<<"/">>, <<"/", ":", "x">>, <<"/", ":", "443">>, <<"/proxy.pac">>, <<"/proxy.pac", "?t">>}
=============================================================================
