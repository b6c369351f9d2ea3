------------------------------- MODULE MCServer -------------------------------
(* Three addresses: a session that listens and two that may be served.      *)
EXTENDS Server
===============================================================================
