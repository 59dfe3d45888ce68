----------------------------- MODULE MCRecovery -----------------------------
(* Two proxies to accuse, both kinds of keep-alive. *)
EXTENDS Recovery
MCKeepAlives == BOOLEAN
=============================================================================
