--------------------------- MODULE MCProxyLinks ---------------------------
(* Small instances of ProxyLinks for TLC. *)
EXTENDS ProxyLinks
=============================================================================
