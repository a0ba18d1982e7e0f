---------------------------- MODULE MCLogStream ----------------------------
(* Intervals in the proportion of the defaults: keepalive 30s, lease 90s.    *)
EXTENDS LogStream
=============================================================================
