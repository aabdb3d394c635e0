-------------------------- MODULE MCReconnect --------------------------
(* The retry loop with the values of RetryConfig::default, for TLC.         *)
EXTENDS Reconnect

\* In milliseconds.
MCDefault == {[initial_backoff |-> 50, max_backoff |-> 1000, max_elapsed |-> 10000, jitter |-> TRUE]}
=============================================================================
