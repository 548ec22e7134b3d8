----------------------------- MODULE MCWsClient -----------------------------
(* Instances of WsClient for TLC. *)
EXTENDS WsClient, TLC

CONSTANTS reader, handler

MCCaller == {reader, handler}

\* In units of ten seconds, rounded up: 25, 30 and 60 seconds; and, as in the
\* tests of keepalive, a silence limit below the ping interval.
MCTimings == {[ping |-> 3, pong |-> 3, silence |-> 6],
              [ping |-> 2, pong |-> 2, silence |-> 1]}
=============================================================================
