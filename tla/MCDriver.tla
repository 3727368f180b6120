------------------------------ MODULE MCDriver ------------------------------
(* SpankerDriver on small instances.                                        *)
EXTENDS SpankerDriver, TLC

\* The two commands of this header, and what callers with others may send: a
\* foreign magic byte, and GET_VERSION with a shorter struct.
MCCmds == {PING, GET_VERSION, IO(0, 1), IOR(MAGIC, 2, 4)}
=============================================================================
