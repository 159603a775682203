------------------------------ MODULE MCThread ------------------------------
(* Constants of the Thread runs. *)
EXTENDS Thread, TLC

CONSTANTS s1, s2

\* s2 is a retry of s1, every other request has a key of its own
RetryKey == [s \in Sends |-> IF s = s2 THEN s1 ELSE s]
=============================================================================
