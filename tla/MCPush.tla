------------------------------- MODULE MCPush -------------------------------
(* Constants of the PushFanOut runs. *)
EXTENDS PushFanOut, TLC

CONSTANTS d1, u1, u2

\* the first device is of one user, any other of a second one
OwnerTwo == [d \in Devices |-> IF d = d1 THEN u1 ELSE u2]
OwnerOne == [d \in Devices |-> u1]

Backoff2 == <<1, 2>>

CredsAlike == Permutations(Creds) \cup Permutations(Workers)
=============================================================================
