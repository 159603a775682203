------------------------------ MODULE MCRelay ------------------------------
(* Constants of the WebhookRelay runs. *)
EXTENDS WebhookRelay, TLC

CONSTANTS r1, r2, e1, e2

\* r1 has two subscribers, any other row none
SubscribedTwo == [r \in Rows |-> IF r = r1 THEN {e1, e2} ELSE {}]
\* every row has one subscriber
SubscribedOne == [r \in Rows |-> {e1}]

Backoff2 == <<1, 2>>

WorkersAlike == Permutations(Workers)
=============================================================================
