--------------------------- MODULE MCSessionTurns ---------------------------
(* Instances of SessionTurns for TLC: values of the two functions. *)
EXTENDS SessionTurns

CONSTANTS p1, p2

\* Every query is sent with the same key: all but the first are retries.
SameKey == [q \in Query |-> CHOOSE k \in Key : TRUE]

\* Resumes are served by another process than queries and decisions.
Apart == [r \in Runner |-> IF r \in Resume THEN p2 ELSE p1]
============================================================================
