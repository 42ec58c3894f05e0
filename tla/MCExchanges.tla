----------------------------- MODULE MCExchanges -----------------------------
EXTENDS Exchanges

CONSTANTS c1, c2, c3, k1, q1, q2

\* Two calls with one key, the second a review by two peers, and a review without.
Keyed == [c \in Calls |-> IF c = c3 THEN None ELSE k1]
Panel == [c \in Calls |-> IF c = c2 THEN {q1, q2} ELSE {q1}]
===============================================================================
