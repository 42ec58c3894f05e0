------------------------------- MODULE MCReview -------------------------------
EXTENDS Review, TLC

CONSTANTS o1, o2, o3, o4, o5, a1, a2, a3, e1, c1, c2, v1, v2

\* One claim about v1, and its successor about v2.
OfVersion == (c1 :> v1 @@ c2 :> v2)
\* Two agents confirm, two refute, one echoes the first.
By == [o \in Observations |-> CASE o \in {o1, o4} -> a1 [] o = o2 -> a2 [] OTHER -> a3]
Says == [o \in Observations |-> IF o \in {o3, o4} THEN "refutes" ELSE "confirms"]
Echo == [o \in Observations |-> IF o = o5 THEN {o1} ELSE {}]
About == [o \in Observations |-> v1]
Cites == [o \in Observations |-> IF o = o1 THEN {e1} ELSE {}]
Bound == [e \in Evidence |-> v1]
Incoming == {c1} \X Observations
Successors == {s \in {<<c1, c2, o2>>, <<c2, c1, o4>>} : s[3] \in Observations}
A(kind) == [kind |-> kind, about |-> None]
Proposals ==
  {<<A("recommend")>>, <<A("reject")>>, <<A("request")>>, <<A("request"), A("reject")>>,
   <<[kind |-> "audit", about |-> o1], A("schedule"), A("recommend")>>}
===============================================================================
