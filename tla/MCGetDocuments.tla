---------------------------- MODULE MCGetDocuments ----------------------------
(* Instances of GetDocuments: two calls share a query, a third has its own.  *)
EXTENDS GetDocuments

CONSTANTS c1, c2, c3, q1, q2

MCQueryOf == [c \in Call |-> IF c = c3 THEN q2 ELSE q1]
=============================================================================
