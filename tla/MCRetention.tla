---------------------------- MODULE MCRetention ----------------------------
(* A payment turn of A, an unregulated turn in the same session, an item of A's; and    *)
(* a turn of B's, in another session, that may go by the id of A's.                      *)
EXTENDS Retention
CONSTANTS t1, t2, t3, i1, A, B, s1, s2, payment, internal, m1, x, y, z
MCOwner == [c \in Text |-> IF c = t3 THEN B ELSE A]
MCOf    == [t \in Turn |-> IF t = t3 THEN s2 ELSE s1]
MCClass == [c \in Text |-> IF c = t2 THEN internal ELSE payment]
MCPolicy(k, f, h) == [class |-> k, ttl |-> 0, floor |-> f, hold |-> h]
MCPolicies  == {MCPolicy(payment, 1, FALSE), MCPolicy(payment, 0, TRUE), MCPolicy(internal, 0, FALSE)}
MCInitially == [k \in Classes |-> MCPolicy(k, IF k = payment THEN 1 ELSE 0, FALSE)]
MCScope == [m \in Matter |-> {c \in Text : MCOwner[c] = A /\ c # t2}]
MCId    == [c \in Text |-> IF c = t2 THEN y ELSE IF c = i1 THEN z ELSE x]
=============================================================================
