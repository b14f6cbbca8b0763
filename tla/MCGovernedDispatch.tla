------------------------- MODULE MCGovernedDispatch -------------------------
(* p1, p2: two HighRisk calls with one key; m1, m2: two calls under one mandate; s1 then  *)
(* s2: a saga whose first step has the key and resource of x1.                            *)
EXTENDS GovernedDispatch
CONSTANTS p1, p2, m1, m2, s1, s2, x1, k1, k2, k3, k4, r1, r2, mandate
MCKind == [c \in Call |-> IF c \in {p1, p2} THEN "phased" ELSE IF c \in {m1, m2} THEN "adjacent"
                          ELSE IF c = s2 THEN "free" ELSE "plain"]
MCKey  == [c \in Call |-> IF c \in {p1, p2} THEN k1 ELSE IF c \in {s1, x1} THEN k2
                          ELSE IF c = s2 THEN k3 ELSE IF c = m1 THEN k4 ELSE k3]
MCRewritten == [c \in Call |-> IF c = p1 THEN k2 ELSE MCKey[c]]
MCResource == [c \in Call |-> IF c \in {p1, s1, x1, m1} THEN r1 ELSE IF c = m2 THEN r2 ELSE NoResource]
MCMandate  == [c \in Call |-> IF c \in {m1, m2} THEN mandate ELSE NoMandate]
MCPrev     == [c \in Call |-> IF c = s2 THEN s1 ELSE NoCall]

MCMaxUses  == [a \in Mandates |-> 1]
MCNotAfter == [a \in Mandates |-> 0]
=============================================================================
