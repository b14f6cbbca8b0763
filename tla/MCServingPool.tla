--------------------------- MODULE MCServingPool ---------------------------
(* Two tenants; a retried call (c1, c2) whose id is also the id of a turn. *)
EXTENDS ServingPool
CONSTANTS a, b, t1, t2, t3, c1, c2
MCTenant == [r \in Req |-> IF r \in {t1, t3} THEN a ELSE b]
MCSeq    == [r \in Req |-> IF r = t1 THEN 1 ELSE IF r = t2 THEN 2 ELSE IF r = t3 THEN 3 ELSE 1]
MCClass  == [r \in Req |-> IF r = t1 THEN 0 ELSE IF r \in {t2, c2} THEN 2 ELSE 1]
MCQuota  == [t \in Tenants |-> IF t = a THEN 2 ELSE 1]
=============================================================================
