----------------------------- MODULE MCListPages ----------------------------
(* Model checking of ListPages: a tenant with two products and three rows, a *)
(* tenant with one of each, and pages of one or two rows.                    *)
EXTENDS ListPages

CONSTANTS t1, t2, p1, p2, p3

MCTenantOf == [p \in Products |-> IF p = p3 THEN t2 ELSE t1]
Numbered(id, p) == [id |-> id, tenant |-> MCTenantOf[p], product |-> p]
MCRows == {Numbered(1, p1), Numbered(2, p2), Numbered(3, p1), Numbered(4, p3)}

Budget(clicks, failures, polls) == [clicks |-> clicks, failures |-> failures, polls |-> polls]

MCBudgets == {Budget(4, 0, 1), Budget(3, 1, 0), Budget(2, 1, 1)}
=============================================================================
