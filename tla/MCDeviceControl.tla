--------------------------- MODULE MCDeviceControl --------------------------
(* Model checking of DeviceControl: a tenant with two products, one of which has *)
(* two devices, and a tenant with one product; the models differ in what a       *)
(* command may name.                                                             *)
EXTENDS DeviceControl

CONSTANTS t1, t2, p1, p2, p3, d1, d2, d3, d4, s1, s2

MCTenantOf == [p \in Products |-> IF p = p3 THEN t2 ELSE t1]
MCProductOf == [d \in Devices |-> CASE d = d3 -> p2 [] d = d4 -> p3 [] OTHER -> p1]
MCServices == [p \in Products |-> CASE p = p1 -> {s1, s2} [] p = p2 -> {} [] OTHER -> {s1}]

Budget(clicks, changes, failures) == [clicks |-> clicks, changes |-> changes, failures |-> failures]

MCBudgets == {Budget(4, 1, 1), Budget(3, 2, 0)}
=============================================================================
