--------------------------- MODULE MCDevicePanels ---------------------------
(* Model checking of DevicePanels.  Each budget puts some disturbances together: *)
(* reports that cross while the user clicks, a connection that is lost and polls *)
(* instead, an event among clicks, and clicks alone.                             *)
EXTENDS DevicePanels

Budget(reports, events, clicks, turns) ==
    [reports |-> reports, events |-> events, clicks |-> clicks, turns |-> turns]

MCBudgets == {Budget(2, 0, 1, 1), Budget(1, 0, 1, 2), Budget(0, 1, 2, 0), Budget(0, 0, 3, 0), Budget(0, 0, 2, 1),
              Budget(1, 1, 1, 1)}
=============================================================================
