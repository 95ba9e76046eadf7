------------------------- MODULE MCDeviceConnection -------------------------
(* Model checking of DeviceConnection: two workers, and in a behaviour one      *)
(* crash, one rejoin, or one change that is lost on its way to the topic.  Of   *)
(* two idle workers, which do not differ, the first one starts.                 *)
EXTENDS DeviceConnection

MCWorkers == {1, 2}

MCNext ==
  /\ Next
  /\ restarts' + rejoins' + Cardinality(dropped') <= 1
  /\ pc[1] = "idle" /\ pc[2] = "idle" => pc'[2] = "idle"

MCSpec == Init /\ [][MCNext]_vars /\ Fairness
=============================================================================
