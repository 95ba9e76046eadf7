--------------------------- MODULE MCDeviceCommand ---------------------------
(* Model checking of DeviceCommand: workers are interchangeable. *)
EXTENDS DeviceCommand, TLC

WorkerSymmetry == Permutations(Workers)
=============================================================================
