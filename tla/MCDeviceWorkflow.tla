-------------------------- MODULE MCDeviceWorkflow --------------------------
(* Two devices, one of which may be taken for the other. They are not      *)
(* declared symmetric, since the run also checks liveness.                 *)
EXTENDS DeviceWorkflow
=============================================================================
