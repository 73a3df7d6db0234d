-------------------------- MODULE MCMonitorAlerts --------------------------
(* Small instances of MonitorAlerts for TLC.                                *)
EXTENDS MonitorAlerts, TLC
=============================================================================
