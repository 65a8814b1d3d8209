-------------------------- MODULE MCMonitorService --------------------------
(* MonitorService on small instances. *)
EXTENDS MonitorService

\* The conditions the monitor raises, for the names of the instance.
DeviceKeys == {"device.offline", "device.recovered"} \X Name

=============================================================================
