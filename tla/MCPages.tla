------------------------------ MODULE MCPages ------------------------------
(* The desktop on small instances: a page with an export, the monitoring page,
   the main window and the dashboard, one at a time. subject says which of them
   moves, and the variables of the others keep their initial values, so that the
   states of the run are the sum of the four, not the product. What keeps its
   initial state has no step that is enabled: the fairness of all four is stated. *)
EXTENDS ExportingPage, MonitoringPage, Shell, Dashboard

VARIABLE subject

pagesVars == <<exportVars, monitoringVars, shellVars, dashboardVars, subject>>

\* Both kinds of pages keep their workers in slots.
exportOnlyVars == <<pageVars, which, kept, shown, good, died>>
monitoringOnlyVars == <<devices, view, dialog, changes>>

TwoRuns == 1 .. 2
Order == <<"network", "monitoring">>

\* An earlier session left one device, which is the second by name.
PagesInit ==
    /\ subject \in {"export", "monitoring", "shell", "dashboard"}
    /\ ExportingInit /\ MonitoringInit /\ ShellInit /\ DashboardInit
    /\ subject # "export" => which = "logs"
    /\ devices = [d \in DeviceId |-> IF d = 1 THEN 2 ELSE NoRow]

PagesNext ==
    /\ UNCHANGED subject
    /\ \/ /\ subject = "export" /\ ExportingNext
          /\ UNCHANGED <<monitoringOnlyVars, shellVars, dashboardVars>>
       \/ /\ subject = "monitoring" /\ MonitoringNext
          /\ UNCHANGED <<exportOnlyVars, shellVars, dashboardVars>>
       \/ /\ subject = "shell" /\ ShellNext
          /\ UNCHANGED <<exportVars, monitoringVars, dashboardVars>>
       \/ /\ subject = "dashboard" /\ DashboardNext
          /\ UNCHANGED <<exportVars, monitoringVars, shellVars>>

PagesSpec ==
    /\ PagesInit /\ [][PagesNext]_pagesVars
    /\ ExportingFair /\ MonitoringFair /\ ShellFair /\ DashboardFair

=============================================================================
