------------------------------ MODULE MCSafety ------------------------------
(* The scheduler, the settings, the alerts page, the results table, the REST
   API, the export files and the log analysis on small instances, one at a
   time: subject says which of them moves, and the variables of the others keep
   their initial values, so that the states of the run are the sum of the
   seven, not the product. What is modelled of them has no table in common. *)
EXTENDS MCSchedulerService, SettingsStore, AlertsPage, ResultTable, RestApi,
        ExportFiles, LogAnalysis

VARIABLE subject

-----------------------------------------------------------------------------
(* What is typed into the form, and a file to import, with a name given twice. *)
Edits == {[warning |-> 950], [critical |-> 990]}
Files == {[theme |-> "light", disk |-> [warning |-> 825, critical |-> 900],
           api |-> [host |-> "127.0.0.1", enabled |-> TRUE],
           profiles |-> <<[name |-> <<"b", 1>>, on |-> TRUE],
                          [name |-> <<"b", 1>>, on |-> FALSE]>>]}

Line(format, level, at) == [format |-> format, level |-> level, at |-> at]
Lines == {Line("python", "ERROR", 0), Line("python", "ERROR", 3), Line("token", "INFO", Undated)}

-----------------------------------------------------------------------------
Subject == {"scheduler", "settings", "alerts", "results", "api", "exports", "logs"}

safetyVars == <<schedulerVars, settingsVars, alertsPageVars, resultVars, apiVars,
                exportFileVars, logVars, subject>>

SafetyInit ==
    /\ subject \in Subject
    /\ SchedulerInit /\ SettingsInit /\ AlertsPageInit /\ ResultInit /\ ApiInit
    /\ ExportFilesInit /\ LogInit
    /\ subject # "settings" => stored = Nothing
    /\ subject # "api" => Stored = {}
    /\ subject # "logs" => log = << >>

SafetyNext ==
    /\ UNCHANGED subject
    /\ \/ /\ subject = "scheduler" /\ SchedulerNext
          /\ UNCHANGED <<settingsVars, alertsPageVars, resultVars, apiVars,
                         exportFileVars, logVars>>
       \/ /\ subject = "settings" /\ SettingsNext
          /\ UNCHANGED <<schedulerVars, alertsPageVars, resultVars, apiVars,
                         exportFileVars, logVars>>
       \/ /\ subject = "alerts" /\ AlertsPageNext
          /\ UNCHANGED <<schedulerVars, settingsVars, resultVars, apiVars,
                         exportFileVars, logVars>>
       \/ /\ subject = "results" /\ ResultNext
          /\ UNCHANGED <<schedulerVars, settingsVars, alertsPageVars, apiVars,
                         exportFileVars, logVars>>
       \/ /\ subject = "api" /\ ApiNext
          /\ UNCHANGED <<schedulerVars, settingsVars, alertsPageVars, resultVars,
                         exportFileVars, logVars>>
       \/ /\ subject = "exports" /\ ExportFilesNext
          /\ UNCHANGED <<schedulerVars, settingsVars, alertsPageVars, resultVars,
                         apiVars, logVars>>
       \/ /\ subject = "logs" /\ LogNext
          /\ UNCHANGED <<schedulerVars, settingsVars, alertsPageVars, resultVars,
                         apiVars, exportFileVars>>

SafetySpec == SafetyInit /\ [][SafetyNext]_safetyVars

=============================================================================
