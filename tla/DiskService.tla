---------------------------- MODULE DiskService ----------------------------
(***************************************************************************)
(* Disk monitoring: evaluate() reads all volumes, classifies each against  *)
(* the thresholds of the settings, and then maintains one alert per volume *)
(* through AlertService.  The reading and the levels are as old as the     *)
(* evaluation when an alert is raised or resolved: usage and thresholds    *)
(* change meanwhile, and so do the alerts, by the operator and by the      *)
(* evaluations of another window on the same database.                     *)
(***************************************************************************)
EXTENDS AlertService

CONSTANTS
    Drive,      \* the volumes; a disk alert is known by its volume
    Percent,    \* usage of a volume, in percent
    Limits,     \* warning and critical thresholds the settings may hold
    MaxDiskEvent    \* bound: changes of usage and settings, acknowledgements,
                    \* failures, crashes

VARIABLES
    usage,      \* usage[d]: what psutil reports of volume d
    limits,     \* the thresholds in the settings
    evaluation, \* evaluation[w]: the evaluation thread w is in
    diskEvents      \* environment events so far

diskVars == <<alerts, call, usage, limits, evaluation, diskEvents>>

ASSUME DiskAssumption ==
    /\ Drive \subseteq Key
    /\ Percent \subseteq 0 .. 100
    /\ Limits \subseteq [warning : 0 .. 100, critical : 0 .. 100]
    /\ \A l \in Limits : l.warning <= l.critical
    /\ MaxDiskEvent \in Nat

Level == {"ok", "warning", "critical"}

UsageLevel(percent, l) ==
    IF percent >= l.critical THEN "critical"
    ELSE IF percent >= l.warning THEN "warning" ELSE "ok"

\* Between the reading and the levels, and between two volumes, others run.
NoEvaluation == [stage |-> "idle"]
Evaluations ==
    {NoEvaluation}
      \union [stage : {"read"}, percent : [Drive -> Percent]]
      \union [stage : {"maintain"}, level : [Drive -> Level], todo : SUBSET Drive]

DiskTypeOK ==
    /\ usage \in [Drive -> Percent]
    /\ limits \in Limits
    /\ evaluation \in [Worker -> Evaluations]
    /\ diskEvents \in Nat

DiskInit ==
    /\ AlertInit
    /\ usage \in [Drive -> Percent]
    /\ limits \in Limits
    /\ evaluation = [w \in Worker |-> NoEvaluation]
    /\ diskEvents = 0

-----------------------------------------------------------------------------
(* evaluate *)

ReadDrives(w) ==
    /\ evaluation[w] = NoEvaluation
    /\ evaluation' = [evaluation EXCEPT ![w] = [stage |-> "read", percent |-> usage]]
    /\ UNCHANGED <<alerts, call, usage, limits, diskEvents>>

\* A report evaluates with raise_alerts = False and leaves the alerts alone.
Classify(w, raise) ==
    /\ evaluation[w].stage = "read"
    /\ evaluation' = [evaluation EXCEPT ![w] =
                        [stage |-> "maintain",
                         level |-> [d \in Drive |->
                                      UsageLevel(evaluation[w].percent[d], limits)],
                         todo |-> IF raise THEN Drive ELSE {}]]
    /\ UNCHANGED <<alerts, call, usage, limits, diskEvents>>

\* Bug: only a level of critical keeps the alert open.
MaintainCriticalOnly(w, d) ==
    /\ evaluation[w].stage = "maintain"
    /\ call[w] = Idle
    /\ d \in evaluation[w].todo
    /\ \/ evaluation[w].level[d] = "critical" /\ RaiseFind(w, d)
       \/ evaluation[w].level[d] # "critical" /\ ResolveFind(w, d)
    /\ evaluation' = [evaluation EXCEPT ![w].todo = @ \ {d}]
    /\ UNCHANGED <<usage, limits, diskEvents>>

\* Bug: a warning is left for the operator to acknowledge.
MaintainNeverResolves(w, d) ==
    /\ evaluation[w].stage = "maintain"
    /\ call[w] = Idle
    /\ d \in evaluation[w].todo
    /\ \/ evaluation[w].level[d] # "ok" /\ RaiseFind(w, d)
       \/ evaluation[w].level[d] = "ok" /\ UNCHANGED alertVars
    /\ evaluation' = [evaluation EXCEPT ![w].todo = @ \ {d}]
    /\ UNCHANGED <<usage, limits, diskEvents>>

\* _maintain_alert, its first session; the severity of an alert that is open
\* already stays what it was.
Maintain(w, d) ==
    /\ evaluation[w].stage = "maintain"
    /\ call[w] = Idle
    /\ d \in evaluation[w].todo
    /\ \/ evaluation[w].level[d] # "ok" /\ RaiseFind(w, d)
       \/ evaluation[w].level[d] = "ok" /\ ResolveFind(w, d)
    /\ evaluation' = [evaluation EXCEPT ![w].todo = @ \ {d}]
    /\ UNCHANGED <<usage, limits, diskEvents>>

FinishMaintain(w) ==
    /\ RaiseInsert(w) \/ ResolveAcknowledge(w)
    /\ UNCHANGED <<usage, limits, evaluation, diskEvents>>

\* Bug: alerts are maintained in the background, and the evaluation does not
\* wait for the last of them.
EndEvaluationEarly(w) ==
    /\ evaluation[w].stage = "maintain"
    /\ evaluation[w].todo = {}
    /\ evaluation' = [evaluation EXCEPT ![w] = NoEvaluation]
    /\ UNCHANGED <<alerts, call, usage, limits, diskEvents>>

EndEvaluation(w) ==
    /\ evaluation[w].stage = "maintain"
    /\ call[w] = Idle
    /\ evaluation[w].todo = {}
    /\ evaluation' = [evaluation EXCEPT ![w] = NoEvaluation]
    /\ UNCHANGED <<alerts, call, usage, limits, diskEvents>>

EvaluationStep(w) ==
    \/ \E raise \in BOOLEAN : Classify(w, raise)
    \/ \E d \in Drive : Maintain(w, d)
    \/ FinishMaintain(w)
    \/ EndEvaluation(w)

-----------------------------------------------------------------------------
(* The volumes, the settings and the operator *)

DiskEvent == diskEvents < MaxDiskEvent /\ diskEvents' = diskEvents + 1

UsageChange(d, p) ==
    /\ DiskEvent
    /\ usage[d] # p
    /\ usage' = [usage EXCEPT ![d] = p]
    /\ UNCHANGED <<alerts, call, limits, evaluation>>

LimitsChange(l) ==
    /\ DiskEvent
    /\ limits # l
    /\ limits' = l
    /\ UNCHANGED <<alerts, call, usage, evaluation>>

AcknowledgeDiskAlert(i) ==
    /\ DiskEvent
    /\ Acknowledge(i)
    /\ UNCHANGED <<usage, limits, evaluation>>

\* A session of an evaluation raises: the volumes that follow are left alone.
EvaluationFails(w) ==
    /\ DiskEvent
    /\ evaluation[w] # NoEvaluation
    /\ CallFails(w)
    /\ evaluation' = [evaluation EXCEPT ![w] = NoEvaluation]
    /\ UNCHANGED <<usage, limits>>

CrashDisk ==
    /\ DiskEvent
    /\ Crash
    /\ evaluation' = [w \in Worker |-> NoEvaluation]
    /\ UNCHANGED <<usage, limits>>

DiskNext ==
    \/ \E w \in Worker : ReadDrives(w) \/ EvaluationStep(w) \/ EvaluationFails(w)
    \/ \E d \in Drive, p \in Percent : UsageChange(d, p)
    \/ \E l \in Limits : LimitsChange(l)
    \/ \E i \in DOMAIN alerts : AcknowledgeDiskAlert(i)
    \/ CrashDisk

\* An evaluation that has begun goes on; nobody has to begin one.
DiskFair == \A w \in Worker : WF_diskVars(EvaluationStep(w))

DiskSpec == DiskInit /\ [][DiskNext]_diskVars /\ DiskFair

-----------------------------------------------------------------------------
(* Properties *)

\* The call a thread is in belongs to its evaluation and to the level that the
\* evaluation saw: a volume is resolved only by a reading below the threshold,
\* although the reading may be old by now.
CallMatchesLevel ==
    \A w \in Worker : call[w] # Idle =>
        /\ evaluation[w].stage = "maintain"
        /\ call[w].key \in Drive \ evaluation[w].todo
        /\ (call[w].op = "insert") <=> (evaluation[w].level[call[w].key] # "ok")

\* The inductive invariant of disk monitoring, on top of that of AlertService.
DiskInv == AlertInv /\ DiskTypeOK /\ CallMatchesLevel

\* Some thread classifies a reading, and goes on to the alerts, again and again.
KeepsEvaluating ==
    []<><<\E w \in Worker : Classify(w, TRUE)>>_diskVars

LevelOf(d) == UsageLevel(usage[d], limits)

\* The docstring, "when usage returns below warning, the open alert is
\* auto-acknowledged": once a volume stays below the threshold and evaluations
\* go on, all its alerts are closed for good, duplicates and stale readings
\* included.
DiskClears ==
    \A d \in Drive :
        KeepsEvaluating /\ <>[](LevelOf(d) = "ok") => <>[](OpenRows(d) = {})

\* Once a volume stays above a threshold and evaluations go on, an alert of it
\* is open in the end, whatever stale readings and the operator have closed.
DiskReported ==
    \A d \in Drive :
        KeepsEvaluating /\ <>[](LevelOf(d) # "ok") => <>[](OpenRows(d) # {})

=============================================================================
