------------------------- MODULE DiskServiceProofs -------------------------
(***************************************************************************)
(* Proofs about disk monitoring for any threads, volumes, percentages and  *)
(* thresholds.  The steps of its alert calls are those of AlertService, so *)
(* that what is proved there is cited here.                                *)
(***************************************************************************)
EXTENDS DiskService, AlertServiceProofs

\* What an evaluation is made of, in the form the step proofs use it.
LEMMA EvaluationFacts ==
    ASSUME DiskTypeOK, NEW w \in Worker
    PROVE  /\ evaluation[w].stage = "read" =>
                evaluation[w] \in [stage : {"read"}, percent : [Drive -> Percent]]
           /\ evaluation[w].stage = "maintain" =>
                evaluation[w] \in [stage : {"maintain"}, level : [Drive -> Level],
                                   todo : SUBSET Drive]
  BY DEF DiskTypeOK, Evaluations, NoEvaluation

\* Every step of disk monitoring is a step of AlertService or leaves its
\* variables alone.
LEMMA DiskStepIsAlertStep ==
    ASSUME DiskTypeOK, [DiskNext]_diskVars
    PROVE  [AlertNext]_alertVars
  <1>1. ASSUME NEW w \in Worker, NEW d \in Drive, Maintain(w, d)
        PROVE  [AlertNext]_alertVars
    BY <1>1, DiskAssumption DEF Maintain, AlertNext
  <1>2. ASSUME NEW w \in Worker, FinishMaintain(w)
        PROVE  [AlertNext]_alertVars
    BY <1>2 DEF FinishMaintain, AlertNext
  <1>3. ASSUME UNCHANGED <<alerts, call>> PROVE [AlertNext]_alertVars
    BY <1>3 DEF alertVars
  <1>4. CASE UNCHANGED diskVars
    BY <1>3, <1>4 DEF diskVars
  <1>5. ASSUME NEW w \in Worker, ReadDrives(w) \/ EvaluationStep(w)
        PROVE  [AlertNext]_alertVars
    BY <1>1, <1>2, <1>3, <1>5 DEF ReadDrives, EvaluationStep, Classify, EndEvaluation
  <1>6. ASSUME NEW d \in Drive, NEW p \in Percent, UsageChange(d, p)
        PROVE  [AlertNext]_alertVars
    BY <1>3, <1>6 DEF UsageChange
  <1>7. ASSUME NEW l \in Limits, LimitsChange(l) PROVE [AlertNext]_alertVars
    BY <1>3, <1>7 DEF LimitsChange
  <1>8. ASSUME NEW i \in DOMAIN alerts, AcknowledgeDiskAlert(i)
        PROVE  [AlertNext]_alertVars
    BY <1>8 DEF AcknowledgeDiskAlert, AlertNext
  <1>9. CASE CrashDisk
    BY <1>9 DEF CrashDisk, AlertNext
  <1>10. ASSUME NEW w \in Worker, EvaluationFails(w) PROVE [AlertNext]_alertVars
    BY <1>10 DEF EvaluationFails, AlertNext
  <1>11. QED
    BY <1>4, <1>5, <1>6, <1>7, <1>8, <1>9, <1>10 DEF DiskNext

-----------------------------------------------------------------------------
(* The inductive invariant *)

LEMMA DiskInvInit == DiskInit => DiskInv
  <1> SUFFICES ASSUME DiskInit PROVE DiskInv
    OBVIOUS
  <1>1. AlertInv
    BY AlertInvInit DEF DiskInit
  <1>2. CallMatchesLevel
    BY DEF DiskInit, AlertInit, CallMatchesLevel
  <1>3. QED
    BY <1>1, <1>2, AlertAssumption DEF DiskInv, DiskInit, DiskTypeOK, Evaluations

\* What the steps of an evaluation do to its own thread.
LEMMA EvaluationStepFacts ==
    ASSUME DiskInv, NEW w \in Worker, ReadDrives(w) \/ EvaluationStep(w)
    PROVE  /\ DiskTypeOK'
           /\ \A v \in Worker \ {w} : evaluation'[v] = evaluation[v] /\ call'[v] = call[v]
           /\ call'[w] # Idle =>
                /\ evaluation'[w].stage = "maintain"
                /\ call'[w].key \in Drive \ evaluation'[w].todo
                /\ (call'[w].op = "insert")
                     <=> (evaluation'[w].level[call'[w].key] # "ok")
  <1> USE DEF DiskInv
  <1>0. /\ evaluation \in [Worker -> Evaluations] /\ call \in [Worker -> Calls]
        /\ usage \in [Drive -> Percent] /\ limits \in Limits /\ diskEvents \in Nat
    BY DEF DiskTypeOK, AlertInv, AlertTypeOK
  <1>1. CASE ReadDrives(w)
    <2>1. evaluation' = [evaluation EXCEPT ![w] = [stage |-> "read", percent |-> usage]]
      BY <1>1 DEF ReadDrives
    <2>2. call[w] = Idle
      BY <1>1 DEF ReadDrives, CallMatchesLevel, NoEvaluation
    <2>3. [stage |-> "read", percent |-> usage] \in Evaluations
      BY <1>0 DEF Evaluations
    <2>4. QED
      BY <1>0, <1>1, <2>1, <2>2, <2>3 DEF ReadDrives, DiskTypeOK
  <1>2. ASSUME NEW raise \in BOOLEAN, Classify(w, raise)
        PROVE  evaluation'[w] \in Evaluations /\ call[w] = Idle
    <2>1. evaluation'[w] = [stage |-> "maintain",
                            level |-> [d \in Drive |->
                                         UsageLevel(evaluation[w].percent[d], limits)],
                            todo |-> IF raise THEN Drive ELSE {}]
      BY <1>0, <1>2 DEF Classify
    <2>2. \A d \in Drive : UsageLevel(evaluation[w].percent[d], limits) \in Level
      BY DEF UsageLevel, Level
    <2>3. evaluation'[w] \in [stage : {"maintain"}, level : [Drive -> Level],
                              todo : SUBSET Drive]
      BY <2>1, <2>2
    <2>4. QED
      BY <1>2, <2>3 DEF Classify, CallMatchesLevel, Evaluations
  <1>3. ASSUME NEW d \in Drive, Maintain(w, d)
        PROVE  /\ evaluation'[w] \in Evaluations /\ call[w] = Idle
               /\ call'[w] # Idle =>
                    /\ evaluation'[w].stage = "maintain"
                    /\ call'[w].key = d /\ d \in Drive \ evaluation'[w].todo
                    /\ (call'[w].op = "insert") <=> (evaluation'[w].level[d] # "ok")
    <2>1. /\ evaluation[w] \in [stage : {"maintain"}, level : [Drive -> Level],
                                todo : SUBSET Drive]
          /\ evaluation'[w] = [evaluation[w] EXCEPT !.todo = @ \ {d}]
      BY <1>0, <1>3, EvaluationFacts DEF Maintain
    <2>2. /\ evaluation'[w] \in [stage : {"maintain"}, level : [Drive -> Level],
                                 todo : SUBSET Drive]
          /\ evaluation'[w].level = evaluation[w].level
          /\ d \notin evaluation'[w].todo
      BY <2>1
    <2>3. evaluation'[w] \in Evaluations /\ call[w] = Idle
      BY <1>3, <2>2 DEF Maintain, Evaluations
    <2>4. CASE evaluation[w].level[d] # "ok" /\ RaiseFind(w, d)
      BY <1>0, <2>2, <2>3, <2>4 DEF RaiseFind, StartInsert
    <2>5. CASE evaluation[w].level[d] = "ok" /\ ResolveFind(w, d)
      BY <1>0, <2>2, <2>3, <2>5 DEF ResolveFind
    <2>6. QED
      BY <1>3, <2>3, <2>4, <2>5 DEF Maintain
  <1>4. CASE EvaluationStep(w)
    <2>1. CASE \E raise \in BOOLEAN : Classify(w, raise)
      BY <1>0, <1>2, <2>1 DEF Classify, DiskTypeOK
    <2>2. CASE \E d \in Drive : Maintain(w, d)
      <3>1. PICK d \in Drive : Maintain(w, d)
        BY <2>2
      <3>2. \A v \in Worker \ {w} : evaluation'[v] = evaluation[v] /\ call'[v] = call[v]
        BY <1>0, <3>1 DEF Maintain, RaiseFind, ResolveFind, StartInsert
      <3>3. DiskTypeOK'
        BY <1>0, <1>3, <3>1 DEF Maintain, DiskTypeOK
      <3>4. QED
        BY <1>3, <3>1, <3>2, <3>3
    <2>3. CASE FinishMaintain(w)
      <3>1. call' = [call EXCEPT ![w] = Idle] /\ evaluation' = evaluation
        BY <2>3 DEF FinishMaintain, RaiseInsert, ResolveAcknowledge
      <3>2. QED
        BY <1>0, <2>3, <3>1 DEF FinishMaintain, DiskTypeOK
    <2>4. CASE EndEvaluation(w)
      BY <1>0, <2>4 DEF EndEvaluation, DiskTypeOK, Evaluations
    <2>5. QED
      BY <1>4, <2>1, <2>2, <2>3, <2>4 DEF EvaluationStep
  <1>5. QED
    BY <1>1, <1>4

\* Every step of disk monitoring preserves the inductive invariant.
LEMMA DiskInvStep ==
    ASSUME DiskInv, [DiskNext]_diskVars
    PROVE  DiskInv'
  <1>1. AlertInv'
    BY DiskStepIsAlertStep, AlertInvStep DEF DiskInv
  <1>2. ASSUME NEW w \in Worker, ReadDrives(w) \/ EvaluationStep(w)
        PROVE  DiskTypeOK' /\ CallMatchesLevel'
    <2>1. /\ DiskTypeOK'
          /\ \A v \in Worker \ {w} : evaluation'[v] = evaluation[v] /\ call'[v] = call[v]
      BY <1>2, EvaluationStepFacts
    <2>2. ASSUME NEW v \in Worker, call'[v] # Idle
          PROVE  /\ evaluation'[v].stage = "maintain"
                 /\ call'[v].key \in Drive \ evaluation'[v].todo
                 /\ (call'[v].op = "insert")
                      <=> (evaluation'[v].level[call'[v].key] # "ok")
      <3>1. CASE v = w
        BY <1>2, <2>2, <3>1, EvaluationStepFacts
      <3>2. CASE v # w
        BY <2>1, <2>2, <3>2 DEF DiskInv, CallMatchesLevel
      <3>3. QED
        BY <3>1, <3>2
    <2>3. QED
      BY <2>1, <2>2 DEF CallMatchesLevel
  <1>3. ASSUME UNCHANGED <<call, evaluation>>, DiskTypeOK'
        PROVE  DiskTypeOK' /\ CallMatchesLevel'
    BY <1>3 DEF DiskInv, CallMatchesLevel
  <1>4. ASSUME NEW d \in Drive, NEW p \in Percent, UsageChange(d, p)
        PROVE  DiskTypeOK' /\ CallMatchesLevel'
    <2>1. DiskTypeOK'
      BY <1>4 DEF UsageChange, DiskEvent, DiskInv, DiskTypeOK
    <2>2. QED
      BY <1>3, <1>4, <2>1 DEF UsageChange
  <1>5. ASSUME NEW l \in Limits, LimitsChange(l)
        PROVE  DiskTypeOK' /\ CallMatchesLevel'
    <2>1. DiskTypeOK'
      BY <1>5 DEF LimitsChange, DiskEvent, DiskInv, DiskTypeOK
    <2>2. QED
      BY <1>3, <1>5, <2>1 DEF LimitsChange
  <1>6. ASSUME NEW i \in DOMAIN alerts, AcknowledgeDiskAlert(i)
        PROVE  DiskTypeOK' /\ CallMatchesLevel'
    <2>1. DiskTypeOK'
      BY <1>6 DEF AcknowledgeDiskAlert, DiskEvent, DiskInv, DiskTypeOK
    <2>2. QED
      BY <1>3, <1>6, <2>1 DEF AcknowledgeDiskAlert, Acknowledge
  <1>7. ASSUME CrashDisk PROVE DiskTypeOK' /\ CallMatchesLevel'
    <2>1. call' = [w \in Worker |-> Idle] /\ evaluation' = [w \in Worker |-> NoEvaluation]
      BY <1>7 DEF CrashDisk, Crash
    <2>2. DiskTypeOK'
      BY <1>7, <2>1 DEF CrashDisk, DiskEvent, DiskInv, DiskTypeOK, Evaluations
    <2>3. CallMatchesLevel'
      BY <2>1 DEF CallMatchesLevel
    <2>4. QED
      BY <2>2, <2>3
  <1>8. ASSUME UNCHANGED diskVars PROVE DiskTypeOK' /\ CallMatchesLevel'
    <2>1. DiskTypeOK'
      BY <1>8 DEF diskVars, DiskInv, DiskTypeOK
    <2>2. QED
      BY <1>3, <1>8, <2>1 DEF diskVars
  <1>9. ASSUME NEW w \in Worker, EvaluationFails(w)
        PROVE  DiskTypeOK' /\ CallMatchesLevel'
    <2>1. /\ call' = [call EXCEPT ![w] = Idle]
          /\ evaluation' = [evaluation EXCEPT ![w] = NoEvaluation]
      BY <1>9 DEF EvaluationFails, CallFails
    <2>2. DiskTypeOK'
      BY <1>9, <2>1 DEF EvaluationFails, DiskEvent, DiskInv, DiskTypeOK, Evaluations
    <2>3. \A v \in Worker : call'[v] # Idle =>
            call'[v] = call[v] /\ evaluation'[v] = evaluation[v]
      BY <2>1 DEF DiskInv, DiskTypeOK, AlertInv, AlertTypeOK
    <2>4. CallMatchesLevel'
      BY <2>3 DEF CallMatchesLevel, DiskInv
    <2>5. QED
      BY <2>2, <2>4
  <1>10. DiskTypeOK' /\ CallMatchesLevel'
    BY <1>2, <1>4, <1>5, <1>6, <1>7, <1>8, <1>9 DEF DiskNext
  <1>11. QED
    BY <1>1, <1>10 DEF DiskInv

\* In every reachable state, for any threads, volumes and thresholds: a volume is
\* raised or resolved by a thread whose own evaluation saw it above or below the
\* thresholds, and the invariant of AlertService holds of the disk alerts.
THEOREM DiskInvariant == DiskSpec => []DiskInv
  <1>1. DiskInit => DiskInv
    BY DiskInvInit
  <1>2. DiskInv /\ [DiskNext]_diskVars => DiskInv'
    BY DiskInvStep
  <1>3. QED
    BY <1>1, <1>2, PTL DEF DiskSpec

\* Disk monitoring, with its readings that grow old, is a use of AlertService.
THEOREM DiskImplementsAlertService == DiskSpec => AlertSpec
  <1>1. DiskInit => AlertInit
    BY DEF DiskInit
  <1>2. DiskInv /\ [DiskNext]_diskVars => [AlertNext]_alertVars
    BY DiskStepIsAlertStep DEF DiskInv
  <1>3. QED
    BY <1>1, <1>2, DiskInvariant, PTL DEF DiskSpec, AlertSpec

\* The disk alerts of a volume never outnumber the threads that evaluate, and
\* change one at a time: disk monitoring implements the inbox.
THEOREM DiskImplementsInbox == DiskSpec => ImplementsInbox
  BY DiskImplementsAlertService, AlertServiceImplementsInbox, PTL

=============================================================================
