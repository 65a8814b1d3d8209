------------------------ MODULE MonitorServiceProofs ------------------------
(***************************************************************************)
(* The monitor uses AlertService as specified, so what is proved about     *)
(* AlertService holds of it; and its own invariant, for any number of      *)
(* threads, devices, names and events.                                     *)
(***************************************************************************)
EXTENDS MonitorService, AlertServiceProofs

\* What the types say of a thread's check, stage by stage.
LEMMA CheckFacts ==
    ASSUME MonitorTypeOK, NEW w \in Worker
    PROVE  /\ check[w] \in Checks
           /\ check[w].stage # "idle" => check[w].dev \in Copy
           /\ check[w].stage \in {"store", "alert", "recover"} =>
                check[w] = [stage |-> check[w].stage, dev |-> check[w].dev,
                            status |-> check[w].status]
                /\ check[w].status \in State
  BY DEF MonitorTypeOK, Checks, NoCheck

LEMMA CopyFacts ==
    ASSUME NEW c \in Copy
    PROVE  /\ c.id \in DeviceId /\ c.name \in Name /\ c.host \in Host
           /\ OfflineKey(c.name) \in Key /\ RecoveredKey(c.name) \in Key
  BY MonitorAssumption DEF Copy

-----------------------------------------------------------------------------
(* The monitor is a client of AlertService *)

\* Every step of the monitor is a step of AlertService or leaves it alone.
LEMMA MonitorStepIsAlertStep ==
    MonitorTypeOK /\ [MonitorNext]_monitorVars => [AlertNext]_alertVars
  <1> SUFFICES ASSUME MonitorTypeOK, [MonitorNext]_monitorVars
               PROVE  [AlertNext]_alertVars
    OBVIOUS
  <1>1. CASE \E n \in Name, h \in Host : AddDevice(n, h)
    BY <1>1 DEF AddDevice, alertVars
  <1>2. CASE \E d \in DeviceId, n \in Name, h \in Host, on \in BOOLEAN :
               UpdateDevice(d, n, h, on)
    BY <1>2 DEF UpdateDevice, alertVars
  <1>3. CASE \E d \in DeviceId : DeleteDevice(d)
    BY <1>3 DEF DeleteDevice, alertVars
  <1>4. CASE \E i \in DOMAIN alerts : AcknowledgeAlert(i)
    BY <1>4 DEF AcknowledgeAlert, AlertNext
  <1>5. CASE \E h \in Host, s \in State : LinkChange(h, s)
    BY <1>5 DEF LinkChange, alertVars
  <1>6. CASE CrashMonitor
    BY <1>6 DEF CrashMonitor, AlertNext
  <1>7. CASE \E d \in DeviceId : Submit(d)
    BY <1>7 DEF Submit, alertVars
  <1>8. ASSUME NEW w \in Worker, CheckStep(w) PROVE [AlertNext]_alertVars
    <2>1. CASE Take(w) \/ Ping(w) \/ Store(w)
      BY <2>1 DEF Take, Ping, Store, alertVars
    <2>2. CASE RaiseOffline(w)
      BY <2>2, CheckFacts, CopyFacts DEF RaiseOffline, AlertNext
    <2>3. CASE ResolveOffline(w)
      BY <2>3, CheckFacts, CopyFacts DEF ResolveOffline, AlertNext
    <2>4. CASE CloseOffline(w)
      BY <2>4 DEF CloseOffline, AlertNext
    <2>5. CASE RaiseRecovered(w)
      BY <2>5, CheckFacts, CopyFacts DEF RaiseRecovered, AlertNext
    <2>6. CASE FinishRaise(w)
      BY <2>6 DEF FinishRaise, AlertNext
    <2>7. QED
      BY <1>8, <2>1, <2>2, <2>3, <2>4, <2>5, <2>6 DEF CheckStep, MaintainAlerts
  <1>9. ASSUME NEW w \in Worker, CheckFails(w) PROVE [AlertNext]_alertVars
    BY <1>9 DEF CheckFails, AlertNext
  <1>10. CASE UNCHANGED monitorVars
    BY <1>10 DEF monitorVars, alertVars
  <1>11. QED
    BY <1>1, <1>2, <1>3, <1>4, <1>5, <1>6, <1>7, <1>8, <1>9, <1>10
       DEF MonitorNext, Operator

-----------------------------------------------------------------------------
(* Type correctness and the device tables *)

LEMMA MonitorTypeInit == MonitorInit => MonitorTypeOK
  BY MonitorAssumption DEF MonitorInit, MonitorTypeOK, Checks, NoCheck, State

LEMMA MonitorTypeStep ==
    MonitorTypeOK /\ [MonitorNext]_monitorVars => MonitorTypeOK'
  <1> SUFFICES ASSUME MonitorTypeOK, [MonitorNext]_monitorVars PROVE MonitorTypeOK'
    OBVIOUS
  <1> USE DEF MonitorTypeOK
  <1>1. ASSUME NEW n \in Name, NEW h \in Host, AddDevice(n, h) PROVE MonitorTypeOK'
    <2>1. [name |-> n, host |-> h, enabled |-> TRUE, made |-> events] \in Device
      BY DEF Device
    <2>2. QED
      BY <1>1, <2>1 DEF AddDevice, Event
  <1>2. ASSUME NEW d \in DeviceId, NEW n \in Name, NEW h \in Host, NEW on \in BOOLEAN,
               UpdateDevice(d, n, h, on)
        PROVE  MonitorTypeOK'
    <2>1. devices[d] \in Device
      BY <1>2 DEF UpdateDevice, Live
    <2>2. [devices[d] EXCEPT !.name = n, !.host = h, !.enabled = on] \in Device
      BY <2>1 DEF Device
    <2>3. devices' \in [DeviceId -> Device \union {NoRow}]
      BY <1>2, <2>2 DEF UpdateDevice
    <2>4. QED
      BY <1>2, <2>3 DEF UpdateDevice, Event
  <1>3. ASSUME NEW d \in DeviceId, DeleteDevice(d) PROVE MonitorTypeOK'
    BY <1>3 DEF DeleteDevice, Event
  <1>4. ASSUME NEW i \in DOMAIN alerts, AcknowledgeAlert(i) PROVE MonitorTypeOK'
    BY <1>4 DEF AcknowledgeAlert, Event, deviceVars
  <1>5. ASSUME NEW h \in Host, NEW s \in State, LinkChange(h, s) PROVE MonitorTypeOK'
    BY <1>5 DEF LinkChange, Event, deviceVars
  <1>6. CASE CrashMonitor
    BY <1>6 DEF CrashMonitor, Event, deviceVars, Checks
  <1>7. ASSUME NEW d \in DeviceId, Submit(d) PROVE MonitorTypeOK'
    <2>1. devices[d] \in Device
      BY <1>7 DEF Submit, Live
    <2>2. [id |-> d, name |-> devices[d].name, host |-> devices[d].host,
           made |-> devices[d].made] \in Copy
      BY <2>1 DEF Device, Copy
    <2>3. QED
      BY <1>7, <2>2 DEF Submit, deviceVars
  <1>8. ASSUME NEW w \in Worker, CheckStep(w) PROVE MonitorTypeOK'
    <2>1. CASE Take(w)
      <3>1. Head(queue) \in Copy /\ Tail(queue) \in Seq(Copy)
        BY <2>1 DEF Take
      <3>2. QED
        BY <2>1, <3>1 DEF Take, deviceVars, Checks
    <2>2. CASE Ping(w)
      <3>1. check[w].dev \in Copy /\ link[check[w].dev.host] \in State
        BY <2>2, CheckFacts, CopyFacts DEF Ping
      <3>2. QED
        BY <2>2, <3>1 DEF Ping, deviceVars, Checks
    <2>3. ASSUME NEW c \in Checks, check' = [check EXCEPT ![w] = c],
                 UNCHANGED <<devices, latest, link, queue, events>>
          PROVE  MonitorTypeOK'
      BY <2>3
    <2>4. NoCheck \in Checks
      BY DEF Checks
    <2>5. ASSUME NEW s \in {"store", "alert", "recover"}, check[w].stage \in {"store", "alert", "recover"}
          PROVE  [check[w] EXCEPT !.stage = s] \in Checks
      BY <2>5, CheckFacts DEF Checks
    <2>6. CASE Store(w)
      <3>1. check[w].dev \in Copy /\ check[w].status \in State
        BY <2>6, CheckFacts DEF Store
      <3>2. [status |-> check[w].status, made |-> check[w].dev.made] \in Result
        BY <3>1 DEF Result, Copy
      <3>3. [check[w] EXCEPT !.stage = "alert"] \in Checks
        BY <2>5, <2>6 DEF Store
      <3>4. check' \in [Worker -> Checks]
        BY <2>4, <2>6, <3>3 DEF Store
      <3>5. latest' \in [DeviceId -> Result \union {NoRow}]
        BY <2>6, <3>2 DEF Store
      <3>6. QED
        BY <2>6, <3>4, <3>5 DEF Store
    <2>7. CASE RaiseOffline(w) \/ ResolveOffline(w) \/ RaiseRecovered(w)
      <3>1. EndIfReturned(w) /\ UNCHANGED <<devices, latest, link, queue, events>>
        BY <2>7 DEF RaiseOffline, ResolveOffline, RaiseRecovered, deviceVars
      <3>2. check' = [check EXCEPT ![w] = NoCheck] \/ check' = check
        BY <3>1 DEF EndIfReturned
      <3>3. QED
        BY <2>4, <3>1, <3>2
    <2>8. CASE CloseOffline(w)
      <3>1. [check[w] EXCEPT !.stage = "recover"] \in Checks
        BY <2>5, <2>8 DEF CloseOffline
      <3>2. QED
        BY <2>8, <3>1 DEF CloseOffline, deviceVars
    <2>9. CASE FinishRaise(w)
      BY <2>4, <2>9 DEF FinishRaise, deviceVars
    <2>10. QED
      BY <1>8, <2>1, <2>2, <2>6, <2>7, <2>8, <2>9 DEF CheckStep, MaintainAlerts
  <1>9. ASSUME NEW w \in Worker, CheckFails(w) PROVE MonitorTypeOK'
    BY <1>9 DEF CheckFails, Event, deviceVars, Checks
  <1>10. CASE UNCHANGED monitorVars
    BY <1>10 DEF monitorVars
  <1>11. QED
    BY <1>1, <1>2, <1>3, <1>4, <1>5, <1>6, <1>7, <1>8, <1>9, <1>10
       DEF MonitorNext, Operator

-----------------------------------------------------------------------------
(* The invariant, conjunct by conjunct *)

\* A result is only ever stored under an id that is in the devices table, and
\* a deleted row takes its results with it.
LEMMA NoOrphanStep ==
    MonitorTypeOK /\ NoOrphanResult /\ [MonitorNext]_monitorVars => NoOrphanResult'
  <1> SUFFICES ASSUME MonitorTypeOK, NoOrphanResult, [MonitorNext]_monitorVars
               PROVE  NoOrphanResult'
    OBVIOUS
  <1> USE DEF NoOrphanResult, Live, MonitorTypeOK
  <1>1. ASSUME UNCHANGED <<devices, latest>> PROVE NoOrphanResult'
    BY <1>1
  <1>2. ASSUME NEW n \in Name, NEW h \in Host, AddDevice(n, h) PROVE NoOrphanResult'
    <2> DEFINE new == [name |-> n, host |-> h, enabled |-> TRUE, made |-> events]
    <2>1. new \in Device
      BY DEF Device
    <2>2. devices' = [devices EXCEPT ![NewId] = new] /\ latest' = latest
          /\ NewId \in DeviceId
      BY <1>2 DEF AddDevice
    <2> HIDE DEF new
    <2>3. new # NoRow
      BY <2>1, MonitorAssumption
    <2>4. QED
      BY <2>2, <2>3
  <1>3. ASSUME NEW d \in DeviceId, NEW n \in Name, NEW h \in Host, NEW on \in BOOLEAN,
               UpdateDevice(d, n, h, on)
        PROVE  NoOrphanResult'
    <2> DEFINE new == [devices[d] EXCEPT !.name = n, !.host = h, !.enabled = on]
    <2>1. devices[d] \in Device
      BY <1>3 DEF UpdateDevice
    <2>2. new \in Device /\ new # NoRow
      BY <2>1, MonitorAssumption DEF Device
    <2>3. devices' = [devices EXCEPT ![d] = new] /\ latest' = latest
      BY <1>3 DEF UpdateDevice
    <2> HIDE DEF new
    <2>4. QED
      BY <2>2, <2>3
  <1>4. ASSUME NEW d \in DeviceId, DeleteDevice(d) PROVE NoOrphanResult'
    BY <1>4 DEF DeleteDevice
  <1>5. ASSUME NEW w \in Worker, Store(w) PROVE NoOrphanResult'
    <2>1. check[w].dev.id \in DeviceId
      BY <1>5, CheckFacts, CopyFacts DEF Store
    <2>2. QED
      BY <1>5, <2>1 DEF Store
  <1>6. CASE UNCHANGED monitorVars
    BY <1>6 DEF monitorVars
  <1>7. QED
    BY <1>1, <1>2, <1>3, <1>4, <1>5, <1>6
       DEF MonitorNext, Operator, AcknowledgeAlert, LinkChange, CrashMonitor, CheckFails,
           Submit, CheckStep, Take, Ping, MaintainAlerts, RaiseOffline, ResolveOffline,
           CloseOffline, RaiseRecovered, FinishRaise, deviceVars

\* A thread enters an AlertService call only for its own check, and leaves the
\* stage of the check only when the call returns.
LEMMA CallMatchesCheckStep ==
    /\ AlertTypeOK /\ MonitorTypeOK /\ CallMatchesCheck /\ [MonitorNext]_monitorVars
    => CallMatchesCheck'
  <1> SUFFICES ASSUME AlertTypeOK, MonitorTypeOK, CallMatchesCheck,
                      [MonitorNext]_monitorVars
               PROVE  CallMatchesCheck'
    OBVIOUS
  <1> USE DEF CallMatchesCheck
  <1>1. ASSUME UNCHANGED <<call, check>> PROVE CallMatchesCheck'
    BY <1>1
  <1>2. CASE CrashMonitor
    BY <1>2 DEF CrashMonitor, Crash
  <1>3. ASSUME NEW w \in Worker, CheckStep(w) PROVE CallMatchesCheck'
    <2>1. /\ call \in [Worker -> Calls] /\ check \in [Worker -> Checks]
          /\ check[w] \in Checks
      BY CheckFacts DEF AlertTypeOK, MonitorTypeOK
    <2>2. ASSUME call'[w] = Idle,
                 \A v \in Worker : v # w => call'[v] = call[v] /\ check'[v] = check[v]
          PROVE  CallMatchesCheck'
      BY <2>2
    <2>3. CASE Take(w) \/ Ping(w) \/ Store(w)
      <3>1. call[w] = Idle
        BY <2>3 DEF Take, Ping, Store, NoCheck
      <3>2. QED
        BY <2>1, <2>2, <2>3, <3>1 DEF Take, Ping, Store
    <2>4. CASE CloseOffline(w) \/ FinishRaise(w)
      BY <2>1, <2>2, <2>4
         DEF CloseOffline, FinishRaise, ResolveAcknowledge, RaiseInsert
    <2>5. ASSUME EndIfReturned(w),
                 \A v \in Worker : v # w => call'[v] = call[v],
                 call'[w] # Idle =>
                   \/ /\ check[w].stage = "alert" /\ check[w].status = "offline"
                      /\ call'[w].op = "insert"
                      /\ call'[w].key = OfflineKey(check[w].dev.name)
                   \/ /\ check[w].stage = "alert" /\ check[w].status # "offline"
                      /\ call'[w].op = "acknowledge"
                      /\ call'[w].key = OfflineKey(check[w].dev.name)
                   \/ /\ check[w].stage = "recover"
                      /\ call'[w].op = "insert"
                      /\ call'[w].key = RecoveredKey(check[w].dev.name)
          PROVE  CallMatchesCheck'
      BY <2>1, <2>5 DEF EndIfReturned
    <2>6. CASE RaiseOffline(w)
      <3>1. \/ call' = call /\ call[w] = Idle
            \/ call' = [call EXCEPT ![w] =
                 [op |-> "insert", key |-> OfflineKey(check[w].dev.name)]]
        BY <2>6 DEF RaiseOffline, RaiseFind, StartInsert
      <3>2. QED
        BY <2>1, <2>5, <2>6, <3>1 DEF RaiseOffline
    <2>7. CASE ResolveOffline(w)
      <3>1. \/ call' = call /\ call[w] = Idle
            \/ \E i \in OpenRows(OfflineKey(check[w].dev.name)) :
                 call' = [call EXCEPT ![w] =
                   [op |-> "acknowledge", key |-> OfflineKey(check[w].dev.name),
                    id |-> i]]
        BY <2>7 DEF ResolveOffline, ResolveFind
      <3>2. QED
        BY <2>1, <2>5, <2>7, <3>1 DEF ResolveOffline
    <2>8. CASE RaiseRecovered(w)
      <3>1. \/ call' = call /\ call[w] = Idle
            \/ call' = [call EXCEPT ![w] =
                 [op |-> "insert", key |-> RecoveredKey(check[w].dev.name)]]
        BY <2>8 DEF RaiseRecovered, RaiseFind, StartInsert
      <3>2. QED
        BY <2>1, <2>5, <2>8, <3>1 DEF RaiseRecovered
    <2>9. QED
      BY <1>3, <2>3, <2>4, <2>6, <2>7, <2>8 DEF CheckStep, MaintainAlerts
  <1>4. ASSUME NEW w \in Worker, CheckFails(w) PROVE CallMatchesCheck'
    <2>1. /\ call' = [call EXCEPT ![w] = Idle]
          /\ check' = [check EXCEPT ![w] = NoCheck]
      BY <1>4 DEF CheckFails, CallFails
    <2>2. \A v \in Worker : \/ call'[v] = Idle
                            \/ call'[v] = call[v] /\ check'[v] = check[v]
      BY <2>1 DEF AlertTypeOK, MonitorTypeOK
    <2>3. QED
      BY <2>2
  <1>5. CASE UNCHANGED monitorVars
    BY <1>1, <1>5 DEF monitorVars
  <1>6. QED
    BY <1>1, <1>2, <1>3, <1>4, <1>5
       DEF MonitorNext, Operator, AddDevice, UpdateDevice, DeleteDevice, AcknowledgeAlert,
           Acknowledge, LinkChange, Submit

\* Only FinishRaise adds a row to the alerts table.
LEMMA RowsComeFromFinishRaise ==
    ASSUME AlertInv, MonitorTypeOK, [MonitorNext]_monitorVars
    PROVE  \/ DOMAIN alerts' = DOMAIN alerts
           \/ \E w \in Worker : FinishRaise(w)
  <1>1. ASSUME UNCHANGED alerts PROVE DOMAIN alerts' = DOMAIN alerts
    BY <1>1
  <1>2. ASSUME NEW i \in DOMAIN alerts, AcknowledgeRow(i)
        PROVE  DOMAIN alerts' = DOMAIN alerts
    BY <1>2, AcknowledgeRowFacts DEF AlertInv
  <1>3. ASSUME NEW w \in Worker, CloseOffline(w)
        PROVE  DOMAIN alerts' = DOMAIN alerts
    BY <1>2, <1>3
       DEF CloseOffline, ResolveAcknowledge, AlertInv, ResolveHitsOwnCondition
  <1>4. ASSUME NEW i \in DOMAIN alerts, AcknowledgeAlert(i)
        PROVE  DOMAIN alerts' = DOMAIN alerts
    BY <1>2, <1>4 DEF AcknowledgeAlert, Acknowledge
  <1>5. QED
    BY <1>1, <1>3, <1>4
       DEF MonitorNext, Operator, AddDevice, UpdateDevice, DeleteDevice, LinkChange,
           CrashMonitor, Crash, CheckFails, CallFails, Submit, CheckStep, Take, Ping, Store, MaintainAlerts,
           RaiseOffline, ResolveOffline, RaiseRecovered, RaiseFind, ResolveFind,
           monitorVars

\* A check reaches the recovery announcement by closing an outage alert, which
\* stays closed.
LEMMA RecoveryHasOutageStep ==
    ASSUME AlertInv, MonitorTypeOK, CallMatchesCheck, RecoveryHasOutage,
           [MonitorNext]_monitorVars
    PROVE  RecoveryHasOutage'
  <1> SUFFICES ASSUME NEW v \in Worker, check'[v].stage = "recover"
               PROVE  \E j \in DOMAIN alerts' :
                         /\ alerts'[j].key = OfflineKey(check'[v].dev.name)
                         /\ ~ alerts'[j].open
    BY DEF RecoveryHasOutage
  <1> USE DEF MonitorTypeOK
  <1>1. CASE check[v].stage = "recover" /\ check'[v].dev = check[v].dev
    <2>1. PICK j \in DOMAIN alerts : /\ alerts[j].key = OfflineKey(check[v].dev.name)
                                     /\ ~ alerts[j].open
      BY <1>1 DEF RecoveryHasOutage
    <2>2. /\ j \in DOMAIN alerts' /\ alerts'[j].key = alerts[j].key
          /\ alerts'[j].open => alerts[j].open
      BY AlertsOnlyCloseStep, MonitorStepIsAlertStep
    <2>3. QED
      BY <1>1, <2>1, <2>2
  <1>2. CASE CloseOffline(v)
    <2>1. call[v].op = "acknowledge" /\ AcknowledgeRow(call[v].id)
      BY <1>2 DEF CloseOffline, ResolveAcknowledge
    <2>2. call[v].key = OfflineKey(check[v].dev.name)
      BY <2>1 DEF CallMatchesCheck, Idle
    <2>3. PICK j \in DOMAIN alerts : j = call[v].id /\ alerts[j].key = call[v].key
      BY <2>1 DEF AlertInv, ResolveHitsOwnCondition
    <2>4. /\ j \in DOMAIN alerts' /\ alerts'[j].key = alerts[j].key
          /\ j \notin OpenRows(alerts[j].key)'
      BY <2>1, <2>3, AcknowledgeRowFacts, AcknowledgeCloses, RowFacts DEF AlertInv, Row
    <2>5. check'[v].dev = check[v].dev
      <3>1. check[v].stage # "idle" /\ check' = [check EXCEPT ![v].stage = "recover"]
        BY <1>2 DEF CloseOffline
      <3>2. QED
        BY <3>1, CheckFacts
    <2>6. QED
      BY <2>2, <2>3, <2>4, <2>5 DEF OpenRows
  <1>3. ASSUME ~ CloseOffline(v)
        PROVE  check[v].stage = "recover" /\ check'[v].dev = check[v].dev
    <2>1. ASSUME check' = check PROVE check[v].stage = "recover" /\ check'[v] = check[v]
      BY <2>1
    <2>2. CASE CrashMonitor
      BY <2>2 DEF CrashMonitor, NoCheck
    <2>3. ASSUME NEW w \in Worker, CheckStep(w), w # v PROVE check'[v] = check[v]
      BY <2>3 DEF CheckStep, Take, Ping, Store, MaintainAlerts, RaiseOffline,
                  ResolveOffline, RaiseRecovered, EndIfReturned, CloseOffline, FinishRaise
    <2>4. CASE CheckStep(v)
      <3>1. CASE Take(v) \/ Ping(v)
        BY <3>1 DEF Take, Ping
      <3>2. CASE Store(v)
        <4>1. \/ check'[v] = [check[v] EXCEPT !.stage = "alert"]
              \/ check'[v] = NoCheck
          BY <3>2 DEF Store
        <4>2. check[v] \in [stage : {"store"}, dev : Copy, status : State]
          BY <3>2, CheckFacts DEF Store, Checks
        <4>3. CASE check'[v] = [check[v] EXCEPT !.stage = "alert"]
          BY <4>2, <4>3
        <4>4. CASE check'[v] = NoCheck
          BY <4>4 DEF NoCheck
        <4>5. QED
          BY <4>1, <4>3, <4>4
      <3>3. CASE RaiseOffline(v) \/ ResolveOffline(v) \/ RaiseRecovered(v)
        <4>1. check' = check \/ check' = [check EXCEPT ![v] = NoCheck]
          BY <3>3 DEF RaiseOffline, ResolveOffline, RaiseRecovered, EndIfReturned
        <4>2. QED
          BY <2>1, <4>1 DEF NoCheck
      <3>4. CASE FinishRaise(v)
        BY <3>4 DEF FinishRaise, NoCheck
      <3>5. QED
        BY <1>3, <2>4, <3>1, <3>2, <3>3, <3>4 DEF CheckStep, MaintainAlerts
    <2>5. ASSUME NEW w \in Worker, CheckFails(w)
          PROVE  check[v].stage = "recover" /\ check'[v] = check[v]
      BY <2>5 DEF CheckFails, NoCheck
    <2>6. QED
      BY <2>1, <2>2, <2>3, <2>4, <2>5
         DEF MonitorNext, Operator, AddDevice, UpdateDevice, DeleteDevice,
             AcknowledgeAlert, LinkChange, Submit, monitorVars
  <1>4. QED
    BY <1>1, <1>2, <1>3

\* A recovered alert is inserted after the outage alert it answers.
LEMMA RecoveredAfterOutageStep ==
    ASSUME AlertInv, MonitorTypeOK, CallMatchesCheck, RecoveryHasOutage,
           RecoveredAfterOutage, [MonitorNext]_monitorVars
    PROVE  RecoveredAfterOutage'
  <1> SUFFICES ASSUME NEW n \in Name, NEW i \in DOMAIN alerts',
                      alerts'[i].key = RecoveredKey(n)
               PROVE  \E j \in 1 .. i - 1 : /\ alerts'[j].key = OfflineKey(n)
                                            /\ ~ alerts'[j].open
    BY DEF RecoveredAfterOutage
  <1>1. \A j \in DOMAIN alerts :
          /\ j \in DOMAIN alerts' /\ alerts'[j].key = alerts[j].key
          /\ alerts'[j].open => alerts[j].open
    BY AlertsOnlyCloseStep, MonitorStepIsAlertStep
  <1>2. DOMAIN alerts = 1 .. Len(alerts) /\ Len(alerts) \in Nat
    BY RowFacts DEF AlertInv
  <1>3. CASE i \in DOMAIN alerts
    <2>1. PICK j \in 1 .. i - 1 : alerts[j].key = OfflineKey(n) /\ ~ alerts[j].open
      BY <1>1, <1>3 DEF RecoveredAfterOutage
    <2>2. j \in DOMAIN alerts
      BY <1>2, <1>3
    <2>3. QED
      BY <1>1, <2>1, <2>2
  <1>4. CASE i \notin DOMAIN alerts
    <2>1. PICK w \in Worker : FinishRaise(w)
      BY <1>4, RowsComeFromFinishRaise
    <2>2. RaiseInsert(w) /\ call[w].op = "insert"
      BY <2>1 DEF FinishRaise, RaiseInsert
    <2>3. i = Len(alerts) + 1 /\ alerts'[i].key = call[w].key
      <3>1. /\ alerts' \in Seq(Row) /\ Len(alerts') = Len(alerts) + 1
            /\ alerts'[Len(alerts) + 1] =
                 [key |-> call[w].key, open |-> TRUE, by |-> w]
        BY <2>2, RaiseInsertFacts DEF AlertInv
      <3>2. i = Len(alerts) + 1
        BY <1>2, <1>4, <3>1
      <3>3. QED
        BY <3>1, <3>2
    <2>4. check[w].stage = "recover" /\ check[w].dev.name = n
      BY <2>2, <2>3 DEF CallMatchesCheck, Idle, OfflineKey, RecoveredKey
    <2>5. PICK j \in DOMAIN alerts : alerts[j].key = OfflineKey(n) /\ ~ alerts[j].open
      BY <2>4 DEF RecoveryHasOutage
    <2>6. QED
      BY <1>1, <1>2, <2>3, <2>5
  <1>5. QED
    BY <1>3, <1>4

-----------------------------------------------------------------------------
(* The theorems *)

LEMMA MonitorInvInit == MonitorInit => MonitorInv
  <1> SUFFICES ASSUME MonitorInit PROVE MonitorInv
    OBVIOUS
  <1>1. AlertInv /\ MonitorTypeOK
    BY AlertInvInit, MonitorTypeInit DEF MonitorInit
  <1>2. NoOrphanResult
    BY DEF MonitorInit, NoOrphanResult
  <1>3. CallMatchesCheck /\ RecoveryHasOutage /\ RecoveredAfterOutage
    BY DEF MonitorInit, AlertInit, CallMatchesCheck, RecoveryHasOutage,
           RecoveredAfterOutage, NoCheck
  <1>4. QED
    BY <1>1, <1>2, <1>3 DEF MonitorInv

LEMMA MonitorInvStep == MonitorInv /\ [MonitorNext]_monitorVars => MonitorInv'
  BY MonitorStepIsAlertStep, AlertInvStep, MonitorTypeStep, NoOrphanStep,
     CallMatchesCheckStep, RecoveryHasOutageStep, RecoveredAfterOutageStep
     DEF MonitorInv, AlertInv

\* In every reachable state of the monitor: no result without a device row, no
\* "back online" alert without an earlier, closed outage alert of the same
\* device, and everything AlertInv says of the alerts table.
THEOREM MonitorInvariant == MonitorSpec => []MonitorInv
  <1>1. MonitorInit => MonitorInv
    BY MonitorInvInit
  <1>2. MonitorInv /\ [MonitorNext]_monitorVars => MonitorInv'
    BY MonitorInvStep
  <1>3. QED
    BY <1>1, <1>2, PTL DEF MonitorSpec

\* A check that has found an outage to close and ends in a step that is neither
\* a crash nor a failure leaves an open recovered alert of its device behind.
LEMMA RecoveryIsAnnouncedStep ==
    ASSUME MonitorInv, [MonitorNext]_monitorVars,
           NEW v \in Worker, NEW n \in Name,
           check[v].stage = "recover" \/ call[v].op = "acknowledge",
           check[v].dev.name = n, check'[v] = NoCheck
    PROVE  OpenAlert(RecoveredKey(n))' \/ CrashMonitor \/ CheckFails(v)
  <1> USE DEF MonitorInv, MonitorTypeOK
  <1>1. /\ check[v].stage = "recover" \/ check[v].stage = "alert"
        /\ check[v].stage = "alert" => call[v].op = "acknowledge"
        /\ check[v].stage = "recover" /\ call[v] # Idle =>
             call[v].op = "insert" /\ call[v].key = RecoveredKey(n)
    BY DEF CallMatchesCheck, Idle
  <1>2. check'[v] # check[v]
    BY <1>1 DEF NoCheck
  <1>3. ASSUME NEW w \in Worker, w # v, CheckStep(w) \/ CheckFails(w)
        PROVE  check'[v] = check[v]
    BY <1>3 DEF CheckFails, CheckStep, Take, Ping, Store, MaintainAlerts, RaiseOffline,
                ResolveOffline, RaiseRecovered, EndIfReturned, CloseOffline, FinishRaise
  <1>4. ASSUME CheckStep(v) PROVE OpenAlert(RecoveredKey(n))'
    <2>1. CASE Take(v) \/ Ping(v) \/ Store(v)
      BY <1>1, <2>1 DEF Take, Ping, Store, NoCheck
    <2>2. CASE RaiseOffline(v) \/ ResolveOffline(v)
      BY <1>1, <2>2 DEF RaiseOffline, ResolveOffline, RaiseFind, ResolveFind, Idle
    <2>3. CASE CloseOffline(v)
      <3>1. check'[v] = [check[v] EXCEPT !.stage = "recover"] /\ check[v].stage = "alert"
        BY <2>3 DEF CloseOffline
      <3>2. check'[v].stage = "recover"
        BY <3>1, CheckFacts
      <3>3. QED
        BY <3>2 DEF NoCheck
    <2>4. CASE RaiseRecovered(v)
      <3>1. /\ RaiseFind(v, RecoveredKey(n)) /\ call'[v] = Idle
        BY <1>2, <2>4 DEF RaiseRecovered, EndIfReturned
      <3>2. OpenRows(RecoveredKey(n)) # {} /\ alerts' = alerts
        BY <3>1 DEF RaiseFind, StartInsert, Idle, AlertInv, AlertTypeOK
      <3>3. QED
        BY <3>2 DEF OpenAlert, OpenRows
    <2>5. CASE FinishRaise(v)
      <3>1. RaiseInsert(v) /\ call[v].key = RecoveredKey(n)
        BY <1>1, <2>5 DEF FinishRaise, RaiseInsert, Idle
      <3>2. /\ alerts' \in Seq(Row) /\ Len(alerts') = Len(alerts) + 1
            /\ alerts'[Len(alerts) + 1] = [key |-> call[v].key, open |-> TRUE, by |-> v]
        BY <3>1, RaiseInsertFacts DEF AlertInv
      <3>3. Len(alerts) + 1 \in OpenRows(RecoveredKey(n))'
        BY <3>1, <3>2, RowFacts DEF OpenRows, AlertInv
      <3>4. QED
        BY <3>3 DEF OpenAlert
    <2>6. QED
      BY <1>4, <2>1, <2>2, <2>3, <2>4, <2>5 DEF CheckStep, MaintainAlerts
  <1>5. QED
    BY <1>2, <1>3, <1>4
       DEF MonitorNext, Operator, AddDevice, UpdateDevice, DeleteDevice, AcknowledgeAlert,
           LinkChange, Submit, monitorVars

\* However checks overlap with each other, with the operator's acknowledgements
\* and with renames and deletions: who closes an outage announces the recovery,
\* unless the process dies or a session raises in between.
THEOREM RecoveriesAreAnnounced == MonitorSpec => RecoveryIsAnnounced
  <1>1. MonitorInv /\ [MonitorNext]_monitorVars =>
          [\A w \in Worker, n \in Name :
             /\ check[w].stage = "recover" \/ call[w].op = "acknowledge"
             /\ check[w].dev.name = n
             /\ check'[w] = NoCheck
             => \/ OpenAlert(RecoveredKey(n))'
                \/ CrashMonitor \/ CheckFails(w)]_monitorVars
    BY RecoveryIsAnnouncedStep
  <1>2. QED
    BY <1>1, MonitorInvariant, PTL DEF MonitorSpec, RecoveryIsAnnounced

\* The monitor, with its threads, operators and crashes, only ever uses the
\* alerts table the way AlertService specifies.
THEOREM MonitorImplementsAlertService == MonitorSpec => AlertSpec
  <1>1. MonitorInit => AlertInit
    BY DEF MonitorInit
  <1>2. MonitorInv /\ [MonitorNext]_monitorVars => [AlertNext]_alertVars
    BY MonitorStepIsAlertStep DEF MonitorInv
  <1>3. QED
    BY <1>1, <1>2, MonitorInvariant, PTL DEF MonitorSpec, AlertSpec

\* So the operator never sees more open alerts of one device condition than
\* there are threads checking devices.
THEOREM MonitorImplementsInbox == MonitorSpec => ImplementsInbox
  BY MonitorImplementsAlertService, AlertServiceImplementsInbox, PTL

=============================================================================
