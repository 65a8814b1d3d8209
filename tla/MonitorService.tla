--------------------------- MODULE MonitorService ---------------------------
(***************************************************************************)
(* The connectivity monitor: the devices table, the latest stored result   *)
(* of each device, and the threads that check devices and maintain the     *)
(* offline / recovered alerts through AlertService.                        *)
(*                                                                         *)
(* A check runs on a copy of the device row, taken when the scheduler tick *)
(* or the round listed the devices.  The row may be renamed, disabled or   *)
(* deleted, and its id reused, before the check stores its result.         *)
(***************************************************************************)
EXTENDS AlertService

CONSTANTS
    Name,       \* device names
    Host,       \* host addresses
    NoRow,      \* stands for "no such row"
    MaxDevice,  \* bound: largest device id
    MaxQueue,   \* bound: checks waiting for a pool thread
    MaxEvent    \* bound: operator actions, link changes, failures and crashes, in all

OfflineKey(n) == <<"device.offline", n>>
RecoveredKey(n) == <<"device.recovered", n>>

VARIABLES
    devices,    \* devices[d]: the row with id d, or NoRow
    latest,     \* latest[d]: the newest result stored under device id d, or NoRow
    link,       \* link[h]: what a ping of host h observes now
    queue,      \* checks submitted to the pool, oldest first
    check,      \* check[w]: the check thread w is running
    events      \* environment events so far (also numbers the added devices)

deviceVars == <<devices, latest>>
monitorVars == <<alerts, call, devices, latest, link, queue, check, events>>

DeviceId == 1 .. MaxDevice
State == {"online", "warning", "offline"}

\* made tells apart the devices that had the same id one after the other
\* (history field; the program has no such column).
Device == [name : Name, host : Host, enabled : BOOLEAN, made : Nat]
Result == [status : State, made : Nat]
Copy == [id : DeviceId, name : Name, host : Host, made : Nat]

ASSUME MonitorAssumption ==
    /\ \A n \in Name : OfflineKey(n) \in Key /\ RecoveredKey(n) \in Key
    /\ MaxDevice \in Nat /\ MaxQueue \in Nat /\ MaxEvent \in Nat
    /\ NoRow \notin Device \union Result

NoCheck == [stage |-> "idle"]
Checks ==
    {NoCheck}
      \union [stage : {"ping"}, dev : Copy]
      \union [stage : {"store", "alert", "recover"}, dev : Copy, status : State]

MonitorTypeOK ==
    /\ devices \in [DeviceId -> Device \union {NoRow}]
    /\ latest \in [DeviceId -> Result \union {NoRow}]
    /\ link \in [Host -> State]
    /\ queue \in Seq(Copy)
    /\ check \in [Worker -> Checks]
    /\ events \in Nat

MonitorInit ==
    /\ AlertInit
    /\ devices = [d \in DeviceId |-> NoRow]
    /\ latest = [d \in DeviceId |-> NoRow]
    /\ link = [h \in Host |-> "online"]
    /\ queue = <<>>
    /\ check = [w \in Worker |-> NoCheck]
    /\ events = 0

Live == {d \in DeviceId : devices[d] # NoRow}

-----------------------------------------------------------------------------
(* The operator and the network *)

Event == events < MaxEvent /\ events' = events + 1

\* SQLite gives a new row the id after the largest one in use (the column is
\* INTEGER PRIMARY KEY without AUTOINCREMENT).
NewId == CHOOSE d \in 1 .. MaxDevice + 1 :
            /\ \A e \in Live : e < d
            /\ d = 1 \/ d - 1 \in Live

AddDevice(n, h) ==
    /\ Event
    /\ \A d \in Live : devices[d].name # n        \* get_by_name, uq_devices_name
    /\ NewId \in DeviceId
    /\ devices' = [devices EXCEPT ![NewId] =
                     [name |-> n, host |-> h, enabled |-> TRUE, made |-> events]]
    /\ UNCHANGED <<alerts, call, latest, link, queue, check>>

UpdateDevice(d, n, h, on) ==
    /\ Event
    /\ d \in Live
    /\ \A e \in Live \ {d} : devices[e].name # n  \* uq_devices_name
    /\ devices' = [devices EXCEPT ![d].name = n, ![d].host = h, ![d].enabled = on]
    /\ UNCHANGED <<alerts, call, latest, link, queue, check>>

DeleteDevice(d) ==
    /\ Event
    /\ d \in Live
    /\ devices' = [devices EXCEPT ![d] = NoRow]
    /\ latest' = [latest EXCEPT ![d] = NoRow]     \* ON DELETE CASCADE
    /\ UNCHANGED <<alerts, call, link, queue, check>>

AcknowledgeAlert(i) ==
    /\ Event
    /\ Acknowledge(i)
    /\ UNCHANGED <<deviceVars, link, queue, check>>

LinkChange(h, s) ==
    /\ Event
    /\ link[h] # s
    /\ link' = [link EXCEPT ![h] = s]
    /\ UNCHANGED <<alerts, call, deviceVars, queue, check>>

CrashMonitor ==
    /\ Event
    /\ Crash
    /\ queue' = <<>>
    /\ check' = [w \in Worker |-> NoCheck]
    /\ UNCHANGED <<deviceVars, link>>

\* A session of a check raises: the check ends where it is.  The pool and the
\* round that run it keep or pass on the exception, and nobody repeats it.
CheckFails(w) ==
    /\ Event
    /\ check[w] # NoCheck
    /\ CallFails(w)
    /\ check' = [check EXCEPT ![w] = NoCheck]
    /\ UNCHANGED <<deviceVars, link, queue>>

-----------------------------------------------------------------------------
(* check_device *)

\* A tick or a round lists the enabled devices and hands copies to the pool.
Submit(d) ==
    /\ d \in Live /\ devices[d].enabled
    /\ Len(queue) < MaxQueue
    /\ queue' = Append(queue, [id |-> d, name |-> devices[d].name,
                               host |-> devices[d].host, made |-> devices[d].made])
    /\ UNCHANGED <<alerts, call, deviceVars, link, check, events>>

Take(w) ==
    /\ check[w] = NoCheck
    /\ queue # <<>>
    /\ check' = [check EXCEPT ![w] = [stage |-> "ping", dev |-> Head(queue)]]
    /\ queue' = Tail(queue)
    /\ UNCHANGED <<alerts, call, deviceVars, link, events>>

Ping(w) ==
    /\ check[w].stage = "ping"
    /\ check' = [check EXCEPT ![w] = [stage |-> "store", dev |-> check[w].dev,
                                      status |-> link[check[w].dev.host]]]
    /\ UNCHANGED <<alerts, call, deviceVars, link, queue, events>>

\* Bug: foreign keys not enforced on the connection.
StoreUnchecked(w) ==
    /\ check[w].stage = "store"
    /\ latest' = [latest EXCEPT ![check[w].dev.id] =
                    [status |-> check[w].status, made |-> check[w].dev.made]]
    /\ check' = [check EXCEPT ![w].stage = "alert"]
    /\ UNCHANGED <<alerts, call, devices, link, queue, events>>

\* Bug: INSERT OR IGNORE, one result per device.
StoreOnce(w) ==
    /\ check[w].stage = "store"
    /\ LET dev == check[w].dev IN
         IF dev.id \in Live
         THEN /\ latest' = IF latest[dev.id] # NoRow THEN latest
                           ELSE [latest EXCEPT ![dev.id] =
                                   [status |-> check[w].status, made |-> dev.made]]
              /\ check' = [check EXCEPT ![w].stage = "alert"]
         ELSE /\ check' = [check EXCEPT ![w] = NoCheck]
              /\ UNCHANGED latest
    /\ UNCHANGED <<alerts, call, devices, link, queue, events>>

\* The insert fails on the foreign key if the id is no longer in the devices
\* table; the exception ends the check before any alert is touched.
Store(w) ==
    /\ check[w].stage = "store"
    /\ LET dev == check[w].dev IN
         IF dev.id \in Live
         THEN /\ latest' = [latest EXCEPT ![dev.id] =
                              [status |-> check[w].status, made |-> dev.made]]
              /\ check' = [check EXCEPT ![w].stage = "alert"]
         ELSE /\ check' = [check EXCEPT ![w] = NoCheck]
              /\ UNCHANGED latest
    /\ UNCHANGED <<alerts, call, devices, link, queue, events>>

-----------------------------------------------------------------------------
(* _maintain_alerts *)

\* A call that ended at its find (call'[w] = Idle) also ends the check.
EndIfReturned(w) ==
    check' = IF call'[w] = Idle THEN [check EXCEPT ![w] = NoCheck] ELSE check

RaiseOffline(w) ==
    /\ check[w].stage = "alert" /\ check[w].status = "offline"
    /\ RaiseFind(w, OfflineKey(check[w].dev.name))
    /\ EndIfReturned(w)
    /\ UNCHANGED <<deviceVars, link, queue, events>>

\* Bug: a slow device does not count as recovered.
ResolveOnlineOnly(w) ==
    /\ check[w].stage = "alert" /\ check[w].status # "offline"
    /\ IF check[w].status = "online"
       THEN ResolveFind(w, OfflineKey(check[w].dev.name))
       ELSE UNCHANGED <<alerts, call>>
    /\ EndIfReturned(w)
    /\ UNCHANGED <<deviceVars, link, queue, events>>

ResolveOffline(w) ==
    /\ check[w].stage = "alert" /\ check[w].status # "offline"
    /\ ResolveFind(w, OfflineKey(check[w].dev.name))
    /\ EndIfReturned(w)
    /\ UNCHANGED <<deviceVars, link, queue, events>>

\* Bug: only the check whose UPDATE closes the row announces the recovery.
CloseOwnOffline(w) ==
    /\ check[w].stage = "alert"
    /\ ResolveAcknowledge(w)
    /\ check' = IF alerts[call[w].id].open THEN [check EXCEPT ![w].stage = "recover"]
                ELSE [check EXCEPT ![w] = NoCheck]
    /\ UNCHANGED <<deviceVars, link, queue, events>>

CloseOffline(w) ==
    /\ check[w].stage = "alert"
    /\ ResolveAcknowledge(w)
    /\ check' = [check EXCEPT ![w].stage = "recover"]
    /\ UNCHANGED <<deviceVars, link, queue, events>>

RaiseRecovered(w) ==
    /\ check[w].stage = "recover"
    /\ RaiseFind(w, RecoveredKey(check[w].dev.name))
    /\ EndIfReturned(w)
    /\ UNCHANGED <<deviceVars, link, queue, events>>

FinishRaise(w) ==
    /\ RaiseInsert(w)
    /\ check' = [check EXCEPT ![w] = NoCheck]
    /\ UNCHANGED <<deviceVars, link, queue, events>>

MaintainAlerts(w) ==
    \/ RaiseOffline(w) \/ ResolveOffline(w) \/ CloseOffline(w)
    \/ RaiseRecovered(w) \/ FinishRaise(w)

CheckStep(w) == Take(w) \/ Ping(w) \/ Store(w) \/ MaintainAlerts(w)

Operator ==
    \/ \E n \in Name, h \in Host : AddDevice(n, h)
    \/ \E d \in DeviceId, n \in Name, h \in Host, on \in BOOLEAN :
         UpdateDevice(d, n, h, on)
    \/ \E d \in DeviceId : DeleteDevice(d)
    \/ \E i \in DOMAIN alerts : AcknowledgeAlert(i)

MonitorNext ==
    \/ Operator
    \/ \E h \in Host, s \in State : LinkChange(h, s)
    \/ CrashMonitor
    \/ \E d \in DeviceId : Submit(d)
    \/ \E w \in Worker : CheckStep(w) \/ CheckFails(w)

MonitorSpec == MonitorInit /\ [][MonitorNext]_monitorVars

-----------------------------------------------------------------------------
(* Properties *)

OpenAlert(k) == OpenRows(k) # {}

\* Every stored result belongs to an existing device row: a check that was in
\* flight when its device was deleted cannot leave history behind.
NoOrphanResult == \A d \in DeviceId : latest[d] # NoRow => d \in Live

\* "Back online" is only ever announced after an outage of the same device
\* name was raised and closed, with any number of checks in flight.
RecoveredAfterOutage ==
    \A n \in Name : \A i \in DOMAIN alerts :
        alerts[i].key = RecoveredKey(n) =>
            \E j \in 1 .. i - 1 : /\ alerts[j].key = OfflineKey(n)
                                  /\ ~ alerts[j].open

\* A check that found an outage to close announces the recovery before it ends,
\* or ends while another's announcement is open, whoever closes alerts meanwhile.
\* Only a crash or a session that raises loses the announcement: the outage is
\* closed by then, so no later check makes up for it.
RecoveryIsAnnounced ==
    [][\A w \in Worker, n \in Name :
          /\ check[w].stage = "recover" \/ call[w].op = "acknowledge"
          /\ check[w].dev.name = n
          /\ check'[w] = NoCheck
          => \/ OpenAlert(RecoveredKey(n))'
             \/ CrashMonitor \/ CheckFails(w)]_monitorVars

\* The call a check thread is in belongs to the alert its check is about.
CallMatchesCheck ==
    \A w \in Worker :
        \/ call[w] = Idle
        \/ /\ check[w].stage = "alert" /\ check[w].status = "offline"
           /\ call[w].op = "insert" /\ call[w].key = OfflineKey(check[w].dev.name)
        \/ /\ check[w].stage = "alert" /\ check[w].status # "offline"
           /\ call[w].op = "acknowledge"
           /\ call[w].key = OfflineKey(check[w].dev.name)
        \/ /\ check[w].stage = "recover"
           /\ call[w].op = "insert" /\ call[w].key = RecoveredKey(check[w].dev.name)

\* A check that goes on to announce a recovery has closed an outage.
RecoveryHasOutage ==
    \A w \in Worker : check[w].stage = "recover" =>
        \E j \in DOMAIN alerts : /\ alerts[j].key = OfflineKey(check[w].dev.name)
                                 /\ ~ alerts[j].open

\* The inductive invariant of the monitor, on top of that of AlertService.
MonitorInv ==
    /\ AlertInv
    /\ MonitorTypeOK
    /\ NoOrphanResult
    /\ CallMatchesCheck
    /\ RecoveryHasOutage
    /\ RecoveredAfterOutage

-----------------------------------------------------------------------------
(* Fairness: the pool threads run, a ping returns (it has a timeout), and the
   auto-check timer or the scheduler keeps submitting every enabled device.
   Submission needs strong fairness only because of the bound MaxQueue: the
   program's queue is unbounded and never refuses a check. *)

MonitorFairSpec ==
    /\ MonitorSpec
    /\ \A w \in Worker : WF_monitorVars(CheckStep(w))
    /\ \A d \in DeviceId : SF_monitorVars(Submit(d))

Monitored(d, n, s) ==
    /\ devices[d] # NoRow
    /\ devices[d].name = n /\ devices[d].enabled
    /\ link[devices[d].host] \in s

\* Once a monitored device stays reachable (slow or not), every offline alert
\* of it is eventually closed for good, duplicates and late checks included.
OutageClears ==
    \A d \in DeviceId, n \in Name :
        <>[]Monitored(d, n, {"online", "warning"})
            => <>[] ~ OpenAlert(OfflineKey(n))

\* Once a monitored device stays unreachable, an offline alert of it is
\* eventually open for good, whatever stale checks and the operator close.
OutageReported ==
    \A d \in DeviceId, n \in Name :
        <>[]Monitored(d, n, {"offline"}) => <>[]OpenAlert(OfflineKey(n))

\* The latest result of a device eventually agrees with a link that stays put,
\* and is the device's own: a check in flight when a device was deleted may
\* store its result under the next device that gets the id, but not for good.
StatusConverges ==
    \A d \in DeviceId, n \in Name, s \in State :
        <>[]Monitored(d, n, {s})
            => <>[](/\ latest[d] # NoRow
                    /\ latest[d].status = s
                    /\ latest[d].made = devices[d].made)

\* CHANGELOG 0.6.0, "auto-resolve on recovery": once every monitored device
\* stays reachable, no offline alert stays open.
EveryOutageClears ==
    <>[](/\ Live # {}
         /\ \A d \in Live : \E n \in Name : Monitored(d, n, {"online", "warning"}))
        => <>[](\A n \in Name : ~ OpenAlert(OfflineKey(n)))

=============================================================================
