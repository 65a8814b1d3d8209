------------------------------- MODULE RestApi -------------------------------
(***************************************************************************)
(* The handlers of the REST API that change state, or answer from state    *)
(* that other requests change.  They run in the server's thread pool, so   *)
(* any number of requests is in progress, each at one of its sessions.     *)
(* Requests that the middleware or validation turns away change nothing    *)
(* and are left out; the services behind scans, rounds and backups have    *)
(* modules of their own.  A session that raises, that of the activity log  *)
(* included, ends a request with a 500, and what is committed stays.       *)
(***************************************************************************)
EXTENDS DeviceTable, SequencesExt

CONSTANTS
    Request,    \* requests that clients may make
    AlertId,    \* alerts there are; other threads may close them as well
    Absent      \* no scan, no answer

VARIABLES
    request,    \* request[r]: what it asks, its stage and its answer
    lastScan,   \* app.state.last_scan: the request whose scan it is
    openAlerts, \* the alerts that are not acknowledged
    assigned    \* scans in the order in which lastScan was set (history)

apiVars == <<devices, request, lastScan, openAlerts, assigned>>

ASSUME ApiAssumption ==
    /\ IsFiniteSet(Request)
    /\ Absent \notin DeviceId /\ Absent \notin Request

Ask == [op : {"create"}, name : DeviceName] \union [op : {"delete"}, id : DeviceId]
         \union [op : {"ack"}, id : AlertId] \union [op : {"scan", "results"}]

Fresh == [stage |-> "new"]

ApiInit ==
    /\ DevicesInit
    /\ request = [r \in Request |-> Fresh]
    /\ lastScan = Absent
    /\ openAlerts = AlertId
    /\ assigned = << >>

-----------------------------------------------------------------------------
Answered == {r \in Request : request[r].stage = "answered"}
Of(op) == {r \in Request : request[r].stage # "new" /\ request[r].ask.op = op}
With(op, code) == {r \in Of(op) \cap Answered : request[r].code = code}

\* deleted (a delete has committed) and before (the scans that had been answered when
\* the request began) are history.
BeginRequest(r, ask) ==
    /\ request[r] = Fresh
    /\ request' = [request EXCEPT ![r] =
                     [stage |-> "begun", ask |-> ask, id |-> Absent, deleted |-> FALSE,
                      code |-> 0, body |-> Absent, before |-> With("scan", 200)]]
    /\ UNCHANGED <<devices, lastScan, openAlerts, assigned>>

At(r, op, stage) == r \in Of(op) /\ request[r].stage = stage

Move(r, stage) == request' = [request EXCEPT ![r].stage = stage]

Reply(r, code, body) ==
    request' = [request EXCEPT ![r].stage = "answered", ![r].code = code, ![r].body = body]

\* create_device: the name is looked up first, and refused by the schema if it
\* was taken since; that exception is no ValueError, and becomes a 500.
CreateFind(r) ==
    /\ At(r, "create", "begun")
    /\ IF Named(request[r].ask.name) = {} THEN Move(r, "insert") ELSE Reply(r, 400, Absent)
    /\ UNCHANGED <<devices, lastScan, openAlerts, assigned>>

CreateInsert(r) ==
    /\ At(r, "create", "insert")
    /\ IF Named(request[r].ask.name) = {}
       THEN /\ InsertRow(request[r].ask.name)
            /\ request' = [request EXCEPT ![r].stage = "refresh", ![r].id = FreshId]
       ELSE Reply(r, 500, Absent) /\ UNCHANGED devices
    /\ UNCHANGED <<lastScan, openAlerts, assigned>>

\* add() reads the committed row again, and raises when it is gone.
CreateRefresh(r) ==
    /\ At(r, "create", "refresh")
    /\ IF request[r].id \in Stored THEN Move(r, "record") ELSE Reply(r, 500, Absent)
    /\ UNCHANGED <<devices, lastScan, openAlerts, assigned>>

\* delete_device, of the service: the device is looked up for the activity log, and
\* the repository looks it up again, then deletes it by its id. (A SELECT does not
\* begin a transaction, and a DELETE that matches no row only gives a warning.)
DeleteLooks(r) ==
    \/ /\ At(r, "delete", "begun")
       /\ request' = [request EXCEPT ![r].stage = "find",
                        ![r].id = IF request[r].ask.id \in Stored THEN request[r].ask.id
                                  ELSE Absent]
       /\ UNCHANGED <<devices, lastScan, openAlerts, assigned>>
    \/ /\ At(r, "delete", "find")
       /\ IF request[r].ask.id \in Stored THEN Move(r, "delete") ELSE Reply(r, 404, Absent)
       /\ UNCHANGED <<devices, lastScan, openAlerts, assigned>>

\* The DELETE is committed; only what the first look found is recorded.
DeleteDevice(r) ==
    /\ At(r, "delete", "delete")
    /\ devices' = [devices EXCEPT ![request[r].ask.id] = NoRow]
    /\ request' = [request EXCEPT ![r].deleted = TRUE,
                     ![r].stage = IF request[r].id # Absent THEN "record" ELSE "done"]
    /\ UNCHANGED <<lastScan, openAlerts, assigned>>

\* The activity is recorded, and the client is told.
AnswerRecorded(r) ==
    /\ \/ At(r, "create", "record") /\ Reply(r, 201, request[r].id)
       \/ At(r, "delete", "record") /\ Reply(r, 200, request[r].ask.id)
       \/ At(r, "delete", "done") /\ Reply(r, 200, request[r].ask.id)
    /\ UNCHANGED <<devices, lastScan, openAlerts, assigned>>

\* Bug: what could not be recorded is done again.
RequestRepeats(r) ==
    /\ r \in Of("create") \union Of("delete") \union Of("ack") \union Of("scan")
    /\ request[r].stage \notin {"done", "kept", "answered"}
    /\ IF At(r, "delete", "record") THEN Move(r, "delete") ELSE Reply(r, 500, Absent)
    /\ UNCHANGED <<devices, lastScan, openAlerts, assigned>>

\* A session raises, at any stage of a request that has one left.
RequestFails(r) ==
    /\ r \in Of("create") \union Of("delete") \union Of("ack") \union Of("scan")
    /\ request[r].stage \notin {"done", "kept", "answered"}
    /\ Reply(r, 500, Absent)
    /\ UNCHANGED <<devices, lastScan, openAlerts, assigned>>

\* acknowledge_alert: one conditional UPDATE and its row count.
AcknowledgeAlert(r) ==
    /\ At(r, "ack", "begun")
    /\ LET a == request[r].ask.id
       IN  IF a \in openAlerts
           THEN openAlerts' = openAlerts \ {a} /\ Reply(r, 200, a)
           ELSE Reply(r, 404, Absent) /\ UNCHANGED openAlerts
    /\ UNCHANGED <<devices, lastScan, assigned>>

\* Bug: the result is kept after the response was built and sent.
ScanKeptLate(r) ==
    \/ /\ At(r, "scan", "begun")
       /\ Reply(r, 200, r)
       /\ UNCHANGED <<devices, lastScan, openAlerts, assigned>>
    \/ /\ r \in With("scan", 200) /\ r \notin ToSet(assigned)
       /\ lastScan' = r /\ assigned' = Append(assigned, r)
       /\ UNCHANGED <<devices, request, openAlerts>>

\* network_scan: the service has returned; the result is kept, then sent.
ScanKept(r) ==
    \/ /\ At(r, "scan", "begun")
       /\ lastScan' = r /\ assigned' = Append(assigned, r)
       /\ Move(r, "kept")
       /\ UNCHANGED <<devices, openAlerts>>
    \/ /\ At(r, "scan", "kept")
       /\ Reply(r, 200, r)
       /\ UNCHANGED <<devices, lastScan, openAlerts, assigned>>

\* network_results looks at last_scan twice; it is never None again.
Results(r) ==
    /\ At(r, "results", "begun")
    /\ IF lastScan = Absent THEN Reply(r, 404, Absent) ELSE Reply(r, 200, lastScan)
    /\ UNCHANGED <<devices, lastScan, openAlerts, assigned>>

ApiNext ==
    \E r \in Request :
        \/ \E ask \in Ask : BeginRequest(r, ask)
        \/ CreateFind(r) \/ CreateInsert(r) \/ CreateRefresh(r)
        \/ DeleteLooks(r) \/ DeleteDevice(r) \/ AnswerRecorded(r)
        \/ AcknowledgeAlert(r) \/ ScanKept(r) \/ Results(r) \/ RequestFails(r)

ApiSpec == ApiInit /\ [][ApiNext]_apiVars

-----------------------------------------------------------------------------
(* Properties *)

Told(op, code, body) == {r \in With(op, code) : request[r].body = body}

ApiTypeOK ==
    /\ DeviceTypeOK
    /\ \A r \in Request : request[r] = Fresh \/
         request[r] \in [stage : {"begun", "insert", "refresh", "find", "delete", "record",
                                 "done", "kept", "answered"},
                        ask : Ask, id : DeviceId \union {Absent}, deleted : BOOLEAN,
                        code : Nat,
                        body : DeviceId \union AlertId \union Request \union {Absent},
                        before : SUBSET Request]
    /\ DOMAIN request = Request /\ openAlerts \subseteq AlertId
    /\ lastScan \in Request \union {Absent} /\ assigned \in Seq(Request)

\* Requests that have inserted a device under d, answered or not.
Creators(d) == {r \in Of("create") : request[r].id = d}

\* Requests that have deleted the device under d, whatever they are answered.
Deleters(d) == {r \in Of("delete") : request[r].ask.id = d /\ request[r].deleted}

\* Clients can count on the answers, however their requests overlap and fail: a
\* device that was answered as created is there until a request deletes it, although
\* ids are used again, and one request deletes one device at most; that request is
\* answered 200, or 500 when the activity could not be recorded, and a 200 or a 404
\* is true; an alert is answered as acknowledged at most once; and no two devices
\* that are there have one name.
AnswersAddUp ==
    /\ \A d \in DeviceId :
         Cardinality(Told("create", 201, d))
           <= Cardinality(Deleters(d)) + (IF d \in Stored THEN 1 ELSE 0)
    /\ \A r \in Of("delete") \cap Answered :
         /\ request[r].code \in {200, 404, 500}
         /\ request[r].code # 500 => (request[r].code = 200 <=> request[r].deleted)
    /\ \A a \in AlertId : Cardinality(Told("ack", 200, a)) <= 1
    /\ NamesDiffer

\* Why: the same holds of a device from its insertion on, whether or not it was
\* answered, and an alert that is open was answered by no one.
AnswersInv ==
    /\ ApiTypeOK /\ AnswersAddUp
    /\ \A r \in Of("create") :
         request[r].stage \in {"refresh", "record"} => request[r].id \in DeviceId
    /\ \A r \in With("create", 201) : request[r].body = request[r].id
    /\ \A r \in Of("delete") \ Answered :
         request[r].deleted <=> request[r].stage \in {"record", "done"}
    /\ \A d \in DeviceId :
         Cardinality(Creators(d)) <= Cardinality(Deleters(d)) + (IF d \in Stored THEN 1 ELSE 0)
    /\ \A a \in openAlerts : Told("ack", 200, a) = {}

Rank(r) == CHOOSE i \in DOMAIN assigned : assigned[i] = r

\* After a client has the answer of a scan, GET results gives that scan or one
\* that was kept later, and never says that there is none.
ResultsAreFresh ==
    \A r \in Of("results") \cap Answered :
        \A s \in request[r].before :
            request[r].code = 200 /\ Rank(s) <= Rank(request[r].body)

\* Why: scans are kept once each, before they are answered, and the last is kept.
ResultsInv ==
    /\ ApiTypeOK /\ ResultsAreFresh
    /\ \A i, j \in DOMAIN assigned : assigned[i] = assigned[j] => i = j
    /\ ToSet(assigned) = {r \in Of("scan") : request[r].stage = "kept"} \union With("scan", 200)
    /\ lastScan = IF assigned = << >> THEN Absent ELSE Last(assigned)
    /\ \A r \in Request : request[r] # Fresh => request[r].before \subseteq ToSet(assigned)
    /\ \A r \in With("results", 200) : request[r].body \in ToSet(assigned)

=============================================================================
