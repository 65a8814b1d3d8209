---------------------------- MODULE AlertService ----------------------------
(***************************************************************************)
(* The alerts table and the three operations of AlertService, as several   *)
(* threads (scheduler pool, check-now rounds, API requests) run them.      *)
(*                                                                         *)
(* Each operation is the sequence of database sessions the code opens:     *)
(*   raise_alert     find an open row; if there is none, insert one        *)
(*   resolve_alerts  find an open row; if there is one, acknowledge it     *)
(*   acknowledge     one conditional UPDATE (the operator's action)        *)
(* The sessions of one call are separate transactions, so other threads    *)
(* run between them.  A row's position in alerts is its primary key:       *)
(* nothing ever deletes an alert.                                          *)
(***************************************************************************)
EXTENDS Naturals, Sequences, FiniteSets

CONSTANTS
    Worker,     \* the threads that call AlertService
    Key,        \* the (type, source) pairs alerts are raised for
    MaxAlerts   \* bound: no raise starts once the table holds this many rows

ASSUME AlertAssumption ==
    /\ IsFiniteSet(Worker) /\ Worker # {}
    /\ MaxAlerts \in Nat

VARIABLES
    alerts,     \* the alerts table; by (the inserting thread) is a history field
    call        \* call[w]: the AlertService call thread w is in the middle of

alertVars == <<alerts, call>>

Row == [key : Key, open : BOOLEAN, by : Worker]

\* A call between its two sessions: the key to insert, or the row to acknowledge.
Idle == [op |-> "idle"]
Calls ==
    {Idle}
      \union [op : {"insert"}, key : Key]
      \union [op : {"acknowledge"}, key : Key, id : Nat \ {0}]

AlertTypeOK ==
    /\ alerts \in Seq(Row)
    /\ call \in [Worker -> Calls]

AlertInit ==
    /\ alerts = <<>>
    /\ call = [w \in Worker |-> Idle]

\* AlertRepository.find_unacknowledged: the open rows of a condition.
OpenRows(k) == {i \in DOMAIN alerts : alerts[i].key = k /\ alerts[i].open}

\* Bug: the acknowledge button toggles the flag.
ToggleRow(i) ==
    alerts' = [alerts EXCEPT ![i].open = ~ @]

\* AlertRepository.acknowledge: UPDATE ... WHERE id = i AND NOT acknowledged.
AcknowledgeRow(i) ==
    alerts' = [alerts EXCEPT ![i].open = FALSE]

-----------------------------------------------------------------------------
(* raise_alert *)

StartInsert(w, k) == call' = [call EXCEPT ![w] = [op |-> "insert", key |-> k]]

\* Bug: no dedup at all.
RaiseWithoutFind(w, k) ==
    /\ call[w] = Idle /\ Len(alerts) < MaxAlerts
    /\ StartInsert(w, k)
    /\ UNCHANGED alerts

\* Bug: dedup against the newest row of the table only.
RaiseFindNewest(w, k) ==
    /\ call[w] = Idle /\ Len(alerts) < MaxAlerts
    /\ IF Len(alerts) \in OpenRows(k) THEN UNCHANGED call ELSE StartInsert(w, k)
    /\ UNCHANGED alerts

\* Bug: dedup against acknowledged rows too.
RaiseFindAnyRow(w, k) ==
    /\ call[w] = Idle /\ Len(alerts) < MaxAlerts
    /\ IF \E i \in DOMAIN alerts : alerts[i].key = k
       THEN UNCHANGED call ELSE StartInsert(w, k)
    /\ UNCHANGED alerts

RaiseFind(w, k) ==
    /\ call[w] = Idle
    /\ Len(alerts) < MaxAlerts
    /\ IF OpenRows(k) = {}
       THEN StartInsert(w, k)
       ELSE UNCHANGED call                \* deduplicated away: returns None
    /\ UNCHANGED alerts

RaiseInsert(w) ==
    /\ call[w].op = "insert"
    /\ alerts' = Append(alerts, [key |-> call[w].key, open |-> TRUE, by |-> w])
    /\ call' = [call EXCEPT ![w] = Idle]

(* resolve_alerts: which of several open rows is found is left open, because
   created_at is taken before the insert and two threads may insert in the
   other order. *)
ResolveFind(w, k) ==
    /\ call[w] = Idle
    /\ \/ OpenRows(k) = {} /\ UNCHANGED call     \* returns 0
       \/ \E i \in OpenRows(k) :
            call' = [call EXCEPT
                       ![w] = [op |-> "acknowledge", key |-> k, id |-> i]]
    /\ UNCHANGED alerts

ResolveAcknowledge(w) ==
    /\ call[w].op = "acknowledge"
    /\ AcknowledgeRow(call[w].id)
    /\ call' = [call EXCEPT ![w] = Idle]          \* returns 1 in any case

(* acknowledge, from the alerts page or POST /api/alerts/{id}/ack *)
Acknowledge(i) ==
    /\ AcknowledgeRow(i)
    /\ UNCHANGED call

\* A session raises, as the store may at any time: the call ends, and what its
\* earlier session committed stays.
CallFails(w) ==
    /\ call' = [call EXCEPT ![w] = Idle]
    /\ UNCHANGED alerts

(* The process dies: calls in progress are lost, committed rows stay. *)
Crash ==
    /\ call' = [w \in Worker |-> Idle]
    /\ UNCHANGED alerts

AlertNext ==
    \/ \E w \in Worker, k \in Key : RaiseFind(w, k) \/ ResolveFind(w, k)
    \/ \E w \in Worker : RaiseInsert(w) \/ ResolveAcknowledge(w) \/ CallFails(w)
    \/ \E i \in DOMAIN alerts : Acknowledge(i)
    \/ Crash

AlertSpec == AlertInit /\ [][AlertNext]_alertVars

-----------------------------------------------------------------------------
(* Properties *)

\* Two open alerts of the same condition were inserted by different threads:
\* the find that starts raise_alert dedups every alert of the calling thread.
OpenRaisersDistinct ==
    \A i, j \in DOMAIN alerts :
        /\ alerts[i].open /\ alerts[j].open
        /\ alerts[i].key = alerts[j].key
        /\ alerts[i].by = alerts[j].by
        => i = j

\* A thread about to insert an alert has none of the same condition open.
InsertIsOwnFirst ==
    \A w \in Worker : call[w].op = "insert" =>
        \A i \in OpenRows(call[w].key) : alerts[i].by # w

\* resolve_alerts acknowledges a row of the condition that cleared, however
\* long the thread pauses between finding it and acknowledging it.
ResolveHitsOwnCondition ==
    \A w \in Worker : call[w].op = "acknowledge" =>
        /\ call[w].id \in DOMAIN alerts
        /\ alerts[call[w].id].key = call[w].key

\* The inductive invariant behind the bound on duplicates.
AlertInv ==
    /\ AlertTypeOK
    /\ OpenRaisersDistinct
    /\ InsertIsOwnFirst
    /\ ResolveHitsOwnCondition

\* The dedup rule of the module docstring: one open alert per (type, source).
DedupRule == \A k \in Key : \A i, j \in OpenRows(k) : i = j

\* A row is never deleted, never reopened and never changes its condition.
AlertsOnlyClose ==
    [][\A i \in DOMAIN alerts :
          /\ i \in DOMAIN alerts'
          /\ alerts'[i].key = alerts[i].key
          /\ alerts'[i].open => alerts[i].open]_alertVars

\* The inbox seen by the operator, and what AlertService promises about it:
\* the open alerts of a condition never outnumber the threads.
Inbox == INSTANCE AlertInbox
            WITH inbox <- [k \in Key |-> Cardinality(OpenRows(k))],
                 Limit <- Cardinality(Worker)

ImplementsInbox == Inbox!InboxSpec

=============================================================================
