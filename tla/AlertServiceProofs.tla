------------------------- MODULE AlertServiceProofs -------------------------
(***************************************************************************)
(* Proofs about AlertService for any set of threads, any set of conditions *)
(* and any number of alerts.                                               *)
(***************************************************************************)
EXTENDS AlertService, FiniteSetTheorems, FunctionTheorems, TLAPS

\* The rows a table step touches, in the form the step proofs use them.
LEMMA RowFacts ==
    ASSUME AlertTypeOK
    PROVE  /\ Len(alerts) \in Nat
           /\ DOMAIN alerts = 1 .. Len(alerts)
           /\ \A i \in DOMAIN alerts : alerts[i] \in Row
  BY DEF AlertTypeOK

\* AlertRepository.acknowledge keeps the table well formed and changes nothing
\* of a row except that row i is no longer open.
LEMMA AcknowledgeRowFacts ==
    ASSUME AlertTypeOK, NEW i \in DOMAIN alerts, AcknowledgeRow(i)
    PROVE  /\ alerts' \in Seq(Row)
           /\ DOMAIN alerts' = DOMAIN alerts
           /\ \A j \in DOMAIN alerts :
                /\ alerts'[j].key = alerts[j].key
                /\ alerts'[j].by = alerts[j].by
                /\ alerts'[j].open => alerts[j].open
  <1>1. alerts[i] \in Row /\ alerts \in Seq(Row)
    BY RowFacts DEF AlertTypeOK
  <1>2. [alerts[i] EXCEPT !.open = FALSE] \in Row
    BY <1>1 DEF Row
  <1>3. alerts' \in Seq(Row) /\ DOMAIN alerts' = DOMAIN alerts
    BY <1>1, <1>2 DEF AcknowledgeRow
  <1>4. \A j \in DOMAIN alerts :
          alerts'[j] = IF j = i THEN [alerts[i] EXCEPT !.open = FALSE] ELSE alerts[j]
    BY <1>1 DEF AcknowledgeRow
  <1>5. \A j \in DOMAIN alerts :
          /\ alerts'[j].key = alerts[j].key
          /\ alerts'[j].by = alerts[j].by
          /\ alerts'[j].open => alerts[j].open
    BY <1>1, <1>4, RowFacts DEF Row
  <1>6. QED
    BY <1>3, <1>5

\* The row an insert appends.
LEMMA RaiseInsertFacts ==
    ASSUME AlertTypeOK, NEW w \in Worker, RaiseInsert(w)
    PROVE  /\ call[w].key \in Key
           /\ alerts' \in Seq(Row)
           /\ Len(alerts') = Len(alerts) + 1
           /\ \A j \in DOMAIN alerts : alerts'[j] = alerts[j]
           /\ alerts'[Len(alerts) + 1] = [key |-> call[w].key, open |-> TRUE, by |-> w]
  <1>1. call[w] \in Calls /\ call[w].op = "insert"
    BY DEF AlertTypeOK, RaiseInsert
  <1>2. call[w].key \in Key
    BY <1>1 DEF Calls, Idle
  <1>3. [key |-> call[w].key, open |-> TRUE, by |-> w] \in Row
    BY <1>2 DEF Row
  <1>4. QED
    BY <1>2, <1>3 DEF AlertTypeOK, RaiseInsert

-----------------------------------------------------------------------------
(* The inductive invariant *)

LEMMA AlertInvInit == AlertInit => AlertInv
  <1> SUFFICES ASSUME AlertInit PROVE AlertInv
    OBVIOUS
  <1>1. alerts = <<>> /\ call = [w \in Worker |-> Idle]
    BY DEF AlertInit
  <1>2. AlertTypeOK
    BY <1>1 DEF AlertTypeOK, Calls
  <1>3. OpenRaisersDistinct
    BY <1>1 DEF OpenRaisersDistinct
  <1>4. InsertIsOwnFirst /\ ResolveHitsOwnCondition
    BY <1>1 DEF InsertIsOwnFirst, ResolveHitsOwnCondition, Idle
  <1>5. QED
    BY <1>2, <1>3, <1>4 DEF AlertInv

\* Every step of AlertService preserves the inductive invariant.
LEMMA AlertInvStep == AlertInv /\ [AlertNext]_alertVars => AlertInv'
  <1> SUFFICES ASSUME AlertInv, [AlertNext]_alertVars PROVE AlertInv'
    OBVIOUS
  <1> USE DEF AlertInv
  <1>1. ASSUME NEW w \in Worker, NEW k \in Key, RaiseFind(w, k)
        PROVE  AlertInv'
    <2>1. alerts' = alerts
      BY <1>1 DEF RaiseFind
    <2>2. \/ call' = call
          \/ /\ OpenRows(k) = {}
             /\ call' = [call EXCEPT ![w] = [op |-> "insert", key |-> k]]
      BY <1>1 DEF RaiseFind, StartInsert
    <2>3. AlertTypeOK'
      BY <2>1, <2>2 DEF AlertTypeOK, Calls
    <2>4. OpenRaisersDistinct'
      BY <2>1 DEF OpenRaisersDistinct
    <2>5. InsertIsOwnFirst'
      BY <2>1, <2>2 DEF InsertIsOwnFirst, OpenRows, AlertTypeOK
    <2>6. ResolveHitsOwnCondition'
      BY <2>1, <2>2 DEF ResolveHitsOwnCondition, AlertTypeOK
    <2>7. QED
      BY <2>3, <2>4, <2>5, <2>6
  <1>2. ASSUME NEW w \in Worker, NEW k \in Key, ResolveFind(w, k)
        PROVE  AlertInv'
    <2>1. alerts' = alerts
      BY <1>2 DEF ResolveFind
    <2>2. \/ call' = call
          \/ \E i \in OpenRows(k) :
               call' = [call EXCEPT
                          ![w] = [op |-> "acknowledge", key |-> k, id |-> i]]
      BY <1>2 DEF ResolveFind
    <2>3. \A i \in OpenRows(k) :
            i \in DOMAIN alerts /\ alerts[i].key = k /\ i \in Nat \ {0}
      BY RowFacts DEF OpenRows
    <2>4. AlertTypeOK'
      BY <2>1, <2>2, <2>3 DEF AlertTypeOK, Calls
    <2>5. OpenRaisersDistinct'
      BY <2>1 DEF OpenRaisersDistinct
    <2>6. InsertIsOwnFirst'
      BY <2>1, <2>2 DEF InsertIsOwnFirst, OpenRows, AlertTypeOK
    <2>7. ResolveHitsOwnCondition'
      BY <2>1, <2>2, <2>3 DEF ResolveHitsOwnCondition, AlertTypeOK
    <2>8. QED
      BY <2>4, <2>5, <2>6, <2>7
  <1>3. ASSUME NEW w \in Worker, RaiseInsert(w)
        PROVE  AlertInv'
    <2> DEFINE n == Len(alerts) + 1
    <2>1. call' = [call EXCEPT ![w] = Idle] /\ call[w].op = "insert"
      BY <1>3 DEF RaiseInsert
    <2>2. /\ DOMAIN alerts = 1 .. Len(alerts) /\ Len(alerts) \in Nat
          /\ alerts' \in Seq(Row)
          /\ DOMAIN alerts' = 1 .. n
          /\ \A j \in DOMAIN alerts : alerts'[j] = alerts[j]
          /\ alerts'[n] = [key |-> call[w].key, open |-> TRUE, by |-> w]
      BY <1>3, RaiseInsertFacts, RowFacts
    <2>3. DOMAIN alerts' = DOMAIN alerts \union {n} /\ n \notin DOMAIN alerts
      BY <2>2
    <2>4. alerts'[n].key = call[w].key /\ alerts'[n].open /\ alerts'[n].by = w
      BY <2>2
    <2> HIDE DEF n
    <2>5. AlertTypeOK'
      BY <2>1, <2>2 DEF AlertTypeOK, Calls
    <2>6. \A i \in DOMAIN alerts :
            alerts[i].open /\ alerts[i].key = call[w].key => alerts[i].by # w
      BY <2>1 DEF InsertIsOwnFirst, OpenRows
    <2>7. OpenRaisersDistinct'
      <3> SUFFICES ASSUME NEW i \in DOMAIN alerts', NEW j \in DOMAIN alerts',
                          alerts'[i].open, alerts'[j].open,
                          alerts'[i].key = alerts'[j].key,
                          alerts'[i].by = alerts'[j].by
                   PROVE  i = j
        BY DEF OpenRaisersDistinct
      <3>1. CASE i = n /\ j = n
        BY <3>1
      <3>2. CASE i = n /\ j \in DOMAIN alerts
        BY <3>2, <2>2, <2>4, <2>6
      <3>3. CASE i \in DOMAIN alerts /\ j = n
        BY <3>3, <2>2, <2>4, <2>6
      <3>4. CASE i \in DOMAIN alerts /\ j \in DOMAIN alerts
        BY <3>4, <2>2 DEF OpenRaisersDistinct
      <3>5. QED
        BY <3>1, <3>2, <3>3, <3>4, <2>3
    <2>8. InsertIsOwnFirst'
      <3> SUFFICES ASSUME NEW v \in Worker, call'[v].op = "insert",
                          NEW i \in DOMAIN alerts',
                          alerts'[i].key = call'[v].key, alerts'[i].open
                   PROVE  alerts'[i].by # v
        BY DEF InsertIsOwnFirst, OpenRows
      <3>1. v # w /\ call'[v] = call[v]
        BY <2>1 DEF Idle, AlertTypeOK
      <3>2. CASE i = n
        BY <3>1, <3>2, <2>4
      <3>3. CASE i \in DOMAIN alerts
        BY <3>1, <3>3, <2>2 DEF InsertIsOwnFirst, OpenRows
      <3>4. QED
        BY <3>2, <3>3, <2>3
    <2>9. ResolveHitsOwnCondition'
      BY <2>1, <2>2, <2>3 DEF ResolveHitsOwnCondition, Idle, AlertTypeOK
    <2>10. QED
      BY <2>5, <2>7, <2>8, <2>9
  <1>4. ASSUME NEW i \in DOMAIN alerts, AcknowledgeRow(i),
               \/ call' = call
               \/ \E w \in Worker : call' = [call EXCEPT ![w] = Idle]
        PROVE  AlertInv'
    <2>1. /\ alerts' \in Seq(Row)
          /\ DOMAIN alerts' = DOMAIN alerts
          /\ \A j \in DOMAIN alerts :
                /\ alerts'[j].key = alerts[j].key
                /\ alerts'[j].by = alerts[j].by
                /\ alerts'[j].open => alerts[j].open
      BY <1>4, AcknowledgeRowFacts
    <2>2. \A v \in Worker : call'[v] = call[v] \/ call'[v] = Idle
      BY <1>4 DEF AlertTypeOK
    <2>3. AlertTypeOK'
      BY <1>4, <2>1 DEF AlertTypeOK, Calls
    <2>4. OpenRaisersDistinct'
      BY <2>1 DEF OpenRaisersDistinct
    <2>5. InsertIsOwnFirst'
      BY <2>1, <2>2 DEF InsertIsOwnFirst, OpenRows, Idle
    <2>6. ResolveHitsOwnCondition'
      BY <2>1, <2>2 DEF ResolveHitsOwnCondition, Idle
    <2>7. QED
      BY <2>3, <2>4, <2>5, <2>6
  <1>5. ASSUME NEW w \in Worker, ResolveAcknowledge(w)
        PROVE  AlertInv'
    <2>1. call[w].id \in DOMAIN alerts
      BY <1>5 DEF ResolveAcknowledge, ResolveHitsOwnCondition
    <2>2. QED
      BY <1>4, <1>5, <2>1 DEF ResolveAcknowledge
  <1>6. ASSUME NEW i \in DOMAIN alerts, Acknowledge(i)
        PROVE  AlertInv'
    BY <1>4, <1>6 DEF Acknowledge
  <1>7. CASE Crash
    <2>1. alerts' = alerts /\ call' = [w \in Worker |-> Idle]
      BY <1>7 DEF Crash
    <2>2. AlertTypeOK'
      BY <2>1 DEF AlertTypeOK, Calls
    <2>3. OpenRaisersDistinct'
      BY <2>1 DEF OpenRaisersDistinct
    <2>4. InsertIsOwnFirst' /\ ResolveHitsOwnCondition'
      BY <2>1 DEF InsertIsOwnFirst, ResolveHitsOwnCondition, Idle
    <2>5. QED
      BY <2>2, <2>3, <2>4
  <1>8. ASSUME NEW w \in Worker, CallFails(w) PROVE AlertInv'
    <2>1. alerts' = alerts /\ call' = [call EXCEPT ![w] = Idle]
      BY <1>8 DEF CallFails
    <2>2. AlertTypeOK'
      BY <2>1 DEF AlertTypeOK, Calls
    <2>3. OpenRaisersDistinct'
      BY <2>1 DEF OpenRaisersDistinct
    <2>4. \A v \in Worker : call'[v] = call[v] \/ call'[v] = Idle
      BY <2>1 DEF AlertTypeOK
    <2>5. InsertIsOwnFirst' /\ ResolveHitsOwnCondition'
      BY <2>1, <2>4 DEF InsertIsOwnFirst, ResolveHitsOwnCondition, OpenRows, Idle
    <2>6. QED
      BY <2>2, <2>3, <2>5
  <1>9. CASE UNCHANGED alertVars
    BY <1>9 DEF alertVars, AlertTypeOK, OpenRaisersDistinct, InsertIsOwnFirst,
                ResolveHitsOwnCondition, OpenRows
  <1>10. QED
    BY <1>1, <1>2, <1>3, <1>5, <1>6, <1>7, <1>8, <1>9 DEF AlertNext

\* In every reachable state, whatever the number of threads: the open alerts
\* of one condition were inserted by different threads, a thread about to
\* insert has none of its own open, and an automatic acknowledgement hits a
\* row of the condition that cleared.
THEOREM AlertInvariant == AlertSpec => []AlertInv
  <1>1. AlertInit => AlertInv
    BY AlertInvInit
  <1>2. AlertInv /\ [AlertNext]_alertVars => AlertInv'
    BY AlertInvStep
  <1>3. QED
    BY <1>1, <1>2, PTL DEF AlertSpec

\* One step of AlertService neither deletes a row, nor reopens one, nor moves
\* one to another condition.
LEMMA AlertsOnlyCloseStep ==
    ASSUME AlertInv, [AlertNext]_alertVars
    PROVE  \A i \in DOMAIN alerts :
             /\ i \in DOMAIN alerts'
             /\ alerts'[i].key = alerts[i].key
             /\ alerts'[i].open => alerts[i].open
  <1> DEFINE Kept == \A i \in DOMAIN alerts :
                       /\ i \in DOMAIN alerts'
                       /\ alerts'[i].key = alerts[i].key
                       /\ alerts'[i].open => alerts[i].open
  <1>1. ASSUME alerts' = alerts PROVE Kept
    BY <1>1
  <1>2. ASSUME NEW w \in Worker, RaiseInsert(w) PROVE Kept
    <2>1. /\ alerts' \in Seq(Row) /\ Len(alerts') = Len(alerts) + 1
          /\ \A j \in DOMAIN alerts : alerts'[j] = alerts[j]
      BY <1>2, RaiseInsertFacts DEF AlertInv
    <2>2. QED
      BY <2>1, RowFacts DEF AlertInv
  <1>3. ASSUME NEW i \in DOMAIN alerts, AcknowledgeRow(i) PROVE Kept
    BY <1>3, AcknowledgeRowFacts DEF AlertInv
  <1>4. QED
    BY <1>1, <1>2, <1>3
       DEF AlertNext, RaiseFind, ResolveFind, ResolveAcknowledge, Acknowledge, Crash,
           CallFails, alertVars, AlertInv, ResolveHitsOwnCondition

\* An alert, once raised, stays in the table, and once acknowledged is never
\* reopened.
THEOREM AlertsOnlyCloseAlways == AlertSpec => AlertsOnlyClose
  BY AlertsOnlyCloseStep, AlertInvariant, PTL DEF AlertSpec, AlertsOnlyClose

-----------------------------------------------------------------------------
(* The bound on duplicates *)

\* A thread inserts only while another open alert of its condition fits in
\* the number of threads: the open ones belong to the other threads.
LEMMA InsertHasRoom ==
    ASSUME AlertInv, NEW w \in Worker, call[w].op = "insert"
    PROVE  /\ IsFiniteSet(OpenRows(call[w].key))
           /\ Cardinality(OpenRows(call[w].key)) < Cardinality(Worker)
  <1> DEFINE k == call[w].key
             others == Worker \ {w}
             raiser == [i \in OpenRows(k) |-> alerts[i].by]
  <1>1. IsFiniteSet(others) /\ Cardinality(others) = Cardinality(Worker) - 1
    BY AlertAssumption, FS_RemoveElement
  <1>2. \A i \in OpenRows(k) : alerts[i].by \in others
    BY RowFacts DEF AlertInv, InsertIsOwnFirst, OpenRows, Row
  <1>3. raiser \in [OpenRows(k) -> others]
    BY <1>2
  <1>4. \A i, j \in OpenRows(k) : raiser[i] = raiser[j] => i = j
    BY DEF AlertInv, OpenRaisersDistinct, OpenRows
  <1>5. raiser \in Injection(OpenRows(k), others)
    BY <1>3, <1>4, Fun_IsInj
  <1>6. /\ IsFiniteSet(OpenRows(k))
        /\ Cardinality(OpenRows(k)) <= Cardinality(others)
    BY <1>1, <1>5, FS_Injection
  <1>7. Cardinality(Worker) \in Nat /\ Cardinality(OpenRows(k)) \in Nat
    BY <1>6, AlertAssumption, FS_CardinalityType
  <1>8. QED
    BY <1>1, <1>6, <1>7

LEMMA OpenRowsFinite ==
    ASSUME AlertTypeOK, NEW k
    PROVE  IsFiniteSet(OpenRows(k)) /\ Cardinality(OpenRows(k)) \in Nat
  <1>1. IsFiniteSet(1 .. Len(alerts)) /\ OpenRows(k) \in SUBSET (1 .. Len(alerts))
    BY RowFacts, FS_Interval DEF OpenRows
  <1>2. QED
    BY <1>1, FS_Subset, FS_CardinalityType

\* An insert adds its row to the open rows of its condition and no other.
LEMMA InsertOpens ==
    ASSUME AlertTypeOK, NEW w \in Worker, RaiseInsert(w), NEW k \in Key
    PROVE  Cardinality(OpenRows(k)') =
             IF k = call[w].key THEN Cardinality(OpenRows(k)) + 1
                                ELSE Cardinality(OpenRows(k))
  <1> DEFINE n == Len(alerts) + 1
  <1>1. /\ DOMAIN alerts = 1 .. Len(alerts) /\ Len(alerts) \in Nat
        /\ alerts' \in Seq(Row) /\ Len(alerts') = n
        /\ \A j \in DOMAIN alerts : alerts'[j] = alerts[j]
        /\ alerts'[n] = [key |-> call[w].key, open |-> TRUE, by |-> w]
    BY RaiseInsertFacts, RowFacts
  <1>2. /\ DOMAIN alerts' = DOMAIN alerts \union {n} /\ n \notin DOMAIN alerts
        /\ alerts'[n].key = call[w].key /\ alerts'[n].open
    BY <1>1
  <1> HIDE DEF n
  <1>3. CASE k = call[w].key
    <2>1. OpenRows(k)' = OpenRows(k) \union {n} /\ n \notin OpenRows(k)
      BY <1>1, <1>2, <1>3 DEF OpenRows
    <2>2. QED
      BY <2>1, <1>3, OpenRowsFinite, FS_AddElement
  <1>4. CASE k # call[w].key
    <2>1. OpenRows(k)' = OpenRows(k)
      BY <1>1, <1>2, <1>4 DEF OpenRows
    <2>2. QED
      BY <2>1, <1>4
  <1>5. QED
    BY <1>3, <1>4

\* Acknowledging row i closes it: its condition loses one open row if it was
\* open, and no other condition notices.
LEMMA AcknowledgeCloses ==
    ASSUME AlertTypeOK, NEW i \in DOMAIN alerts, AcknowledgeRow(i), NEW k \in Key
    PROVE  OpenRows(k)' = OpenRows(k) \ {i}
  <1>1. \A j \in DOMAIN alerts :
          alerts'[j] = IF j = i THEN [alerts[i] EXCEPT !.open = FALSE] ELSE alerts[j]
    BY DEF AcknowledgeRow, AlertTypeOK
  <1>2. DOMAIN alerts' = DOMAIN alerts
    BY AcknowledgeRowFacts
  <1>3. alerts[i] \in Row
    BY RowFacts
  <1>4. ~ alerts'[i].open /\ \A j \in DOMAIN alerts : j # i => alerts'[j] = alerts[j]
    BY <1>1, <1>3 DEF Row
  <1>5. QED
    BY <1>2, <1>4 DEF OpenRows

-----------------------------------------------------------------------------
(* AlertService implements AlertInbox *)

\* Every step of AlertService is an Open or a Close of one condition in the
\* inbox, or does not show there.
LEMMA InboxStep ==
    ASSUME AlertInv, AlertInv', [AlertNext]_alertVars
    PROVE  [Inbox!InboxNext]_[k \in Key |-> Cardinality(OpenRows(k))]
  <1> DEFINE inbox == [k \in Key |-> Cardinality(OpenRows(k))]
             Next == [Inbox!InboxNext]_inbox
  <1> SUFFICES Next
    OBVIOUS
  <1>0. AlertTypeOK
    BY DEF AlertInv
  <1>1. ASSUME alerts' = alerts PROVE Next
    BY <1>1 DEF OpenRows
  <1>2. ASSUME NEW w \in Worker, RaiseInsert(w) PROVE Next
    <2>1. call[w].key \in Key /\ call[w].op = "insert"
      BY <1>0, <1>2, RaiseInsertFacts DEF RaiseInsert
    <2>2. inbox[call[w].key] < Cardinality(Worker)
      BY <2>1, InsertHasRoom
    <2>3. inbox' = [inbox EXCEPT ![call[w].key] = @ + 1]
      BY <1>0, <1>2, <2>1, InsertOpens
    <2>4. Inbox!Open(call[w].key)
      BY <2>2, <2>3 DEF Inbox!Open
    <2>5. QED
      BY <2>1, <2>4 DEF Inbox!InboxNext
  <1>3. ASSUME NEW i \in DOMAIN alerts, AcknowledgeRow(i) PROVE Next
    <2>1. \A k \in Key : OpenRows(k)' = OpenRows(k) \ {i}
      BY <1>0, <1>3, AcknowledgeCloses
    <2>2. CASE alerts[i].open
      <3>1. PICK own \in Key : own = alerts[i].key
        BY <1>0, RowFacts DEF Row
      <3>2. i \in OpenRows(own) /\ \A k \in Key : k # own => i \notin OpenRows(k)
        BY <2>2, <3>1 DEF OpenRows
      <3>3. \A k \in Key : k # own => OpenRows(k)' = OpenRows(k)
        BY <2>1, <3>2
      <3>4. /\ IsFiniteSet(OpenRows(own)) /\ Cardinality(OpenRows(own)) \in Nat
            /\ Cardinality(OpenRows(own)') = Cardinality(OpenRows(own)) - 1
        <4>1. IsFiniteSet(OpenRows(own)) /\ Cardinality(OpenRows(own)) \in Nat
          BY <1>0, OpenRowsFinite
        <4>2. OpenRows(own)' = OpenRows(own) \ {i}
          BY <2>1
        <4>3. QED
          BY <3>2, <4>1, <4>2, FS_RemoveElement
      <3>5. Cardinality(OpenRows(own)) > 0
        BY <3>2, <3>4, FS_EmptySet
      <3>6. inbox' = [inbox EXCEPT ![own] = @ - 1]
        BY <3>1, <3>3, <3>4
      <3>7. Inbox!Close(own)
        BY <3>1, <3>5, <3>6 DEF Inbox!Close
      <3>8. QED
        BY <3>1, <3>7 DEF Inbox!InboxNext
    <2>3. CASE ~ alerts[i].open
      <3>1. \A k \in Key : OpenRows(k)' = OpenRows(k)
        BY <2>1, <2>3 DEF OpenRows
      <3>2. QED
        BY <3>1
    <2>4. QED
      BY <2>2, <2>3
  <1>4. ASSUME NEW w \in Worker, ResolveAcknowledge(w) PROVE Next
    BY <1>3, <1>4 DEF ResolveAcknowledge, AlertInv, ResolveHitsOwnCondition
  <1>5. ASSUME NEW i \in DOMAIN alerts, Acknowledge(i) PROVE Next
    BY <1>3, <1>5 DEF Acknowledge
  <1>6. QED
    BY <1>1, <1>2, <1>4, <1>5
       DEF AlertNext, RaiseFind, ResolveFind, CallFails, Crash, alertVars

\* The open alerts of one condition never outnumber the threads, and change
\* one at a time: AlertService implements the inbox with that limit.
THEOREM AlertServiceImplementsInbox == AlertSpec => ImplementsInbox
  <1>1. AlertInit => Inbox!InboxInit
    <2> SUFFICES ASSUME AlertInit PROVE Inbox!InboxInit
      OBVIOUS
    <2>1. \A k \in Key : OpenRows(k) = {}
      BY DEF AlertInit, OpenRows
    <2>2. QED
      BY <2>1, FS_EmptySet DEF Inbox!InboxInit
  <1>2. AlertInv /\ AlertInv' /\ [AlertNext]_alertVars
          => [Inbox!InboxNext]_[k \in Key |-> Cardinality(OpenRows(k))]
    BY InboxStep
  <1>3. QED
    BY <1>1, <1>2, AlertInvariant, PTL DEF AlertSpec, ImplementsInbox, Inbox!InboxSpec

\* The documented dedup rule holds whenever a single thread raises alerts.
THEOREM SingleThreadDedup ==
    ASSUME Cardinality(Worker) = 1
    PROVE  AlertSpec => []DedupRule
  <1>1. PICK w0 : Worker = {w0}
    BY AlertAssumption, FS_Singleton
  <1>2. AlertInv => DedupRule
    BY <1>1, RowFacts
       DEF AlertInv, OpenRaisersDistinct, DedupRule, OpenRows, Row
  <1>3. QED
    BY <1>2, AlertInvariant, PTL

=============================================================================
