----------------------------- MODULE StoreProofs -----------------------------
(***************************************************************************)
(* What is proved of the stored tables and files and of those who work on  *)
(* them: for any number of devices, requests, windows, checks and lines.   *)
(***************************************************************************)
EXTENDS MonitoringPage, RestApi, ResultTable, ExportFiles, SettingsStore, LogAnalysis,
        FiniteSetTheorems, WellFoundedInduction, TLAPS

-----------------------------------------------------------------------------
(* Numbers *)

\* A set of numbers that is not empty has a least and, if it is finite, a greatest one.
LEMMA LeastNumber ==
    ASSUME NEW S, S \subseteq Nat, S # {}
    PROVE  \E n \in S : \A m \in S : n <= m
  <1>1. PICK n \in S : \A m \in S : ~ (<<m, n>> \in OpToRel(<, Nat))
    BY WFMin, NatLessThanWellFounded
  <1>2. \A m \in S : ~ (m < n)
    BY <1>1 DEF OpToRel
  <1>3. QED
    BY <1>2

LEMMA GreatestNumber ==
    ASSUME NEW n \in Nat, NEW S, S \subseteq 0 .. n, S # {}
    PROVE  /\ Max(S) \in S
           /\ \A m \in S : m <= Max(S)
  <1> DEFINE T == {k \in 0 .. n : n - k \in S}
  <1>1. T \subseteq Nat /\ T # {}
    <2>1. PICK s \in S : TRUE
      OBVIOUS
    <2>2. n - s \in 0 .. n /\ n - (n - s) = s
      BY <2>1
    <2>3. n - s \in T
      BY <2>2
    <2>4. QED
      BY <2>3
  <1>2. PICK k \in T : \A m \in T : k <= m
    <2> HIDE DEF T
    <2>1. QED
      BY <1>1, LeastNumber
  <1>3. ASSUME NEW m \in S PROVE n - k >= m
    <2>1. n - m \in 0 .. n /\ n - (n - m) = m
      BY <1>3
    <2>2. n - m \in T
      BY <2>1
    <2>3. k <= n - m
      BY <1>2, <2>2
    <2>4. QED
      BY <2>3
  <1>4. \E x \in S : \A y \in S : x >= y
    BY <1>2, <1>3
  <1>5. /\ Max(S) \in S
        /\ \A y \in S : Max(S) >= y
    BY <1>4 DEF Max
  <1>6. QED
    BY <1>5

-----------------------------------------------------------------------------
(* The table of devices *)

LEMMA FiniteStored == IsFiniteSet(Stored) /\ Cardinality(Stored) \in Nat
  BY DeviceAssumption, FS_Subset, FS_CardinalityType DEF Stored

\* A new row gets an id that is not in use.
LEMMA FreshIdIsFree ==
    ASSUME FreeIds # {}
    PROVE  FreshId \in DeviceId /\ FreshId \notin Stored
  <1>1. FreeIds \subseteq Nat /\ FreeIds \subseteq DeviceId
    BY DeviceAssumption DEF FreeIds
  <1>2. FreshId \in FreeIds
    BY <1>1, LeastNumber DEF FreshId
  <1>3. FreshId \in Nat /\ (FreshId \in Stored => FreshId < FreshId)
    BY <1>1, <1>2 DEF FreeIds
  <1>4. QED
    BY <1>1, <1>2, <1>3

\* Whatever adds, renames or deletes a row keeps names apart.
LEMMA RowsKeepNamesApart ==
    ASSUME DeviceTypeOK, NamesDiffer,
           \/ \E n \in DeviceName : InsertRow(n)
           \/ \E d \in DeviceId, n \in DeviceName : UpdateRow(d, n)
           \/ \E d \in DeviceId : devices' = [devices EXCEPT ![d] = NoRow]
    PROVE  DeviceTypeOK' /\ NamesDiffer'
  <1> USE DeviceAssumption DEF DeviceTypeOK, NamesDiffer, Stored, Named
  <1>1. ASSUME NEW n \in DeviceName, InsertRow(n) PROVE DeviceTypeOK' /\ NamesDiffer'
    BY <1>1, FreshIdIsFree DEF InsertRow
  <1>2. ASSUME NEW d \in DeviceId, NEW n \in DeviceName, UpdateRow(d, n)
        PROVE  DeviceTypeOK' /\ NamesDiffer'
    BY <1>2 DEF UpdateRow
  <1>3. ASSUME NEW d \in DeviceId, devices' = [devices EXCEPT ![d] = NoRow]
        PROVE  DeviceTypeOK' /\ NamesDiffer'
    BY <1>3
  <1>4. QED
    BY <1>1, <1>2, <1>3

\* list_all: the rows are all devices, each once, by name.
LEMMA PlacesNumberDevices ==
    ASSUME DeviceTypeOK, NamesDiffer
    PROVE  [d \in Stored |-> Place(d)] \in Bijection(Stored, 1 .. Cardinality(Stored))
  <1> DEFINE Upto(d) == {e \in Stored : devices[e] <= devices[d]}
             place == [d \in Stored |-> Place(d)]
  <1>1. \A d \in Stored : devices[d] \in Nat /\ d \in Upto(d) /\ Upto(d) \subseteq Stored
    <2>1. \A d \in Stored : devices[d] \in Nat
      BY DeviceAssumption DEF DeviceTypeOK, Stored
    <2>2. QED
      BY <2>1
  <1>2. ASSUME NEW d \in Stored PROVE Place(d) \in 1 .. Cardinality(Stored)
    <2>1. IsFiniteSet(Upto(d)) /\ Cardinality(Upto(d)) \in Nat
            /\ Cardinality(Upto(d)) <= Cardinality(Stored)
      BY <1>1, FiniteStored, FS_Subset, FS_CardinalityType
    <2>2. Cardinality(Upto(d)) # 0
      BY <1>1, <2>1, FS_EmptySet
    <2>3. QED
      BY <2>1, <2>2, FiniteStored DEF Place
  <1>3. ASSUME NEW d \in Stored, NEW e \in Stored, Place(d) = Place(e) PROVE d = e
    <2>1. ASSUME NEW x \in Stored, NEW y \in Stored, Place(x) = Place(y), devices[x] <= devices[y]
          PROVE  x = y
      <3>1. Upto(x) \subseteq Upto(y)
        BY <1>1, <2>1
      <3>2. Upto(x) = Upto(y)
        BY <1>1, <2>1, <3>1, FiniteStored, FS_Subset DEF Place
      <3>3. devices[y] <= devices[x]
        BY <1>1, <3>2
      <3>4. devices[x] = devices[y]
        BY <1>1, <2>1, <3>3
      <3>5. QED
        BY <3>4 DEF NamesDiffer, Named
    <2>2. devices[d] <= devices[e] \/ devices[e] <= devices[d]
      BY <1>1
    <2>3. QED
      BY <1>3, <2>1, <2>2
  <1>4. place \in Injection(Stored, 1 .. Cardinality(Stored))
    BY <1>2, <1>3 DEF Injection, IsInjective
  <1>5. IsFiniteSet(1 .. Cardinality(Stored)) /\ Cardinality(1 .. Cardinality(Stored)) = Cardinality(Stored)
    BY FiniteStored, FS_Interval
  <1>6. QED
    BY <1>4, <1>5, FS_Injection DEF Bijection

LEMMA RowsListDevices ==
    ASSUME DeviceTypeOK, NamesDiffer
    PROVE  /\ DeviceRows \in Seq([id : DeviceId, name : DeviceName])
           /\ Len(DeviceRows) = Cardinality(Stored)
           /\ \A i \in DOMAIN DeviceRows :
                 DeviceRows[i].id \in Stored /\ DeviceRows[i].name = devices[DeviceRows[i].id]
           /\ \A d \in Stored : \E i \in DOMAIN DeviceRows : DeviceRows[i].id = d
           /\ \A i, j \in DOMAIN DeviceRows : i < j => DeviceRows[i].name < DeviceRows[j].name
  <1> DEFINE n == Cardinality(Stored)
             at(i) == CHOOSE d \in Stored : Place(d) = i
             place == [d \in Stored |-> Place(d)]
  <1>1. place \in [Stored -> 1 .. n] /\ IsInjective(place)
        /\ \A i \in 1 .. n : \E d \in Stored : place[d] = i
    BY PlacesNumberDevices DEF Bijection, Injection, Surjection
  <1>2. \A i \in 1 .. n : at(i) \in Stored /\ Place(at(i)) = i
    BY <1>1
  <1>3. \A d \in Stored : Place(d) \in 1 .. n /\ at(Place(d)) = d
    BY <1>1, <1>2 DEF IsInjective
  <1>4. \A d \in Stored : d \in DeviceId /\ devices[d] \in DeviceName /\ devices[d] \in Nat
    BY DeviceAssumption DEF DeviceTypeOK, Stored
  <1> HIDE DEF n, at, place
  <1>5. n \in Nat
    BY FiniteStored DEF n
  <1>6. DeviceRows = [i \in 1 .. n |-> DeviceRow(at(i))]
    BY DEF DeviceRows, n, at
  <1>7. \A i \in 1 .. n : DeviceRows[i] = [id |-> at(i), name |-> devices[at(i)]]
    BY <1>6 DEF DeviceRow
  <1>8. DeviceRows \in Seq([id : DeviceId, name : DeviceName]) /\ Len(DeviceRows) = n
        /\ DOMAIN DeviceRows = 1 .. n
    BY <1>2, <1>4, <1>5, <1>6, <1>7
  <1>9. ASSUME NEW i \in 1 .. n, NEW j \in 1 .. n, i < j
        PROVE  devices[at(i)] < devices[at(j)]
    <2>1. CASE devices[at(j)] <= devices[at(i)]
      <3> DEFINE Upto(d) == {e \in Stored : devices[e] <= devices[d]}
      <3>1. Upto(at(j)) \subseteq Upto(at(i)) /\ Upto(at(i)) \subseteq Stored
        BY <1>2, <1>4, <2>1
      <3>2. Cardinality(Upto(at(j))) <= Cardinality(Upto(at(i)))
        BY <3>1, FiniteStored, FS_Subset
      <3>3. Place(at(j)) <= Place(at(i))
        BY <3>2 DEF Place
      <3>4. QED
        BY <1>2, <1>9, <3>3
    <2>2. QED
      BY <1>2, <1>4, <2>1
  <1>10. QED
    BY <1>2, <1>3, <1>7, <1>8, <1>9 DEF n

-----------------------------------------------------------------------------
(* The monitoring page *)

LEMMA RowsAreASequence == DeviceTypeOK /\ NamesDiffer => DeviceRows \in Seq(Row)
  BY RowsListDevices DEF Row

LEMMA RowsUnchanged == devices' = devices => DeviceRows' = DeviceRows
  BY DEF DeviceRows, DeviceRow, Stored, Place

\* What the page may show, and its workers.
View == [visible : BOOLEAN, auto : BOOLEAN, ticking : BOOLEAN, rows : Seq(Row), combo : Nat,
         diskButton : BOOLEAN, chart : DeviceId \union {NoChart}]
ViewOK(v) == v \in View /\ v.combo \in 0 .. Len(v.rows)
WorkerOK(W) ==
    /\ DOMAIN W = Slot
    /\ W["history"] # Nobody => W["history"] \in [stage : Stage, call : DeviceId]

\* Filling the combo box selects a row that is there.
LEMMA RefilledIsOK ==
    ASSUME NEW v, ViewOK(v), NEW rows \in Seq(Row)
    PROVE  /\ ViewOK(Refilled(v, rows)) /\ Refilled(v, rows).rows = rows
           /\ Refilled(v, rows).visible = v.visible
  <1> DEFINE first == IF rows = << >> THEN 0 ELSE 1
             same == IF v.combo = 0 THEN {}
                     ELSE {i \in DOMAIN rows : rows[i].name = v.rows[v.combo].name}
             any == CHOOSE i \in same : TRUE
             c == IF same = {} THEN first ELSE any
  <1>1. DOMAIN rows = 1 .. Len(rows) /\ Len(rows) \in Nat /\ (rows # << >> => Len(rows) >= 1)
    OBVIOUS
  <1>2. same \subseteq 1 .. Len(rows)
    BY <1>1
  <1>3. same # {} => any \in same
    OBVIOUS
  <1> HIDE DEF same, any
  <1>4. c \in 0 .. Len(rows) /\ c \in Nat
    <2>1. first \in 0 .. Len(rows) /\ first \in Nat
      BY <1>1
    <2>2. same # {} => any \in 1 .. Len(rows)
      BY <1>2, <1>3
    <2>3. QED
      BY <1>1, <2>1, <2>2
  <1>5. Refilled(v, rows) = [v EXCEPT !.rows = rows, !.combo = c]
    BY DEF Refilled, same, any
  <1> HIDE DEF c
  <1>6. QED
    BY <1>4, <1>5 DEF ViewOK, View

LEMMA LoadHistoryIsOK ==
    ASSUME NEW W, WorkerOK(W), NEW v, ViewOK(v)
    PROVE  WorkerOK(LoadHistory(W, v))
  <1>1. CASE v.combo = 0 \/ W["history"] # Nobody
    BY <1>1 DEF LoadHistory, Begin, WorkerOK
  <1>2. CASE v.combo # 0 /\ W["history"] = Nobody
    <2> DEFINE x == [stage |-> "running", call |-> v.rows[v.combo].id]
    <2>1. v.rows \in Seq(Row) /\ v.combo \in 1 .. Len(v.rows)
      BY <1>2 DEF ViewOK, View
    <2>2. v.rows[v.combo] \in Row
      BY <2>1
    <2>3. x \in [stage : Stage, call : DeviceId]
      BY <2>2 DEF Row, Stage
    <2>4. LoadHistory(W, v) = [W EXCEPT !["history"] = x]
      BY <1>2 DEF LoadHistory, Begin
    <2> HIDE DEF x
    <2>5. QED
      BY <2>3, <2>4, MonitoringAssumption DEF WorkerOK
  <1>3. QED
    BY <1>1, <1>2

\* A worker of the page moves on; the history's keeps its call.
LEMMA StageIsOK ==
    ASSUME NEW W, WorkerOK(W), NEW s \in {"round", "history", "disk"}, NEW o \in Stage,
           W[s] # Nobody
    PROVE  WorkerOK([W EXCEPT ![s].stage = o])
  <1> DEFINE V == [W EXCEPT ![s].stage = o]
  <1>1. DOMAIN V = Slot
    BY DEF WorkerOK
  <1>2. CASE s = "history"
    <2>1. V["history"] = [W["history"] EXCEPT !.stage = o]
      BY <1>2, MonitoringAssumption DEF WorkerOK
    <2>2. QED
      BY <1>1, <1>2, <2>1 DEF WorkerOK
  <1>3. CASE s # "history"
    <2>1. V["history"] = W["history"]
      BY <1>3, MonitoringAssumption DEF WorkerOK
    <2>2. QED
      BY <1>1, <2>1 DEF WorkerOK
  <1>4. QED
    BY <1>2, <1>3

PageFlowOK ==
    /\ DeviceTypeOK /\ NamesDiffer /\ WorkerOK(worker) /\ ViewOK(view)
    /\ dialog \in [kind : {"add", "edit", "delete"}, row : Row \union {Nobody}]
                    \union {Nobody}
    /\ changes \in [count : 0 .. MaxChange, unseen : BOOLEAN]
    /\ ~ changes.unseen => view.rows = DeviceRows

\* The step fills the table again, from the devices there are after it.
LEMMA RefreshKeepsOK ==
    ASSUME PageFlowOK, (DeviceTypeOK /\ NamesDiffer)',
           NEW W, WorkerOK(W), NEW v, ViewOK(v),
           view' = Refilled(v, DeviceRows') /\ worker' = LoadHistory(W, view'),
           \E n \in 0 .. MaxChange : changes' = [count |-> n, unseen |-> FALSE],
           dialog' \in {dialog, Nobody}
    PROVE  PageFlowOK'
  <1>1. (DeviceTypeOK /\ NamesDiffer => DeviceRows \in Seq(Row))'
    BY RowsAreASequence, PTL
  <1>2. DeviceRows' \in Seq(Row)
    BY <1>1 DEF Row
  <1>3. ViewOK(view') /\ view'.rows = DeviceRows'
    BY <1>2, RefilledIsOK
  <1>4. WorkerOK(worker')
    BY <1>3, LoadHistoryIsOK
  <1>5. QED
    BY <1>3, <1>4 DEF PageFlowOK, WorkerOK, ViewOK, View, Row

\* Handlers that leave the devices, and the rows of the table, alone.
LEMMA QuietKeepsOK ==
    ASSUME PageFlowOK, UNCHANGED devices, WorkerOK(worker'), ViewOK(view'),
           view'.rows = view.rows, UNCHANGED changes,
           dialog' \in [kind : {"add", "edit", "delete"}, row : Row \union {Nobody}]
                       \union {Nobody}
    PROVE  PageFlowOK'
  BY RowsUnchanged
     DEF PageFlowOK, WorkerOK, ViewOK, View, Row, DeviceTypeOK, NamesDiffer, Stored, Named

LEMMA DialogsKeepOK ==
    ASSUME PageFlowOK,
           \/ \E kind \in {"edit", "delete"}, i \in DOMAIN view.rows : OpenDialog(kind, i)
           \/ OpenAdd \/ CloseDialog
    PROVE  PageFlowOK'
  <1>1. UNCHANGED <<devices, worker, view, changes>>
    BY DEF OpenDialog, OpenAdd, CloseDialog
  <1>2. dialog' \in [kind : {"add", "edit", "delete"}, row : Row \union {Nobody}] \union {Nobody}
    <2>1. ASSUME NEW kind \in {"edit", "delete"}, NEW i \in DOMAIN view.rows, OpenDialog(kind, i)
          PROVE  dialog' \in [kind : {"add", "edit", "delete"}, row : Row \union {Nobody}]
      <3>1. DeviceRows \in Seq(Row) /\ i \in DOMAIN DeviceRows
        BY <2>1, RowsAreASequence DEF PageFlowOK, OpenDialog
      <3>2. DeviceRows[i] \in Row
        BY <3>1
      <3>3. QED
        BY <2>1, <3>2 DEF OpenDialog
    <2>2. QED
      BY <2>1 DEF OpenAdd, CloseDialog
  <1>3. QED
    BY <1>1, <1>2, QuietKeepsOK DEF PageFlowOK, WorkerOK, ViewOK

LEMMA ButtonsKeepOK ==
    ASSUME PageFlowOK,
           \/ Hide \/ ToggleAuto \/ CheckNow \/ ClickDisks \/ SelectRange
           \/ \E i \in DOMAIN view.rows : SelectDevice(i)
    PROVE  PageFlowOK'
  <1> USE DEF PageFlowOK
  <1>1. UNCHANGED <<devices, dialog, changes>>
    BY DEF Hide, ToggleAuto, CheckNow, ClickDisks, SelectRange, SelectDevice
  <1>2. ASSUME NEW W, WorkerOK(W), NEW s \in {"round", "disk"}, NEW call
        PROVE  WorkerOK([W EXCEPT ![s] = [stage |-> "running", call |-> call]])
    BY <1>2, MonitoringAssumption DEF WorkerOK
  <1>3. CASE Hide \/ ToggleAuto
    <2>1. ViewOK(view') /\ view'.rows = view.rows /\ worker' = worker
      BY <1>3 DEF Hide, ToggleAuto, ViewOK, View
    <2>2. QED
      BY <1>1, <2>1, QuietKeepsOK
  <1>4. CASE CheckNow
    <2>1. WorkerOK(worker') /\ view' = view
      BY <1>2, <1>4 DEF CheckNow, StartCall
    <2>2. QED
      BY <1>1, <2>1, QuietKeepsOK
  <1>5. CASE ClickDisks
    <2>1. worker' = [worker EXCEPT !["disk"] = [stage |-> "running", call |-> Nobody]]
          /\ view' = [view EXCEPT !.diskButton = FALSE]
      BY <1>5 DEF ClickDisks, CheckDisks, Begin, Free
    <2>2. WorkerOK(worker') /\ ViewOK(view') /\ view'.rows = view.rows
      BY <1>2, <2>1 DEF ViewOK, View
    <2>3. QED
      BY <1>1, <2>2, QuietKeepsOK
  <1>6. CASE SelectRange
    <2>1. WorkerOK(worker') /\ view' = view
      BY <1>6, LoadHistoryIsOK DEF SelectRange
    <2>2. QED
      BY <1>1, <2>1, QuietKeepsOK
  <1>7. ASSUME NEW i \in DOMAIN view.rows, SelectDevice(i) PROVE PageFlowOK'
    <2>1. ViewOK(view') /\ view'.rows = view.rows /\ worker' = worker
      BY <1>7 DEF SelectDevice, ViewOK, View
    <2>2. QED
      BY <1>1, <2>1, QuietKeepsOK
  <1>8. QED
    BY <1>3, <1>4, <1>5, <1>6, <1>7

LEMMA WorkersKeepOK ==
    ASSUME PageFlowOK,
           \/ RoundFailed \/ HistoryStep \/ DiskStep \/ WorkerGone("round")
           \/ \E o \in {"succeeded", "failed"} : CallReturns("round", o)
    PROVE  PageFlowOK'
  <1> USE DEF PageFlowOK
  <1>1. UNCHANGED <<devices, dialog, changes>>
    BY DEF RoundFailed, HistoryStep, DiskStep, WorkerGone, CallReturns, HistoryLoaded,
           HistoryFailed, DisksChecked
  <1>2. WorkerOK(worker')
    <2>1. \/ \E s \in {"round", "history", "disk"}, o \in Stage :
                worker[s] # Nobody /\ worker' = [worker EXCEPT ![s].stage = o]
          \/ \E s \in {"round", "history", "disk"} : worker' = [worker EXCEPT ![s] = Nobody]
      BY DEF RoundFailed, HistoryStep, DiskStep, WorkerGone, CallReturns, HistoryLoaded,
             HistoryFailed, DisksChecked, OutcomeHandled, FinishedHandled, CallEnds,
             SlotStage, Free, Stage
    <2>2. CASE \E s \in {"round", "history", "disk"} : worker' = [worker EXCEPT ![s] = Nobody]
      BY <2>2, MonitoringAssumption DEF WorkerOK
    <2>3. QED
      BY <2>1, <2>2, StageIsOK
  <1>3. ViewOK(view') /\ view'.rows = view.rows
    <2>1. CASE HistoryLoaded
      <3>1. worker["history"] # Nobody
        BY <2>1 DEF HistoryLoaded, OutcomeHandled, SlotStage, Free
      <3>2. worker["history"].call \in DeviceId
        BY <3>1 DEF WorkerOK
      <3>3. QED
        BY <2>1, <3>2 DEF HistoryLoaded, ViewOK, View
    <2>2. CASE DisksChecked
      BY <2>2 DEF DisksChecked, ViewOK, View
    <2>3. CASE view' = view
      BY <2>3
    <2>4. QED
      BY <2>1, <2>2, <2>3
         DEF RoundFailed, HistoryStep, DiskStep, WorkerGone, CallReturns, HistoryFailed
  <1>4. QED
    BY <1>1, <1>2, <1>3, QuietKeepsOK

LEMMA RowChangesKeepNames ==
    ASSUME PageFlowOK, NEW n \in DeviceName,
           \/ InsertRow(n) \/ UNCHANGED devices
           \/ \E d \in DeviceId : UpdateRow(d, n) \/ DeleteRow(d)
    PROVE  DeviceTypeOK' /\ NamesDiffer'
  <1>1. CASE UNCHANGED devices
    BY <1>1 DEF PageFlowOK, DeviceTypeOK, NamesDiffer, Stored, Named
  <1>2. ASSUME NEW d \in DeviceId, DeleteRow(d) PROVE DeviceTypeOK' /\ NamesDiffer'
    BY <1>2, RowsKeepNamesApart DEF PageFlowOK, DeleteRow
  <1>3. QED
    BY <1>1, <1>2, RowsKeepNamesApart DEF PageFlowOK

\* Handlers that fill the table again.
LEMMA RefreshesKeepOK ==
    ASSUME PageFlowOK,
           \/ Show \/ RoundDone \/ ConfirmDelete
           \/ \E n \in DeviceName : AcceptAdd(n) \/ AcceptEdit(n)
    PROVE  PageFlowOK'
  <1>1. changes.count \in 0 .. MaxChange /\ WorkerOK(worker) /\ ViewOK(view)
    BY DEF PageFlowOK
  <1>2. CASE Show
    <2> DEFINE disks == CheckDisks(worker, [view EXCEPT !.visible = TRUE,
                                                        !.ticking = @ \/ view.auto])
    <2>1. WorkerOK(disks.W) /\ ViewOK(disks.v)
      BY <1>1, MonitoringAssumption DEF CheckDisks, Begin, WorkerOK, ViewOK, View
    <2>2. /\ view' = Refilled(disks.v, DeviceRows) /\ worker' = LoadHistory(disks.W, view')
          /\ changes' = [changes EXCEPT !.unseen = FALSE] /\ UNCHANGED <<devices, dialog>>
      BY <1>2 DEF Show, Refresh
    <2> HIDE DEF disks
    <2>3. DeviceRows' = DeviceRows /\ (DeviceTypeOK /\ NamesDiffer)'
      BY <2>2, RowsUnchanged DEF PageFlowOK, DeviceTypeOK, NamesDiffer, Stored, Named
    <2>4. changes' = [count |-> changes.count, unseen |-> FALSE]
      BY <2>2 DEF PageFlowOK
    <2>5. QED
      BY <1>1, <2>1, <2>2, <2>3, <2>4, RefreshKeepsOK
  <1>3. CASE RoundDone
    <2> DEFINE W == [worker EXCEPT !["round"].stage = "told"]
    <2>1. worker["round"] # Nobody
      BY <1>3 DEF RoundDone, SlotStage, Free
    <2>2. WorkerOK(W)
      BY <1>1, <2>1, StageIsOK DEF Stage
    <2>3. /\ view' = Refilled(view, DeviceRows) /\ worker' = LoadHistory(W, view')
          /\ changes' = [changes EXCEPT !.unseen = FALSE] /\ UNCHANGED <<devices, dialog>>
      BY <1>3 DEF RoundDone, Refresh
    <2> HIDE DEF W
    <2>4. DeviceRows' = DeviceRows /\ (DeviceTypeOK /\ NamesDiffer)'
      BY <2>3, RowsUnchanged DEF PageFlowOK, DeviceTypeOK, NamesDiffer, Stored, Named
    <2>5. changes' = [count |-> changes.count, unseen |-> FALSE]
      BY <2>3 DEF PageFlowOK
    <2>6. QED
      BY <1>1, <2>2, <2>3, <2>4, <2>5, RefreshKeepsOK
  <1>4. ASSUME Changed, (DeviceTypeOK /\ NamesDiffer)', dialog' = Nobody PROVE PageFlowOK'
    <2>1. /\ view' = Refilled(view, DeviceRows') /\ worker' = LoadHistory(worker, view')
          /\ changes' = [count |-> changes.count + 1, unseen |-> FALSE]
          /\ changes.count + 1 \in 0 .. MaxChange
      BY <1>1, <1>4, MonitoringAssumption DEF Changed
    <2>2. QED
      BY <1>1, <1>4, <2>1, RefreshKeepsOK
  <1>a. ASSUME Unrecorded, (DeviceTypeOK /\ NamesDiffer)', dialog' = Nobody PROVE PageFlowOK'
    <2>1. /\ changes' = [count |-> changes.count + 1, unseen |-> TRUE]
          /\ changes.count < MaxChange /\ UNCHANGED <<worker, view>>
      BY <1>a DEF Unrecorded, Counted
    <2>2. changes.count + 1 \in 0 .. MaxChange
      BY <1>1, <2>1, MonitoringAssumption
    <2>3. QED
      BY <1>a, <2>1, <2>2 DEF PageFlowOK, WorkerOK, ViewOK, View, Row
  <1>5. CASE ConfirmDelete
    <2>1. DeviceTypeOK' /\ NamesDiffer'
      <3>1. CASE DeleteRow(dialog.row.id)
        <4>1. dialog.row.id \in DeviceId /\ devices' = [devices EXCEPT ![dialog.row.id] = NoRow]
          BY <3>1 DEF DeleteRow, Stored
        <4>2. QED
          BY <4>1, RowsKeepNamesApart DEF PageFlowOK
      <3>2. CASE UNCHANGED devices
        BY <3>2 DEF PageFlowOK, DeviceTypeOK, NamesDiffer, Stored, Named
      <3>3. QED
        BY <1>5, <3>1, <3>2 DEF ConfirmDelete
    <2>2. QED
      BY <1>4, <1>a, <1>5, <2>1 DEF ConfirmDelete, Open
  <1>6. ASSUME NEW n \in DeviceName, AcceptAdd(n) \/ AcceptEdit(n) PROVE PageFlowOK'
    <2>1. DeviceTypeOK' /\ NamesDiffer'
      <3>1. AcceptEdit(n) => dialog.row.id \in DeviceId
        BY DEF AcceptEdit, UpdateRow, Stored
      <3>2. QED
        BY <1>6, <3>1, RowChangesKeepNames DEF AcceptAdd, AcceptEdit
    <2>2. QED
      BY <1>4, <1>a, <1>6, <2>1 DEF AcceptAdd, AcceptEdit, Open
  <1>7. QED
    BY <1>2, <1>3, <1>5, <1>6

LEMMA ElsewhereKeepsOK ==
    ASSUME PageFlowOK, Elsewhere
    PROVE  PageFlowOK'
  <1>1. DeviceTypeOK' /\ NamesDiffer'
    <2>1. ASSUME NEW n \in DeviceName, InsertRow(n) PROVE DeviceTypeOK' /\ NamesDiffer'
      BY <2>1, RowChangesKeepNames
    <2>2. ASSUME NEW d \in Stored, DeleteRow(d) PROVE DeviceTypeOK' /\ NamesDiffer'
      BY <2>2, RowsKeepNamesApart DEF DeleteRow, Stored, PageFlowOK
    <2>3. ASSUME NEW d \in Stored, NEW n \in DeviceName, UpdateRow(d, n)
          PROVE  DeviceTypeOK' /\ NamesDiffer'
      BY <2>3, RowChangesKeepNames DEF Stored
    <2>4. QED
      BY <2>1, <2>2, <2>3 DEF Elsewhere
  <1>2. /\ changes' = [count |-> changes.count + 1, unseen |-> TRUE]
        /\ changes.count + 1 \in 0 .. MaxChange /\ UNCHANGED <<worker, view, dialog>>
    <2>1. /\ changes' = [count |-> changes.count + 1, unseen |-> TRUE]
          /\ changes.count < MaxChange /\ UNCHANGED <<worker, view, dialog>>
      BY DEF Elsewhere, Counted
    <2>2. changes.count \in 0 .. MaxChange
      BY DEF PageFlowOK
    <2>3. QED
      BY <2>1, <2>2, MonitoringAssumption
  <1>3. QED
    BY <1>1, <1>2 DEF PageFlowOK, WorkerOK, ViewOK, View, Row

\* In every reachable state, for any number of devices and changes: the row that a
\* click selects is the row of the list that is read for it, as long as no other
\* process, and no change that could not be recorded, came in between.
THEOREM MonitoringInvariant == MonitoringSpec => []MonitoringInv
  <1>1. MonitoringInit => PageFlowOK
    <2> SUFFICES ASSUME MonitoringInit PROVE PageFlowOK
      OBVIOUS
    <2>1. ViewOK(view)
      BY DEF MonitoringInit, ViewOK, View
    <2>2. QED
      BY <2>1, MonitoringAssumption
         DEF MonitoringInit, DevicesInit, OneShotInit, PageFlowOK, WorkerOK
  <1>2. PageFlowOK /\ [MonitoringNext]_monitoringVars => PageFlowOK'
    <2> SUFFICES ASSUME PageFlowOK, [MonitoringNext]_monitoringVars PROVE PageFlowOK'
      OBVIOUS
    <2>1. CASE UNCHANGED monitoringVars
      BY <2>1, QuietKeepsOK DEF monitoringVars, PageFlowOK, WorkerOK, ViewOK
    <2>2. CASE MonitoringUser
      BY <2>2, DialogsKeepOK, ButtonsKeepOK, RefreshesKeepOK DEF MonitoringUser, ClickCheck
    <2>3. CASE RoundStep \/ HistoryStep \/ DiskStep
      BY <2>3, WorkersKeepOK, RefreshesKeepOK DEF RoundStep
    <2>4. CASE AutoRound \/ Elsewhere
      BY <2>4, ButtonsKeepOK, ElsewhereKeepsOK DEF AutoRound
    <2>5. QED
      BY <2>1, <2>2, <2>3, <2>4 DEF MonitoringNext
  <1>3. PageFlowOK => MonitoringInv
    <2> SUFFICES ASSUME PageFlowOK PROVE MonitoringInv
      OBVIOUS
    <2>1. WorkerOK(worker) /\ ViewOK(view)
      BY DEF PageFlowOK
    <2>2. MonitoringTypeOK
      BY <2>1 DEF MonitoringTypeOK, PageFlowOK, WorkerOK, ViewOK, View
    <2>3. PositionsAgree
      BY <2>1 DEF PositionsAgree, PageFlowOK, ViewOK
    <2>4. QED
      BY <2>2, <2>3 DEF MonitoringInv, PageFlowOK
  <1>4. QED
    BY <1>1, <1>2, <1>3, PTL DEF MonitoringSpec

-----------------------------------------------------------------------------
(* The REST API: one step of one request *)

ApiRequest == [stage : {"begun", "insert", "refresh", "find", "delete", "record", "done",
                        "kept", "answered"},
               ask : Ask, id : DeviceId \union {Absent}, deleted : BOOLEAN, code : Nat,
               body : DeviceId \union AlertId \union Request \union {Absent},
               before : SUBSET Request]

\* What any step of r does to what it is asked: it goes on, what it has deleted stays
\* deleted, and an answer is final.
Goes(r, x) ==
    /\ request' = [request EXCEPT ![r] = x] /\ x \in ApiRequest
    /\ \/ request[r] = Fresh
       \/ /\ request[r] \in ApiRequest /\ request[r].stage # "answered"
          /\ x.ask = request[r].ask /\ x.before = request[r].before
          /\ request[r].deleted => x.deleted

LEMMA AskFacts ==
    ASSUME NEW ask \in Ask
    PROVE  /\ ask.op = "create" => ask.name \in DeviceName
           /\ ask.op = "delete" => ask.id \in DeviceId
           /\ ask.op = "ack" => ask.id \in AlertId
  BY DEF Ask

LEMMA RequestAt ==
    ASSUME ApiTypeOK, NEW r \in Request, NEW op, NEW stage, At(r, op, stage)
    PROVE  /\ request[r] \in ApiRequest /\ request[r].ask.op = op /\ request[r] # Fresh
           /\ request[r].stage = stage /\ request[r].ask \in Ask
  BY DEF ApiTypeOK, At, Of, Fresh, ApiRequest

LEMMA MoveGoes ==
    ASSUME ApiTypeOK, NEW r \in Request, request[r] \in ApiRequest,
           request[r].stage # "answered",
           NEW stage \in {"insert", "record", "delete", "kept"}, Move(r, stage)
    PROVE  Goes(r, [request[r] EXCEPT !.stage = stage])
  BY DEF ApiTypeOK, Move, Goes, ApiRequest

Replied(r, x, code, body) ==
    /\ x.stage = "answered" /\ x.code = code /\ x.body = body /\ x.ask = request[r].ask
    /\ x.id = request[r].id /\ x.deleted = request[r].deleted

LEMMA ReplyGoes ==
    ASSUME ApiTypeOK, NEW r \in Request, request[r] \in ApiRequest,
           request[r].stage # "answered", NEW code \in Nat,
           NEW body \in DeviceId \union AlertId \union Request \union {Absent},
           Reply(r, code, body)
    PROVE  \E x : Goes(r, x) /\ Replied(r, x, code, body)
  <1> DEFINE x == [request[r] EXCEPT !.stage = "answered", !.code = code, !.body = body]
  <1>1. Goes(r, x)
    BY DEF ApiTypeOK, Reply, Goes, ApiRequest
  <1>2. Replied(r, x, code, body)
    BY DEF ApiRequest, Replied
  <1> HIDE DEF x
  <1>3. QED
    BY <1>1, <1>2

LEMMA BeginGoes ==
    ASSUME ApiTypeOK, NEW r \in Request, NEW ask \in Ask, BeginRequest(r, ask)
    PROVE  Goes(r, [stage |-> "begun", ask |-> ask, id |-> Absent, deleted |-> FALSE,
                    code |-> 0, body |-> Absent, before |-> With("scan", 200)])
  BY DEF ApiTypeOK, BeginRequest, Goes, ApiRequest, Answered, With

\* What that means for the sets of requests that the properties count.
LEMMA GoesFacts ==
    ASSUME ApiTypeOK, NEW r \in Request, NEW x, Goes(r, x)
    PROVE  /\ DOMAIN request' = Request /\ request'[r] = x
           /\ \A q \in Request \ {r} : request'[q] = request[q]
           /\ \A q \in Request : request'[q] = Fresh \/ request'[q] \in ApiRequest
           /\ \A op : Of(op)' = IF x.ask.op = op THEN Of(op) \union {r} ELSE Of(op)
  <1>1. /\ DOMAIN request' = Request /\ request'[r] = x /\ x \in ApiRequest /\ x.stage # "new"
        /\ \A q \in Request \ {r} : request'[q] = request[q]
    BY DEF Goes, ApiTypeOK, ApiRequest
  <1>2. \A q \in Request : request'[q] = Fresh \/ request'[q] \in ApiRequest
    BY <1>1 DEF ApiTypeOK, ApiRequest
  <1>3. ASSUME NEW op PROVE Of(op)' = IF x.ask.op = op THEN Of(op) \union {r} ELSE Of(op)
    <2>1. r \in Of(op) => x.ask.op = op
      BY DEF Goes, Of, Fresh
    <2>2. r \in Of(op)' <=> x.ask.op = op
      BY <1>1 DEF Of
    <2>3. \A q \in Request \ {r} : q \in Of(op)' <=> q \in Of(op)
      BY <1>1 DEF Of
    <2>4. QED
      BY <2>1, <2>2, <2>3 DEF Of
  <1>4. QED
    BY <1>1, <1>2, <1>3

LEMMA ToldGrows ==
    ASSUME ApiTypeOK, NEW r \in Request, NEW x, Goes(r, x), NEW op, NEW code, NEW body
    PROVE  /\ r \notin Told(op, code, body)
           /\ Told(op, code, body)' =
                IF x.ask.op = op /\ x.stage = "answered" /\ x.code = code /\ x.body = body
                THEN Told(op, code, body) \union {r} ELSE Told(op, code, body)
  <1>1. r \notin Told(op, code, body)
    BY DEF Goes, Told, With, Answered, Of, Fresh
  <1>2. r \in Told(op, code, body)'
            <=> x.ask.op = op /\ x.stage = "answered" /\ x.code = code /\ x.body = body
    BY GoesFacts DEF Told, With, Answered, Of, Goes, ApiRequest
  <1>3. \A q \in Request \ {r} : q \in Told(op, code, body)' <=> q \in Told(op, code, body)
    BY GoesFacts DEF Told, With, Answered, Of
  <1>4. Told(op, code, body) \subseteq Request /\ Told(op, code, body)' \subseteq Request
    BY DEF Told, With, Answered
  <1>5. QED
    BY <1>1, <1>2, <1>3, <1>4

LEMMA CreatorsChange ==
    ASSUME ApiTypeOK, NEW r \in Request, NEW x, Goes(r, x), NEW d
    PROVE  Creators(d)' = IF x.ask.op = "create" /\ x.id = d THEN Creators(d) \union {r}
                          ELSE Creators(d) \ {r}
  <1>1. r \in Creators(d)' <=> x.ask.op = "create" /\ x.id = d
    BY GoesFacts DEF Creators, Of, Goes, ApiRequest
  <1>2. \A q \in Request \ {r} : q \in Creators(d)' <=> q \in Creators(d)
    BY GoesFacts DEF Creators, Of
  <1>3. Creators(d) \subseteq Request /\ Creators(d)' \subseteq Request
    BY DEF Creators, Of
  <1>4. QED
    BY <1>1, <1>2, <1>3

LEMMA DeletersGrow ==
    ASSUME ApiTypeOK, NEW r \in Request, NEW x, Goes(r, x), NEW d
    PROVE  Deleters(d)' = IF x.ask.op = "delete" /\ x.ask.id = d /\ x.deleted
                          THEN Deleters(d) \union {r} ELSE Deleters(d)
  <1>1. r \in Deleters(d)' <=> x.ask.op = "delete" /\ x.ask.id = d /\ x.deleted
    BY GoesFacts DEF Deleters, Of, Goes, ApiRequest
  <1>2. r \in Deleters(d) => x.ask.op = "delete" /\ x.ask.id = d /\ x.deleted
    BY DEF Deleters, Of, Goes, Fresh
  <1>3. \A q \in Request \ {r} : q \in Deleters(d)' <=> q \in Deleters(d)
    BY GoesFacts DEF Deleters, Of
  <1>4. Deleters(d) \subseteq Request /\ Deleters(d)' \subseteq Request
    BY DEF Deleters, Of
  <1>5. QED
    BY <1>1, <1>2, <1>3, <1>4

LEMMA FiniteRequests ==
    ASSUME NEW S, S \subseteq Request
    PROVE  IsFiniteSet(S) /\ Cardinality(S) \in Nat
  BY ApiAssumption, FS_Subset, FS_CardinalityType

-----------------------------------------------------------------------------
(* The REST API: what clients are told *)

\* What a request has been told fits what it has done.
RequestOK(x) ==
    /\ x.ask.op = "create" => /\ x.stage \in {"refresh", "record"} => x.id \in DeviceId
                              /\ x.stage = "answered" /\ x.code = 201 => x.body = x.id
    /\ x.ask.op = "delete" =>
         IF x.stage = "answered"
         THEN x.code \in {200, 404, 500} /\ (x.code # 500 => (x.code = 200 <=> x.deleted))
         ELSE x.deleted <=> x.stage \in {"record", "done"}

Balanced ==
    \A d \in DeviceId :
      Cardinality(Creators(d)) <= Cardinality(Deleters(d)) + (IF d \in Stored THEN 1 ELSE 0)

AcksApart ==
    /\ \A a \in openAlerts : Told("ack", 200, a) = {}
    /\ \A a \in AlertId : \A q, r \in Told("ack", 200, a) : q = r

AnswersCore ==
    /\ ApiTypeOK /\ NamesDiffer /\ Balanced /\ AcksApart
    /\ \A r \in Request : request[r] # Fresh => RequestOK(request[r])

LEMMA ApiTypeKept ==
    ASSUME ApiTypeOK, NEW r \in Request, NEW x, Goes(r, x), DeviceTypeOK',
           openAlerts' \subseteq AlertId, lastScan' \in Request \union {Absent},
           assigned' \in Seq(Request)
    PROVE  ApiTypeOK'
  BY GoesFacts DEF ApiTypeOK, ApiRequest, Fresh

\* How many requests have deleted d, and how many have made it, after a step of r.
LEMMA CountsChange ==
    ASSUME ApiTypeOK, NEW r \in Request, NEW x, Goes(r, x), NEW d
    PROVE  /\ Cardinality(Creators(d)) \in Nat /\ Cardinality(Creators(d)') \in Nat
           /\ Cardinality(Deleters(d)) \in Nat /\ Cardinality(Deleters(d)') \in Nat
           /\ Cardinality(Creators(d)') <= Cardinality(Creators(d)) + 1
           /\ ~ (x.ask.op = "create" /\ x.id = d) \/ r \in Creators(d)
                => Cardinality(Creators(d)') <= Cardinality(Creators(d))
           /\ Cardinality(Deleters(d)) <= Cardinality(Deleters(d)')
           /\ x.ask.op = "delete" /\ x.ask.id = d /\ x.deleted /\ r \notin Deleters(d)
                => Cardinality(Deleters(d)') = Cardinality(Deleters(d)) + 1
  <1> DEFINE C == Creators(d)
             D == Deleters(d)
  <1>1. C \subseteq Request /\ D \subseteq Request
    BY DEF Creators, Deleters, Of
  <1>2. /\ C' = IF x.ask.op = "create" /\ x.id = d THEN C \union {r} ELSE C \ {r}
        /\ D' = IF x.ask.op = "delete" /\ x.ask.id = d /\ x.deleted THEN D \union {r} ELSE D
    BY CreatorsChange, DeletersGrow
  <1> HIDE DEF C, D
  <1>3. /\ IsFiniteSet(C) /\ Cardinality(C) \in Nat
        /\ IsFiniteSet(D) /\ Cardinality(D) \in Nat
    BY <1>1, FiniteRequests
  <1>4. /\ Cardinality(C \union {r}) = IF r \in C THEN Cardinality(C) ELSE Cardinality(C) + 1
        /\ Cardinality(C \ {r}) = IF r \in C THEN Cardinality(C) - 1 ELSE Cardinality(C)
        /\ IsFiniteSet(C \ {r})
        /\ Cardinality(D \union {r}) = IF r \in D THEN Cardinality(D) ELSE Cardinality(D) + 1
    BY <1>3, FS_AddElement, FS_RemoveElement
  <1>5. Cardinality(C \ {r}) \in Nat
    BY <1>4, FS_CardinalityType
  <1>6. Cardinality(C') \in Nat /\ Cardinality(D') \in Nat
    BY <1>2, <1>3, <1>4, <1>5
  <1>7. /\ Cardinality(C') <= Cardinality(C) + 1
        /\ ~ (x.ask.op = "create" /\ x.id = d) \/ r \in C => Cardinality(C') <= Cardinality(C)
    BY <1>2, <1>3, <1>4, <1>5
  <1>8. /\ Cardinality(D) <= Cardinality(D')
        /\ x.ask.op = "delete" /\ x.ask.id = d /\ x.deleted /\ r \notin D
             => Cardinality(D') = Cardinality(D) + 1
    BY <1>2, <1>3, <1>4
  <1>9. QED
    BY <1>3, <1>6, <1>7, <1>8 DEF C, D

\* A request that gets an id makes the row, and a row that goes is deleted by one that
\* has deleted nothing.
LEMMA BalanceKept ==
    ASSUME ApiTypeOK, Balanced, NEW r \in Request, NEW x, Goes(r, x),
           \A d \in DeviceId : x.ask.op = "create" /\ x.id = d =>
             r \in Creators(d) \/ (d \notin Stored /\ d \in Stored'),
           \A d \in DeviceId : d \in Stored /\ d \notin Stored' =>
             x.ask.op = "delete" /\ x.ask.id = d /\ x.deleted /\ r \notin Deleters(d)
    PROVE  Balanced'
  <1> SUFFICES ASSUME NEW d \in DeviceId
               PROVE  Cardinality(Creators(d)')
                        <= Cardinality(Deleters(d)') + (IF d \in Stored' THEN 1 ELSE 0)
    BY DEF Balanced
  <1>1. Cardinality(Creators(d)) <= Cardinality(Deleters(d)) + (IF d \in Stored THEN 1 ELSE 0)
    BY DEF Balanced
  <1>2. /\ Cardinality(Creators(d)) \in Nat /\ Cardinality(Creators(d)') \in Nat
        /\ Cardinality(Deleters(d)) \in Nat /\ Cardinality(Deleters(d)') \in Nat
        /\ Cardinality(Creators(d)') <= Cardinality(Creators(d)) + 1
        /\ Cardinality(Deleters(d)) <= Cardinality(Deleters(d)')
    BY CountsChange
  <1>3. CASE d \notin Stored /\ d \in Stored'
    BY <1>1, <1>2, <1>3
  <1>4. CASE d \in Stored /\ d \notin Stored'
    <2>1. x.ask.op = "delete" /\ x.ask.id = d /\ x.deleted /\ r \notin Deleters(d)
      BY <1>4
    <2>2. Cardinality(Deleters(d)') = Cardinality(Deleters(d)) + 1
      BY <2>1, CountsChange
    <2>3. Cardinality(Creators(d)') <= Cardinality(Creators(d))
      BY <2>1, CountsChange
    <2>4. QED
      BY <1>1, <1>2, <1>4, <2>2, <2>3
  <1>5. CASE d \in Stored <=> d \in Stored'
    <2>1. ~ (x.ask.op = "create" /\ x.id = d) \/ r \in Creators(d)
      BY <1>5
    <2>2. Cardinality(Creators(d)') <= Cardinality(Creators(d))
      BY <2>1, CountsChange
    <2>3. QED
      BY <1>1, <1>2, <1>5, <2>2
  <1>6. QED
    BY <1>3, <1>4, <1>5

LEMMA AcksKept ==
    ASSUME ApiTypeOK, AcksApart, NEW r \in Request, NEW x, Goes(r, x),
           openAlerts' \subseteq openAlerts,
           x.ask.op = "ack" /\ x.stage = "answered" /\ x.code = 200 =>
             x.body \in openAlerts \ openAlerts'
    PROVE  AcksApart'
  <1>1. ASSUME NEW a \in AlertId
        PROVE  Told("ack", 200, a)' = Told("ack", 200, a)
                 \/ /\ a \in openAlerts \ openAlerts'
                    /\ Told("ack", 200, a)' = Told("ack", 200, a) \union {r}
    BY ToldGrows
  <1>2. \A a \in openAlerts' : a \in AlertId /\ Told("ack", 200, a)' = {}
    BY <1>1 DEF AcksApart, ApiTypeOK
  <1>3. ASSUME NEW a \in AlertId PROVE \A q1, q2 \in Told("ack", 200, a)' : q1 = q2
    <2>1. CASE a \in openAlerts
      <3>1. Told("ack", 200, a)' \subseteq {r}
        BY <1>1, <2>1 DEF AcksApart
      <3>2. QED
        BY <3>1
    <2>2. CASE a \notin openAlerts
      BY <1>1, <2>2 DEF AcksApart
    <2>3. QED
      BY <2>1, <2>2
  <1>4. QED
    BY <1>2, <1>3 DEF AcksApart

\* Steps that change no device, and tell nobody of an acknowledgement.
LEMMA QuietKeepsAnswers ==
    ASSUME AnswersCore, NEW r \in Request, NEW x, Goes(r, x), RequestOK(x),
           UNCHANGED <<devices, openAlerts>>,
           lastScan' \in Request \union {Absent}, assigned' \in Seq(Request),
           x.ask.op = "create" => x.id = Absent \/ (request[r] # Fresh /\ x.id = request[r].id),
           x.ask.op = "ack" => x.stage # "answered" \/ x.code # 200
    PROVE  AnswersCore'
  <1>1. ApiTypeOK /\ DeviceTypeOK /\ Balanced /\ AcksApart /\ NamesDiffer
    BY DEF AnswersCore, ApiTypeOK
  <1>2. DeviceTypeOK' /\ NamesDiffer' /\ Stored' = Stored
    BY <1>1 DEF DeviceTypeOK, NamesDiffer, Stored, Named
  <1>3. ApiTypeOK'
    BY <1>1, <1>2, ApiTypeKept DEF ApiTypeOK
  <1>4. ASSUME NEW d \in DeviceId, x.ask.op = "create", x.id = d PROVE r \in Creators(d)
    <2>1. request[r] # Fresh /\ request[r].id = d
      BY <1>4, ApiAssumption
    <2>2. request[r] \in ApiRequest /\ request[r].ask.op = "create"
      BY <1>4, <2>1 DEF Goes
    <2>3. QED
      BY <2>1, <2>2 DEF Creators, Of, ApiRequest
  <1>5. Balanced'
    BY <1>1, <1>2, <1>4, BalanceKept
  <1>6. AcksApart'
    BY <1>1, AcksKept
  <1>7. \A q \in Request : request'[q] # Fresh => RequestOK(request'[q])
    BY <1>1, GoesFacts DEF AnswersCore
  <1>8. QED
    BY <1>2, <1>3, <1>5, <1>6, <1>7 DEF AnswersCore

LEMMA BeginKeepsAnswers ==
    ASSUME AnswersCore, NEW r \in Request, NEW ask \in Ask, BeginRequest(r, ask)
    PROVE  AnswersCore'
  <1> DEFINE x == [stage |-> "begun", ask |-> ask, id |-> Absent, deleted |-> FALSE,
                   code |-> 0, body |-> Absent, before |-> With("scan", 200)]
  <1>1. ApiTypeOK /\ UNCHANGED <<devices, lastScan, openAlerts, assigned>>
    BY DEF AnswersCore, BeginRequest
  <1>2. Goes(r, x)
    BY <1>1, BeginGoes
  <1>3. RequestOK(x) /\ x.id = Absent /\ x.stage = "begun"
    BY DEF RequestOK
  <1> HIDE DEF x
  <1>4. QED
    BY <1>1, <1>2, <1>3, QuietKeepsAnswers DEF ApiTypeOK

\* A request goes on to a stage at which it has done nothing more.
LEMMA MoveKeepsAnswers ==
    ASSUME AnswersCore, NEW r \in Request, NEW op, NEW from, At(r, op, from),
           NEW stage, Move(r, stage),
           \/ from = "begun" /\ op \in {"create", "scan"} /\ stage \in {"insert", "kept"}
           \/ from = "find" /\ op = "delete" /\ stage = "delete"
           \/ from = "refresh" /\ op = "create" /\ stage = "record",
           UNCHANGED <<devices, openAlerts>>,
           lastScan' \in Request \union {Absent}, assigned' \in Seq(Request)
    PROVE  AnswersCore'
  <1> DEFINE x == [request[r] EXCEPT !.stage = stage]
  <1>1. ApiTypeOK
    BY DEF AnswersCore
  <1>2. /\ request[r] \in ApiRequest /\ request[r].stage = from /\ request[r].ask.op = op
        /\ request[r] # Fresh
    BY <1>1, RequestAt
  <1>3. Goes(r, x)
    BY <1>1, <1>2, MoveGoes
  <1>4. x.stage = stage /\ x.id = request[r].id /\ x.ask = request[r].ask
          /\ x.deleted = request[r].deleted
    BY <1>2 DEF ApiRequest
  <1> HIDE DEF x
  <1>5. RequestOK(x)
    BY <1>2, <1>4 DEF RequestOK, AnswersCore
  <1>6. QED
    BY <1>2, <1>3, <1>4, <1>5, QuietKeepsAnswers

\* A request is answered, and tells nobody of an acknowledgement.
LEMMA ReplyKeepsAnswers ==
    ASSUME AnswersCore, NEW r \in Request, NEW op, NEW from, At(r, op, from), from # "answered",
           NEW code \in Nat, NEW body \in DeviceId \union AlertId \union Request \union {Absent},
           Reply(r, code, body), code = 200 => op # "ack",
           op = "create" /\ code = 201 => body = request[r].id,
           op = "delete" => \/ code = 500
                            \/ code = 404 /\ from \notin {"record", "done"}
                            \/ code = 200 /\ from \in {"record", "done"},
           UNCHANGED <<devices, lastScan, openAlerts, assigned>>
    PROVE  AnswersCore'
  <1>1. ApiTypeOK
    BY DEF AnswersCore
  <1>2. /\ request[r] \in ApiRequest /\ request[r].stage = from /\ request[r].ask.op = op
        /\ request[r] # Fresh /\ request[r].stage # "answered"
    BY <1>1, RequestAt
  <1>3. PICK x : Goes(r, x) /\ Replied(r, x, code, body)
    BY <1>1, <1>2, ReplyGoes
  <1>4. /\ x.stage = "answered" /\ x.id = request[r].id /\ x.code = code /\ x.body = body
        /\ x.ask = request[r].ask /\ x.deleted = request[r].deleted
    BY <1>3 DEF Replied
  <1>5. RequestOK(x)
    BY <1>2, <1>4 DEF RequestOK, AnswersCore
  <1>6. QED
    BY <1>1, <1>2, <1>3, <1>4, <1>5, QuietKeepsAnswers DEF ApiTypeOK

LEMMA InsertKeepsAnswers ==
    ASSUME AnswersCore, NEW r \in Request, At(r, "create", "insert"),
           InsertRow(request[r].ask.name),
           request' = [request EXCEPT ![r].stage = "refresh", ![r].id = FreshId],
           UNCHANGED <<lastScan, openAlerts, assigned>>
    PROVE  AnswersCore'
  <1> DEFINE x == [request[r] EXCEPT !.stage = "refresh", !.id = FreshId]
             n == request[r].ask.name
  <1>1. ApiTypeOK /\ NamesDiffer /\ DeviceTypeOK /\ Balanced /\ AcksApart
    BY DEF AnswersCore, ApiTypeOK
  <1>2. /\ request[r] \in ApiRequest /\ request[r].ask.op = "create"
        /\ request[r].stage = "insert" /\ n \in DeviceName
    BY <1>1, RequestAt, AskFacts
  <1>3. FreshId \in DeviceId /\ FreshId \notin Stored /\ devices' = [devices EXCEPT ![FreshId] = n]
    BY FreshIdIsFree DEF InsertRow
  <1>4. Goes(r, x)
    BY <1>1, <1>2, <1>3 DEF Goes, ApiRequest, ApiTypeOK
  <1>5. DeviceTypeOK' /\ NamesDiffer' /\ Stored' = Stored \union {FreshId}
    <2>1. DeviceTypeOK' /\ NamesDiffer'
      BY <1>1, <1>2, RowsKeepNamesApart
    <2>2. QED
      BY <1>1, <1>2, <1>3, <2>1, DeviceAssumption DEF DeviceTypeOK, Stored
  <1>6. x.id = FreshId /\ x.stage = "refresh" /\ x.ask.op = "create"
    BY <1>2 DEF ApiRequest
  <1> HIDE DEF x
  <1>7. ApiTypeOK'
    BY <1>1, <1>4, <1>5, ApiTypeKept DEF ApiTypeOK
  <1>8. Balanced'
    BY <1>1, <1>3, <1>4, <1>5, <1>6, BalanceKept
  <1>9. AcksApart'
    BY <1>1, <1>4, <1>6, AcksKept
  <1>10. RequestOK(x)
    BY <1>3, <1>6 DEF RequestOK
  <1>11. \A q \in Request : request'[q] # Fresh => RequestOK(request'[q])
    BY <1>1, <1>4, <1>10, GoesFacts DEF AnswersCore
  <1>12. QED
    BY <1>5, <1>7, <1>8, <1>9, <1>11 DEF AnswersCore

\* The first look of a delete.
LEMMA FirstLookKeepsAnswers ==
    ASSUME AnswersCore, NEW r \in Request, At(r, "delete", "begun"),
           NEW id \in DeviceId \union {Absent},
           request' = [request EXCEPT ![r].stage = "find", ![r].id = id],
           UNCHANGED <<devices, lastScan, openAlerts, assigned>>
    PROVE  AnswersCore'
  <1> DEFINE x == [request[r] EXCEPT !.stage = "find", !.id = id]
  <1>1. ApiTypeOK
    BY DEF AnswersCore
  <1>2. /\ request[r] \in ApiRequest /\ request[r].ask.op = "delete"
        /\ request[r].stage = "begun" /\ request[r] # Fresh
    BY <1>1, RequestAt
  <1>3. Goes(r, x)
    BY <1>1, <1>2 DEF Goes, ApiRequest, ApiTypeOK
  <1>4. x.stage = "find" /\ x.ask = request[r].ask /\ x.deleted = request[r].deleted
    BY <1>2 DEF ApiRequest
  <1> HIDE DEF x
  <1>5. RequestOK(x)
    BY <1>2, <1>4 DEF RequestOK, AnswersCore
  <1>6. QED
    BY <1>1, <1>2, <1>3, <1>4, <1>5, QuietKeepsAnswers DEF ApiTypeOK

LEMMA DeleteKeepsAnswers ==
    ASSUME AnswersCore, NEW r \in Request, DeleteDevice(r)
    PROVE  AnswersCore'
  <1> DEFINE gone == request[r].ask.id
             next == IF request[r].id # Absent THEN "record" ELSE "done"
             x == [request[r] EXCEPT !.deleted = TRUE, !.stage = next]
  <1>1. ApiTypeOK /\ NamesDiffer /\ DeviceTypeOK /\ Balanced /\ AcksApart
    BY DEF AnswersCore, ApiTypeOK
  <1>2. /\ request[r] \in ApiRequest /\ request[r].ask.op = "delete"
        /\ request[r].stage = "delete" /\ gone \in DeviceId /\ request[r] # Fresh
        /\ devices' = [devices EXCEPT ![gone] = NoRow]
        /\ UNCHANGED <<lastScan, openAlerts, assigned>>
    BY <1>1, RequestAt, AskFacts DEF DeleteDevice
  <1>3. Goes(r, x)
    BY <1>1, <1>2 DEF DeleteDevice, Goes, ApiRequest, ApiTypeOK
  <1>4. DeviceTypeOK' /\ NamesDiffer' /\ Stored' = Stored \ {gone}
    <2>1. DeviceTypeOK' /\ NamesDiffer'
      BY <1>1, <1>2, RowsKeepNamesApart
    <2>2. \A d \in DeviceId : devices'[d] = IF d = gone THEN NoRow ELSE devices[d]
      BY <1>1, <1>2 DEF DeviceTypeOK
    <2> HIDE DEF gone
    <2>3. QED
      BY <2>1, <2>2 DEF Stored
  <1>5. x.stage \in {"record", "done"} /\ x.ask.op = "delete" /\ x.ask.id = gone /\ x.deleted
    BY <1>2 DEF ApiRequest
  <1>6. r \notin Deleters(gone)
    BY <1>2 DEF AnswersCore, RequestOK, Deleters
  <1> HIDE DEF x, gone
  <1>7. ApiTypeOK'
    BY <1>1, <1>2, <1>3, <1>4, ApiTypeKept DEF ApiTypeOK
  <1>8. Balanced'
    BY <1>1, <1>3, <1>4, <1>5, <1>6, BalanceKept
  <1>9. AcksApart'
    BY <1>1, <1>2, <1>3, <1>5, AcksKept
  <1>10. RequestOK(x)
    BY <1>5 DEF RequestOK
  <1>11. \A q \in Request : request'[q] # Fresh => RequestOK(request'[q])
    BY <1>1, <1>3, <1>10, GoesFacts DEF AnswersCore
  <1>12. QED
    BY <1>4, <1>7, <1>8, <1>9, <1>11 DEF AnswersCore

LEMMA AcknowledgeKeepsAnswers ==
    ASSUME AnswersCore, NEW r \in Request, At(r, "ack", "begun"),
           request[r].ask.id \in openAlerts,
           openAlerts' = openAlerts \ {request[r].ask.id}, Reply(r, 200, request[r].ask.id),
           UNCHANGED <<devices, lastScan, assigned>>
    PROVE  AnswersCore'
  <1> DEFINE b == request[r].ask.id
  <1>1. ApiTypeOK /\ NamesDiffer /\ DeviceTypeOK /\ Balanced /\ AcksApart
    BY DEF AnswersCore, ApiTypeOK
  <1>2. /\ request[r] \in ApiRequest /\ request[r].ask.op = "ack"
        /\ request[r].stage = "begun" /\ request[r].stage # "answered" /\ b \in AlertId
    BY <1>1, RequestAt, AskFacts
  <1>3. PICK x : Goes(r, x) /\ Replied(r, x, 200, b)
    BY <1>1, <1>2, ReplyGoes
  <1>4. DeviceTypeOK' /\ NamesDiffer' /\ Stored' = Stored
    BY <1>1 DEF DeviceTypeOK, NamesDiffer, Stored, Named
  <1>5. x.stage = "answered" /\ x.ask.op = "ack" /\ x.code = 200 /\ x.body = b
    BY <1>2, <1>3 DEF Replied
  <1>6. ApiTypeOK'
    BY <1>1, <1>3, <1>4, ApiTypeKept DEF ApiTypeOK
  <1>7. Balanced'
    BY <1>1, <1>3, <1>4, <1>5, BalanceKept
  <1>8. AcksApart'
    BY <1>1, <1>3, <1>5, AcksKept
  <1>9. RequestOK(x)
    BY <1>5 DEF RequestOK
  <1>10. \A q \in Request : request'[q] # Fresh => RequestOK(request'[q])
    BY <1>1, <1>3, <1>9, GoesFacts DEF AnswersCore
  <1>11. QED
    BY <1>4, <1>6, <1>7, <1>8, <1>10 DEF AnswersCore

LEMMA AnswersStep == AnswersCore /\ [ApiNext]_apiVars => AnswersCore'
  <1> SUFFICES ASSUME AnswersCore, [ApiNext]_apiVars PROVE AnswersCore'
    OBVIOUS
  <1>0. /\ ApiTypeOK /\ lastScan \in Request \union {Absent}
        /\ assigned \in Seq(Request)
    BY DEF AnswersCore, ApiTypeOK
  <1>1. CASE UNCHANGED apiVars
    <2>1. UNCHANGED <<devices, request, lastScan, openAlerts, assigned>>
      BY <1>1 DEF apiVars
    <2>2. /\ \A op : Of(op)' = Of(op)
          /\ \A op, code, body : Told(op, code, body)' = Told(op, code, body)
          /\ \A d : Creators(d)' = Creators(d) /\ Deleters(d)' = Deleters(d)
      BY <2>1 DEF Of, Told, With, Answered, Creators, Deleters
    <2>3. ApiTypeOK' /\ NamesDiffer' /\ Stored' = Stored
      BY <2>1 DEF AnswersCore, ApiTypeOK, DeviceTypeOK, NamesDiffer, Stored, Named, Fresh
    <2>4. Balanced' /\ AcksApart'
      BY <2>1, <2>2, <2>3 DEF AnswersCore, Balanced, AcksApart
    <2>5. QED
      BY <2>1, <2>3, <2>4 DEF AnswersCore
  <1>2. ASSUME NEW r \in Request, CreateFind(r) \/ CreateInsert(r) \/ CreateRefresh(r)
        PROVE  AnswersCore'
    <2>1. CASE CreateFind(r)
      <3>1. CASE Move(r, "insert")
        BY <1>0, <2>1, <3>1, MoveKeepsAnswers DEF CreateFind
      <3>2. CASE Reply(r, 400, Absent)
        BY <2>1, <3>2, ReplyKeepsAnswers DEF CreateFind
      <3>3. QED
        BY <2>1, <3>1, <3>2 DEF CreateFind
    <2>2. CASE CreateInsert(r)
      BY <2>2, InsertKeepsAnswers, ReplyKeepsAnswers DEF CreateInsert
    <2>3. CASE CreateRefresh(r)
      BY <1>0, <2>3, MoveKeepsAnswers, ReplyKeepsAnswers DEF CreateRefresh
    <2>4. QED
      BY <1>2, <2>1, <2>2, <2>3
  <1>3. ASSUME NEW r \in Request, DeleteLooks(r) PROVE AnswersCore'
    <2>1. CASE At(r, "delete", "begun")
      <3>1. request[r].stage = "begun" /\ request[r].ask.id \in DeviceId
        BY <1>0, <2>1, RequestAt, AskFacts
      <3>2. QED
        BY <1>3, <2>1, <3>1, FirstLookKeepsAnswers DEF DeleteLooks, At
    <2>2. CASE At(r, "delete", "find")
      <3>1. request[r].stage = "find" /\ UNCHANGED <<devices, lastScan, openAlerts, assigned>>
        BY <1>3, <2>2 DEF DeleteLooks, At
      <3>2. CASE Move(r, "delete")
        BY <1>0, <2>2, <3>1, <3>2, MoveKeepsAnswers
      <3>3. CASE Reply(r, 404, Absent)
        BY <2>2, <3>1, <3>3, ReplyKeepsAnswers
      <3>4. QED
        BY <1>3, <3>1, <3>2, <3>3 DEF DeleteLooks, At
    <2>3. QED
      BY <1>3, <2>1, <2>2 DEF DeleteLooks
  <1>4. ASSUME NEW r \in Request, AnswerRecorded(r) PROVE AnswersCore'
    <2>1. CASE At(r, "create", "record") /\ Reply(r, 201, request[r].id)
      <3>1. request[r].id \in DeviceId \union {Absent}
        BY <1>0, <2>1, RequestAt DEF ApiRequest
      <3>2. QED
        BY <1>4, <2>1, <3>1, ReplyKeepsAnswers DEF AnswerRecorded
    <2>2. ASSUME NEW from \in {"record", "done"}, At(r, "delete", from),
                 Reply(r, 200, request[r].ask.id)
          PROVE  AnswersCore'
      <3>1. request[r].ask.id \in DeviceId
        BY <1>0, <2>2, RequestAt, AskFacts
      <3>2. QED
        BY <1>4, <2>2, <3>1, ReplyKeepsAnswers DEF AnswerRecorded
    <2>3. QED
      BY <1>4, <2>1, <2>2 DEF AnswerRecorded
  <1>5. ASSUME NEW r \in Request, AcknowledgeAlert(r) PROVE AnswersCore'
    BY <1>5, AcknowledgeKeepsAnswers, ReplyKeepsAnswers DEF AcknowledgeAlert
  <1>6. ASSUME NEW r \in Request, ScanKept(r) PROVE AnswersCore'
    <2>1. CASE At(r, "scan", "begun") /\ Move(r, "kept") /\ UNCHANGED <<devices, openAlerts>>
               /\ lastScan' = r /\ assigned' = Append(assigned, r)
      <3>1. assigned' \in Seq(Request)
        BY <1>0, <2>1
      <3>2. QED
        BY <2>1, <3>1, MoveKeepsAnswers
    <2>2. CASE At(r, "scan", "kept") /\ Reply(r, 200, r)
               /\ UNCHANGED <<devices, lastScan, openAlerts, assigned>>
      BY <2>2, ReplyKeepsAnswers
    <2>3. QED
      BY <1>6, <2>1, <2>2 DEF ScanKept
  <1>7. ASSUME NEW r \in Request, Results(r) PROVE AnswersCore'
    BY <1>0, <1>7, ReplyKeepsAnswers DEF Results
  <1>8. ASSUME NEW r \in Request, RequestFails(r) PROVE AnswersCore'
    <2>1. /\ request[r].stage # "answered" /\ Reply(r, 500, Absent)
          /\ At(r, request[r].ask.op, request[r].stage)
          /\ UNCHANGED <<devices, lastScan, openAlerts, assigned>>
      BY <1>8 DEF RequestFails, At, Of
    <2>2. QED
      BY <2>1, ReplyKeepsAnswers
  <1>9. QED
    BY <1>1, <1>2, <1>3, <1>4, <1>5, <1>6, <1>7, <1>8, BeginKeepsAnswers, DeleteKeepsAnswers
       DEF ApiNext

\* In every reachable state, for any number of requests, devices and alerts, and
\* whatever sessions raise: what clients were told of devices and alerts adds up.
THEOREM AnswersInvariant == ApiSpec => []AnswersInv
  <1>1. ApiInit => AnswersCore
    <2> SUFFICES ASSUME ApiInit PROVE AnswersCore
      OBVIOUS
    <2>1. /\ \A r \in Request : request[r] = Fresh
          /\ \A d : Creators(d) = {} /\ Deleters(d) = {}
          /\ \A op, code, body : Told(op, code, body) = {}
      BY DEF ApiInit, Of, Creators, Deleters, Told, With, Fresh
    <2>2. ApiTypeOK
      BY DEF ApiInit, DevicesInit, ApiTypeOK
    <2>3. Balanced
      BY <2>1, FS_EmptySet DEF Balanced
    <2>4. AcksApart
      BY <2>1 DEF AcksApart
    <2>5. QED
      BY <2>1, <2>2, <2>3, <2>4 DEF ApiInit, DevicesInit, AnswersCore
  <1>2. AnswersCore => AnswersInv
    <2> SUFFICES ASSUME AnswersCore PROVE AnswersInv
      OBVIOUS
    <2>1. \A op : \A r \in Of(op) :
            r \in Request /\ request[r].ask.op = op /\ RequestOK(request[r])
      BY DEF AnswersCore, Of, Fresh
    <2>2. /\ \A r \in Of("create") :
               request[r].stage \in {"refresh", "record"} => request[r].id \in DeviceId
          /\ \A r \in With("create", 201) : request[r].body = request[r].id
          /\ \A r \in Of("delete") \cap Answered :
               /\ request[r].code \in {200, 404, 500}
               /\ request[r].code # 500 => (request[r].code = 200 <=> request[r].deleted)
          /\ \A r \in Of("delete") \ Answered :
               request[r].deleted <=> request[r].stage \in {"record", "done"}
      BY <2>1 DEF With, Answered, RequestOK
    <2>3. ASSUME NEW d \in DeviceId
          PROVE  Cardinality(Told("create", 201, d))
                   <= Cardinality(Deleters(d)) + (IF d \in Stored THEN 1 ELSE 0)
      <3>1. Told("create", 201, d) \subseteq Creators(d)
        BY <2>2 DEF Told, Creators, With
      <3>2. /\ Cardinality(Told("create", 201, d)) <= Cardinality(Creators(d))
            /\ Cardinality(Creators(d)) \in Nat /\ Cardinality(Told("create", 201, d)) \in Nat
        BY <3>1, FiniteRequests, FS_Subset DEF Creators, Of
      <3>3. Cardinality(Deleters(d)) \in Nat
        BY FiniteRequests DEF Deleters, Of
      <3>4. QED
        BY <3>2, <3>3 DEF AnswersCore, Balanced
    <2>4. ASSUME NEW a \in AlertId PROVE Cardinality(Told("ack", 200, a)) <= 1
      <3>1. \A q, r \in Told("ack", 200, a) : q = r
        BY DEF AnswersCore, AcksApart
      <3>2. CASE Told("ack", 200, a) = {}
        BY <3>2, FS_EmptySet
      <3>3. ASSUME NEW q \in Told("ack", 200, a) PROVE Cardinality(Told("ack", 200, a)) <= 1
        <4>1. Told("ack", 200, a) = {q}
          BY <3>1
        <4>2. Cardinality({q}) = 1
          BY FS_Singleton
        <4>3. QED
          BY <4>1, <4>2
      <3>4. QED
        BY <3>2, <3>3
    <2>5. QED
      BY <2>2, <2>3, <2>4 DEF AnswersCore, Balanced, AcksApart, AnswersInv, AnswersAddUp
  <1>3. QED
    BY <1>1, <1>2, AnswersStep, PTL DEF ApiSpec

-----------------------------------------------------------------------------
(* The REST API: the last scan *)

IsKept(x) == x.stage = "kept" \/ (x.stage = "answered" /\ x.code = 200)
Scanned == {q \in Of("scan") : IsKept(request[q])}

\* What a step of r does to the scans that are kept.
LEMMA KeptScans ==
    ASSUME ApiTypeOK, NEW r \in Request, NEW x, Goes(r, x)
    PROVE  Scanned' = IF x.ask.op = "scan" /\ IsKept(x) THEN Scanned \union {r}
                      ELSE Scanned \ {r}
  <1>1. r \in Scanned' <=> x.ask.op = "scan" /\ IsKept(x)
    BY GoesFacts DEF Scanned, IsKept, Of, Goes, ApiRequest
  <1>2. \A q \in Request \ {r} : q \in Scanned' <=> q \in Scanned
    BY GoesFacts DEF Scanned, IsKept, Of
  <1>3. Scanned \subseteq Request /\ Scanned' \subseteq Request
    BY DEF Scanned, Of
  <1>4. QED
    BY <1>1, <1>2, <1>3

EachKeptOnce == \A i, j \in DOMAIN assigned : assigned[i] = assigned[j] => i = j
LastIsKept == lastScan = IF assigned = << >> THEN Absent ELSE Last(assigned)
Seen == \A q \in Request : request[q] # Fresh => request[q].before \subseteq ToSet(assigned)
GivesAKeptScan == \A q \in With("results", 200) : request[q].body \in ToSet(assigned)

ResultsCore ==
    ResultsAreFresh /\ EachKeptOnce /\ ToSet(assigned) = Scanned /\ LastIsKept /\ Seen
      /\ GivesAKeptScan

LEMMA RankFacts ==
    ASSUME ApiTypeOK, EachKeptOnce, NEW s \in ToSet(assigned)
    PROVE  /\ Rank(s) \in 1 .. Len(assigned) /\ assigned[Rank(s)] = s
           /\ \A i \in DOMAIN assigned : assigned[i] = s => Rank(s) = i
  <1>1. assigned \in Seq(Request) /\ DOMAIN assigned = 1 .. Len(assigned)
    BY DEF ApiTypeOK
  <1>2. \E i \in DOMAIN assigned : assigned[i] = s
    BY DEF ToSet
  <1>3. Rank(s) \in DOMAIN assigned /\ assigned[Rank(s)] = s
    BY <1>2 DEF Rank
  <1>4. QED
    BY <1>1, <1>3 DEF EachKeptOnce

LEMMA LastRanksHighest ==
    ASSUME ApiTypeOK, EachKeptOnce, LastIsKept, NEW s \in ToSet(assigned)
    PROVE  lastScan \in ToSet(assigned) /\ lastScan # Absent /\ Rank(s) <= Rank(lastScan)
  <1>1. assigned \in Seq(Request) /\ Len(assigned) \in Nat /\ DOMAIN assigned = 1 .. Len(assigned)
    BY DEF ApiTypeOK
  <1>2. Rank(s) \in 1 .. Len(assigned) /\ assigned # << >>
    BY <1>1, RankFacts DEF ToSet
  <1>3. Len(assigned) \in DOMAIN assigned /\ lastScan = assigned[Len(assigned)]
    BY <1>1, <1>2 DEF LastIsKept, Last
  <1>4. lastScan \in ToSet(assigned) /\ lastScan \in Request
    BY <1>1, <1>3 DEF ToSet
  <1>5. Rank(lastScan) = Len(assigned)
    BY <1>3, <1>4, RankFacts
  <1>6. QED
    BY <1>2, <1>4, <1>5, ApiAssumption

\* Any step of r that keeps no scan.
LEMMA QuietKeepsResults ==
    ASSUME ApiTypeOK, ResultsCore, NEW r \in Request, NEW x, Goes(r, x),
           UNCHANGED <<lastScan, assigned>>,
           (x.ask.op = "scan" /\ IsKept(x)) <=> r \in Scanned,
           x.before \subseteq ToSet(assigned),
           x.ask.op = "results" /\ x.stage = "answered" =>
             IF lastScan = Absent THEN x.code = 404 ELSE x.code = 200 /\ x.body = lastScan
    PROVE  ResultsCore'
  <1>1. ToSet(assigned)' = ToSet(assigned) /\ \A s : Rank(s)' = Rank(s)
    BY DEF ToSet, Rank
  <1>2. Scanned' = Scanned
    BY KeptScans
  <1>3. EachKeptOnce' /\ LastIsKept'
    BY DEF ResultsCore, EachKeptOnce, LastIsKept
  <1>4. Seen'
    BY <1>1, GoesFacts DEF Seen, ResultsCore
  <1>5. lastScan # Absent => lastScan \in ToSet(assigned)
    <2>1. assigned # << >> => \E s : s \in ToSet(assigned)
      <3>1. assigned \in Seq(Request)
        BY DEF ApiTypeOK
      <3>2. assigned # << >> => 1 \in DOMAIN assigned
        BY <3>1
      <3>3. QED
        BY <3>2 DEF ToSet
    <2>2. QED
      BY <2>1, LastRanksHighest DEF ResultsCore, LastIsKept
  <1>6. ASSUME NEW q \in Of("results")', q \in Answered', q # r
        PROVE  q \in Of("results") \cap Answered /\ request'[q] = request[q]
    BY <1>6, GoesFacts DEF Of, Answered
  <1>7. ASSUME r \in Of("results")', r \in Answered'
        PROVE  IF lastScan = Absent THEN x.code = 404 ELSE x.code = 200 /\ x.body = lastScan
    BY <1>7, GoesFacts DEF Of, Answered
  <1>8. GivesAKeptScan'
    <2> SUFFICES ASSUME NEW q \in With("results", 200)' PROVE request'[q].body \in ToSet(assigned)
      BY <1>1 DEF GivesAKeptScan
    <2>1. q \in Of("results")' /\ q \in Answered' /\ request'[q].code = 200
      BY DEF With
    <2>2. CASE q # r
      BY <1>6, <2>1, <2>2 DEF With, ResultsCore, GivesAKeptScan
    <2>3. CASE q = r
      BY <1>5, <1>7, <2>1, <2>3, GoesFacts
    <2>4. QED
      BY <2>2, <2>3
  <1>9. ResultsAreFresh'
    <2> SUFFICES ASSUME NEW q \in Of("results")', q \in Answered', NEW s \in request'[q].before
                 PROVE  request'[q].code = 200 /\ Rank(s) <= Rank(request'[q].body)
      BY <1>1 DEF ResultsAreFresh
    <2>1. CASE q # r
      BY <1>6, <2>1 DEF ResultsCore, ResultsAreFresh
    <2>2. CASE q = r
      <3>1. s \in ToSet(assigned)
        BY <2>2, GoesFacts
      <3>2. lastScan # Absent /\ Rank(s) <= Rank(lastScan)
        BY <3>1, LastRanksHighest DEF ResultsCore
      <3>3. QED
        BY <1>7, <2>2, <3>2, GoesFacts
    <2>3. QED
      BY <2>1, <2>2
  <1>10. QED
    BY <1>1, <1>2, <1>3, <1>4, <1>8, <1>9 DEF ResultsCore

\* The step that keeps a scan.
LEMMA KeepingKeepsResults ==
    ASSUME ApiTypeOK, ResultsCore, NEW r \in Request, At(r, "scan", "begun"), lastScan' = r,
           assigned' = Append(assigned, r), Move(r, "kept")
    PROVE  ResultsCore'
  <1> DEFINE x == [request[r] EXCEPT !.stage = "kept"]
  <1>1. request[r] \in ApiRequest /\ request[r].ask.op = "scan" /\ request[r].stage = "begun"
    BY RequestAt
  <1>2. Goes(r, x)
    BY <1>1, MoveGoes
  <1>3. /\ x.stage = "kept" /\ x.ask.op = "scan" /\ x.before = request[r].before
        /\ request[r] # Fresh
    BY <1>1 DEF ApiRequest, Fresh
  <1> HIDE DEF x
  <1>4. r \notin ToSet(assigned)
    BY <1>1 DEF ResultsCore, Scanned, IsKept
  <1>5. /\ assigned \in Seq(Request) /\ Len(assigned) \in Nat
        /\ assigned' \in Seq(Request) /\ Len(assigned') = Len(assigned) + 1
        /\ DOMAIN assigned = 1 .. Len(assigned) /\ DOMAIN assigned' = 1 .. Len(assigned) + 1
        /\ assigned'[Len(assigned) + 1] = r
        /\ \A i \in 1 .. Len(assigned) : assigned'[i] = assigned[i]
    BY DEF ApiTypeOK
  <1>6. ToSet(assigned)' = ToSet(assigned) \union {r}
    BY <1>5 DEF ToSet
  <1>7. \A i \in DOMAIN assigned : assigned[i] # r
    BY <1>4 DEF ToSet
  <1>8. EachKeptOnce'
    BY <1>5, <1>7 DEF ResultsCore, EachKeptOnce
  <1>9. LastIsKept'
    BY <1>5 DEF LastIsKept, Last
  <1>10. Scanned' = Scanned \union {r}
    BY <1>2, <1>3, KeptScans DEF IsKept
  <1>11. Seen'
    BY <1>2, <1>3, <1>6, GoesFacts DEF Seen, ResultsCore
  <1>12. ASSUME NEW s \in ToSet(assigned) PROVE Rank(s)' = Rank(s)
    <2>1. /\ Rank(s) \in 1 .. Len(assigned) /\ assigned[Rank(s)] = s
          /\ \A i \in DOMAIN assigned : assigned[i] = s => Rank(s) = i
      BY <1>12, RankFacts DEF ResultsCore
    <2>2. Rank(s) \in DOMAIN assigned' /\ assigned'[Rank(s)] = s
      BY <1>5, <2>1
    <2>3. \A i \in DOMAIN assigned' : assigned'[i] = s => i = Rank(s)
      BY <1>8, <2>2 DEF EachKeptOnce
    <2>4. QED
      BY <2>2, <2>3 DEF Rank
  <1>13. ASSUME NEW q \in Of("results")', q \in Answered'
         PROVE  q \in Of("results") \cap Answered /\ request'[q] = request[q]
    <2>1. q # r
      BY <1>2, <1>3, <1>13, GoesFacts DEF Of
    <2>2. QED
      BY <1>2, <1>13, <2>1, GoesFacts DEF Of, Answered
  <1>14. GivesAKeptScan'
    BY <1>6, <1>13 DEF GivesAKeptScan, ResultsCore, With
  <1>15. ResultsAreFresh'
    <2> SUFFICES ASSUME NEW q \in Of("results")', q \in Answered', NEW s \in request'[q].before
                 PROVE  request'[q].code = 200 /\ Rank(s)' <= Rank(request[q].body)'
      BY DEF ResultsAreFresh
    <2>1. q \in Of("results") \cap Answered /\ request'[q] = request[q] /\ s \in request[q].before
      BY <1>13
    <2>2. request[q].code = 200 /\ Rank(s) <= Rank(request[q].body)
      BY <2>1 DEF ResultsCore, ResultsAreFresh
    <2>3. s \in ToSet(assigned) /\ request[q].body \in ToSet(assigned)
      BY <2>1, <2>2 DEF ResultsCore, Seen, GivesAKeptScan, With, Of, Fresh
    <2>4. QED
      BY <1>12, <2>1, <2>2, <2>3
  <1>16. QED
    BY <1>6, <1>8, <1>9, <1>10, <1>11, <1>14, <1>15 DEF ResultsCore

LEMMA MoveKeepsResults ==
    ASSUME ApiTypeOK, ResultsCore, NEW r \in Request, NEW op, NEW from, At(r, op, from),
           op # "scan", NEW x, Goes(r, x), x.stage # "answered", UNCHANGED <<lastScan, assigned>>
    PROVE  ResultsCore'
  <1>1. request[r].ask.op = op /\ request[r] # Fresh
    BY RequestAt
  <1>2. x.ask.op = op /\ x.before = request[r].before
    BY <1>1 DEF Goes
  <1>3. r \notin Scanned /\ x.before \subseteq ToSet(assigned)
    BY <1>1, <1>2 DEF Scanned, Of, ResultsCore, Seen
  <1>4. QED
    BY <1>1, <1>2, <1>3, QuietKeepsResults

LEMMA ReplyKeepsResults ==
    ASSUME ApiTypeOK, ResultsCore, NEW r \in Request, NEW op, NEW from, At(r, op, from),
           from # "answered", NEW code \in Nat, op = "scan" => (from = "kept" <=> code = 200),
           NEW body \in DeviceId \union AlertId \union Request \union {Absent},
           Reply(r, code, body), UNCHANGED <<lastScan, assigned>>,
           op = "results" =>
             IF lastScan = Absent THEN code = 404 ELSE code = 200 /\ body = lastScan
    PROVE  ResultsCore'
  <1>1. /\ request[r] \in ApiRequest /\ request[r].stage = from /\ request[r].ask.op = op
        /\ request[r].stage # "answered" /\ request[r] # Fresh
    BY RequestAt
  <1>2. PICK x : Goes(r, x) /\ Replied(r, x, code, body)
    BY <1>1, ReplyGoes
  <1>3. /\ x.stage = "answered" /\ x.ask.op = op /\ x.before = request[r].before
        /\ x.code = code /\ x.body = body
    BY <1>1, <1>2 DEF Replied, Goes
  <1>4. x.before \subseteq ToSet(assigned)
    BY <1>1, <1>3 DEF ResultsCore, Seen
  <1>5. (x.ask.op = "scan" /\ IsKept(x)) <=> r \in Scanned
    BY <1>1, <1>3 DEF Scanned, IsKept, Of, At
  <1>6. QED
    BY <1>2, <1>3, <1>4, <1>5, QuietKeepsResults

LEMMA BeginKeepsResults ==
    ASSUME ApiTypeOK, ResultsCore, NEW r \in Request, NEW ask \in Ask, BeginRequest(r, ask)
    PROVE  ResultsCore'
  <1> DEFINE x == [stage |-> "begun", ask |-> ask, id |-> Absent, deleted |-> FALSE,
                   code |-> 0, body |-> Absent, before |-> With("scan", 200)]
  <1>1. Goes(r, x) /\ UNCHANGED <<lastScan, assigned>>
    BY BeginGoes DEF BeginRequest
  <1>2. r \notin Scanned /\ ~ IsKept(x) /\ x.stage # "answered"
    BY DEF BeginRequest, Scanned, IsKept, Of, Fresh
  <1>3. With("scan", 200) \subseteq ToSet(assigned)
    BY DEF ResultsCore, Scanned, IsKept, With, Answered
  <1>4. QED
    BY <1>1, <1>2, <1>3, QuietKeepsResults

LEMMA ResultsStep ==
    ASSUME ApiTypeOK, ResultsCore, [ApiNext]_apiVars
    PROVE  ResultsCore'
  <1>1. CASE UNCHANGED apiVars
    <2>1. UNCHANGED <<request, lastScan, assigned>>
      BY <1>1 DEF apiVars
    <2>2. /\ Scanned' = Scanned /\ Answered' = Answered /\ ToSet(assigned)' = ToSet(assigned)
          /\ \A op, code : Of(op)' = Of(op) /\ With(op, code)' = With(op, code)
          /\ \A s : Rank(s)' = Rank(s)
      BY <2>1 DEF Scanned, Of, Answered, With, Rank, ToSet
    <2>3. ResultsAreFresh'
      BY <2>1, <2>2 DEF ResultsCore, ResultsAreFresh
    <2>4. EachKeptOnce' /\ LastIsKept' /\ Seen' /\ GivesAKeptScan'
      BY <2>1, <2>2 DEF ResultsCore, EachKeptOnce, LastIsKept, Seen, GivesAKeptScan
    <2>5. QED
      BY <2>2, <2>3, <2>4 DEF ResultsCore
  <1>2. ASSUME NEW r \in Request, CreateFind(r) \/ CreateInsert(r) \/ CreateRefresh(r)
        PROVE  ResultsCore'
    <2>1. ASSUME CreateFind(r) PROVE ResultsCore'
      <3>1. At(r, "create", "begun") /\ UNCHANGED <<lastScan, assigned>>
              /\ request[r] \in ApiRequest /\ request[r].stage = "begun"
        BY <2>1, RequestAt DEF CreateFind
      <3>2. ASSUME Move(r, "insert") PROVE ResultsCore'
        <4>1. Goes(r, [request[r] EXCEPT !.stage = "insert"])
                /\ [request[r] EXCEPT !.stage = "insert"].stage = "insert"
          BY <3>1, <3>2, MoveGoes DEF ApiRequest
        <4>2. QED
          BY <3>1, <4>1, MoveKeepsResults
      <3>3. QED
        BY <2>1, <3>1, <3>2, ReplyKeepsResults DEF CreateFind
    <2>2. ASSUME CreateInsert(r) PROVE ResultsCore'
      <3>1. CASE /\ InsertRow(request[r].ask.name)
                 /\ request' = [request EXCEPT ![r].stage = "refresh", ![r].id = FreshId]
        <4> DEFINE x == [request[r] EXCEPT !.stage = "refresh", !.id = FreshId]
        <4>1. FreshId \in DeviceId
          BY <3>1, FreshIdIsFree DEF InsertRow, FreeIds
        <4>2. At(r, "create", "insert") /\ request[r] \in ApiRequest
                /\ request[r].stage = "insert" /\ UNCHANGED <<lastScan, assigned>>
          BY <2>2, RequestAt DEF CreateInsert
        <4>3. Goes(r, x) /\ x.stage = "refresh"
          BY <3>1, <4>1, <4>2 DEF Goes, ApiRequest, ApiTypeOK
        <4> HIDE DEF x
        <4>4. QED
          BY <4>2, <4>3, MoveKeepsResults
      <3>2. CASE Reply(r, 500, Absent)
        BY <2>2, <3>2, ReplyKeepsResults DEF CreateInsert
      <3>3. QED
        BY <2>2, <3>1, <3>2 DEF CreateInsert
    <2>3. ASSUME CreateRefresh(r) PROVE ResultsCore'
      <3>1. At(r, "create", "refresh") /\ UNCHANGED <<lastScan, assigned>>
              /\ request[r] \in ApiRequest /\ request[r].stage = "refresh"
        BY <2>3, RequestAt DEF CreateRefresh
      <3>2. ASSUME Move(r, "record") PROVE ResultsCore'
        <4>1. Goes(r, [request[r] EXCEPT !.stage = "record"])
                /\ [request[r] EXCEPT !.stage = "record"].stage = "record"
          BY <3>1, <3>2, MoveGoes DEF ApiRequest
        <4>2. QED
          BY <3>1, <4>1, MoveKeepsResults
      <3>3. QED
        BY <2>3, <3>1, <3>2, ReplyKeepsResults DEF CreateRefresh
    <2>4. QED
      BY <1>2, <2>1, <2>2, <2>3
  <1>3. ASSUME NEW r \in Request, DeleteLooks(r) \/ DeleteDevice(r) PROVE ResultsCore'
    <2>1. \A stage : At(r, "delete", stage)
                        => /\ request[r] \in ApiRequest /\ request[r].ask.id \in DeviceId
                           /\ request[r].stage = stage
      BY RequestAt, AskFacts
    <2>2. UNCHANGED <<lastScan, assigned>>
      BY <1>3 DEF DeleteLooks, DeleteDevice
    <2>3. ASSUME At(r, "delete", "begun"), DeleteLooks(r) PROVE ResultsCore'
      <3> DEFINE id == IF request[r].ask.id \in Stored THEN request[r].ask.id ELSE Absent
                 x == [request[r] EXCEPT !.stage = "find", !.id = id]
      <3>1. request' = [request EXCEPT ![r] = x]
        BY <2>1, <2>3 DEF DeleteLooks, At, ApiTypeOK, ApiRequest
      <3>2. Goes(r, x) /\ x.stage = "find"
        <4>1. /\ id \in DeviceId \union {Absent} /\ request[r] \in ApiRequest
              /\ request[r].stage = "begun"
          BY <2>1, <2>3
        <4> HIDE DEF id
        <4>2. x \in ApiRequest /\ x.stage = "find" /\ x.ask = request[r].ask
                /\ x.before = request[r].before /\ x.deleted = request[r].deleted
                /\ request[r].stage # "answered"
          BY <4>1 DEF ApiRequest
        <4> HIDE DEF x
        <4>3. QED
          BY <3>1, <4>1, <4>2 DEF Goes
      <3> HIDE DEF x
      <3>3. QED
        BY <2>2, <2>3, <3>2, MoveKeepsResults
    <2>4. ASSUME At(r, "delete", "find"), Move(r, "delete") PROVE ResultsCore'
      <3>1. Goes(r, [request[r] EXCEPT !.stage = "delete"])
              /\ [request[r] EXCEPT !.stage = "delete"].stage = "delete"
        BY <2>1, <2>4, MoveGoes DEF ApiRequest
      <3>2. QED
        BY <2>2, <2>4, <3>1, MoveKeepsResults
    <2>5. ASSUME At(r, "delete", "find"), Reply(r, 404, Absent) PROVE ResultsCore'
      BY <2>2, <2>5, ReplyKeepsResults
    <2>6. ASSUME DeleteDevice(r) PROVE ResultsCore'
      <3> DEFINE next == IF request[r].id # Absent THEN "record" ELSE "done"
                 x == [request[r] EXCEPT !.deleted = TRUE, !.stage = next]
      <3>1. Goes(r, x) /\ x.stage \in {"record", "done"} /\ At(r, "delete", "delete")
        BY <2>1, <2>6 DEF DeleteDevice, Goes, ApiRequest, ApiTypeOK
      <3> HIDE DEF x
      <3>2. QED
        BY <2>2, <3>1, MoveKeepsResults
    <2>7. QED
      BY <1>3, <2>3, <2>4, <2>5, <2>6 DEF DeleteLooks
  <1>4. ASSUME NEW r \in Request, AnswerRecorded(r) \/ AcknowledgeAlert(r) PROVE ResultsCore'
    <2>1. CASE AcknowledgeAlert(r)
      BY <2>1, RequestAt, AskFacts, ReplyKeepsResults DEF AcknowledgeAlert
    <2>2. ASSUME At(r, "create", "record"), Reply(r, 201, request[r].id),
                 UNCHANGED <<lastScan, assigned>>
          PROVE  ResultsCore'
      <3>1. request[r].id \in DeviceId \union {Absent}
        BY <2>2, RequestAt DEF ApiRequest
      <3>2. QED
        BY <2>2, <3>1, ReplyKeepsResults
    <2>3. ASSUME NEW from \in {"record", "done"}, At(r, "delete", from),
                 Reply(r, 200, request[r].ask.id), UNCHANGED <<lastScan, assigned>>
          PROVE  ResultsCore'
      BY <2>3, RequestAt, AskFacts, ReplyKeepsResults
    <2>4. QED
      BY <1>4, <2>1, <2>2, <2>3 DEF AnswerRecorded
  <1>5. ASSUME NEW r \in Request, ScanKept(r) PROVE ResultsCore'
    BY <1>5, KeepingKeepsResults, ReplyKeepsResults DEF ScanKept
  <1>6. ASSUME NEW r \in Request, Results(r) PROVE ResultsCore'
    BY <1>6, ReplyKeepsResults DEF Results, ApiTypeOK
  <1>7. ASSUME NEW r \in Request, RequestFails(r) PROVE ResultsCore'
    <2>1. PICK op \in {"create", "delete", "ack", "scan"} : r \in Of(op)
      BY <1>7 DEF RequestFails
    <2>2. /\ At(r, op, request[r].stage) /\ request[r].stage \notin {"kept", "answered"}
          /\ Reply(r, 500, Absent) /\ UNCHANGED <<lastScan, assigned>>
      BY <1>7, <2>1 DEF RequestFails, At
    <2>3. QED
      BY <2>1, <2>2, ReplyKeepsResults
  <1>8. QED
    BY <1>1, <1>2, <1>3, <1>4, <1>5, <1>6, <1>7, BeginKeepsResults DEF ApiNext

\* In every reachable state, for any number of requests: whoever has seen a scan
\* answered gets that scan, or a later one, from GET results.
THEOREM ResultsInvariant == ApiSpec => []ResultsInv
  <1>1. ApiInit => ResultsCore
    BY DEF ApiInit, ResultsCore, ResultsAreFresh, EachKeptOnce, Scanned, IsKept, LastIsKept, Seen,
           GivesAKeptScan, Of, Answered, With, Fresh, ToSet
  <1>2. AnswersInv => ApiTypeOK
    BY DEF AnswersInv
  <1>3. Scanned = {r \in Of("scan") : request[r].stage = "kept"} \union With("scan", 200)
    BY DEF Scanned, IsKept, With, Answered, Of
  <1>4. ApiTypeOK /\ ResultsCore => ResultsInv
    BY <1>3 DEF ResultsInv, ResultsCore, EachKeptOnce, LastIsKept, Seen, GivesAKeptScan
  <1>5. QED
    BY <1>1, <1>2, <1>4, ResultsStep, AnswersInvariant, PTL DEF ApiSpec

-----------------------------------------------------------------------------
(* The table of results *)

ResultRow == [id : 1 .. lastStore.count, at : 0 .. clock, offline : BOOLEAN]
Check == [at : 0 .. clock, offline : BOOLEAN, alone : BOOLEAN]

IdsDiffer == \A r, s \in results : r.id = s.id => r = s

LoneCheckIsNewest ==
    \A c \in Checker : checking[c] # NotChecking /\ checking[c].alone =>
        /\ \A d \in Checker \ {c} : checking[d] = NotChecking
        /\ \A r \in results : r.at <= checking[c].at

LastIsNewest ==
    lastStore.alone =>
        \A r \in results : (\A s \in results : s.id <= r.id) => \A s \in results : s.at <= r.at

ResultCore == ResultTypeOK /\ IdsDiffer /\ LoneCheckIsNewest /\ LastIsNewest

\* The largest id is that of one row.
LEMMA LastIdIsLatest ==
    ASSUME ResultTypeOK
    PROVE  /\ LastId \in 0 .. lastStore.count
           /\ \A r \in results : r.id <= LastId
           /\ results # {} => \E r \in results : r.id = LastId
  <1> DEFINE ids == {0} \union {r.id : r \in results}
  <1>1. lastStore.count \in Nat /\ ids \subseteq 0 .. lastStore.count /\ ids # {}
        /\ \A r \in results : r.id \in ids /\ r.id \in Nat /\ r.id >= 1
    BY DEF ResultTypeOK
  <1>2. LastId = Max(ids)
    BY DEF LastId
  <1>3. \A i \in ids : i # 0 => \E r \in results : r.id = i
    OBVIOUS
  <1> HIDE DEF ids
  <1>4. LastId \in ids /\ \A i \in ids : i <= LastId
    BY <1>1, <1>2, GreatestNumber
  <1>5. LastId \in 0 .. lastStore.count /\ \A r \in results : r.id <= LastId
    BY <1>1, <1>4
  <1>6. \A r \in results : LastId # 0
    <2> TAKE r \in results
    <2>1. r.id \in Nat /\ r.id >= 1 /\ r.id <= LastId /\ LastId \in Nat
      BY <1>1, <1>5
    <2>2. QED
      BY <2>1
  <1>7. QED
    BY <1>3, <1>4, <1>5, <1>6

\* After a check that was alone, the two orders name the same row.
LEMMA LoneCheckAgrees ==
    ASSUME ResultCore, lastStore.alone, results # {}
    PROVE  Latest.offline <=> Failures > 0
  <1>1. /\ Latest \in results /\ \A r \in results : r.id <= Latest.id
    BY LastIdIsLatest DEF Latest, ResultCore
  <1>2. \A r \in results : r.at <= Latest.at
    BY <1>1 DEF ResultCore, LastIsNewest
  <1>3. \A r \in results : r.id \in Nat /\ r.at \in Nat
    BY DEF ResultCore, ResultTypeOK
  <1>4. \A r \in results : r # Latest => Newer(Latest, r)
    <2> TAKE r \in results
    <2> HAVE r # Latest
    <2>1. r.id # Latest.id
      BY <1>1 DEF ResultCore, IdsDiffer
    <2>2. r.id < Latest.id
      BY <1>1, <1>3, <2>1
    <2>3. QED
      BY <1>1, <1>2, <1>3, <2>2 DEF Newer
  <1>5. \A s \in results : ~ Newer(s, Latest)
    BY <1>1, <1>2, <1>3 DEF Newer
  <1> DEFINE F == {r \in results : r.offline /\ \A s \in results : Newer(s, r) => s.offline}
  <1>6. IsFiniteSet(F) /\ Failures = Cardinality(F)
    BY FS_Subset DEF ResultCore, ResultTypeOK, Failures
  <1>7. CASE Latest.offline
    <2>1. Latest \in F
      BY <1>1, <1>5, <1>7
    <2> HIDE DEF F
    <2>2. Cardinality(F) \in Nat /\ Cardinality(F) # 0
      BY <1>6, <2>1, FS_EmptySet, FS_CardinalityType
    <2>3. QED
      BY <1>6, <1>7, <2>2
  <1>8. CASE ~ Latest.offline
    <2>1. F = {}
      BY <1>1, <1>4, <1>8
    <2>2. QED
      BY <1>6, <1>8, <2>1, FS_EmptySet
  <1>9. QED
    BY <1>7, <1>8

LEMMA RowTypes ==
    ASSUME ResultTypeOK
    PROVE  /\ clock \in Nat /\ lastStore.count \in Nat
           /\ \A r \in results : /\ r \in ResultRow /\ r.id \in Nat /\ r.at \in Nat /\ r.at <= clock
           /\ \A c \in Checker : checking[c] # NotChecking =>
                /\ checking[c] \in Check /\ checking[c].at \in Nat /\ checking[c].at <= clock
  BY DEF ResultTypeOK, ResultRow, Check

LEMMA PingKeepsResults ==
    ASSUME ResultCore, NEW c \in Checker, NEW offline \in BOOLEAN, PingReturns(c, offline)
    PROVE  ResultCore'
  <1> DEFINE alone == \A e \in Checker : checking[e] = NotChecking
             x == [at |-> clock, offline |-> offline, alone |-> alone]
  <1>1. ResultTypeOK /\ UNCHANGED <<clock, results, prune, lastStore>>
    BY DEF PingReturns, ResultCore
  <1>2. /\ checking' = [d \in Checker |-> checking'[d]] /\ checking'[c] = x
        /\ \A d \in Checker \ {c} :
             checking'[d] = IF checking[d] = NotChecking THEN NotChecking
                            ELSE [checking[d] EXCEPT !.alone = FALSE]
    BY DEF PingReturns
  <1>3. alone \in BOOLEAN
    OBVIOUS
  <1>4. x \in Check /\ x.alone = alone /\ x.at = clock
    BY <1>1, <1>3, RowTypes DEF Check
  <1>5. ASSUME NEW d \in Checker \ {c}, checking[d] # NotChecking
        PROVE  [checking[d] EXCEPT !.alone = FALSE] \in Check
                 /\ [checking[d] EXCEPT !.alone = FALSE].alone = FALSE
    BY <1>1, <1>5, RowTypes DEF Check
  <1>6. checking' \in [Checker -> {NotChecking} \union Check]
    BY <1>2, <1>4, <1>5
  <1>7. ResultTypeOK'
    BY <1>1, <1>6 DEF ResultTypeOK, Check
  <1>8. LoneCheckIsNewest'
    <2> SUFFICES ASSUME NEW d \in Checker, checking'[d] # NotChecking, checking'[d].alone
                 PROVE  /\ \A e \in Checker \ {d} : checking'[e] = NotChecking
                        /\ \A r \in results : r.at <= checking'[d].at
      BY <1>1 DEF LoneCheckIsNewest
    <2>1. d = c
      BY <1>2, <1>5
    <2>2. \A e \in Checker \ {c} : checking'[e] = NotChecking
      BY <1>2, <1>4, <2>1
    <2>3. \A r \in results : r.at <= clock
      BY <1>1, RowTypes
    <2>4. QED
      BY <1>2, <1>4, <2>1, <2>2, <2>3
  <1>9. QED
    BY <1>1, <1>7, <1>8 DEF ResultCore, IdsDiffer, LastIsNewest

LEMMA StoreKeepsResults ==
    ASSUME ResultCore, NEW c \in Checker, StoreRow(c)
    PROVE  ResultCore'
  <1> DEFINE x == [id |-> LastId + 1, at |-> checking[c].at, offline |-> checking[c].offline]
  <1>1. /\ ResultTypeOK /\ checking[c] \in Check /\ checking[c] # NotChecking
        /\ results' = results \union {x} /\ UNCHANGED <<clock, prune>>
        /\ lastStore' = [count |-> lastStore.count + 1, alone |-> checking[c].alone]
        /\ checking' = [checking EXCEPT ![c] = NotChecking]
        /\ lastStore.count < MaxResult
    BY RowTypes DEF StoreRow, ResultCore
  <1>2. LastId \in 0 .. lastStore.count /\ \A r \in results : r.id <= LastId
    BY <1>1, LastIdIsLatest
  <1>3. lastStore.count \in Nat /\ LastId \in Nat
    BY <1>1, <1>2, RowTypes
  <1>4. x.id = LastId + 1 /\ x.at = checking[c].at
    OBVIOUS
  <1>5. x \in [id : 1 .. lastStore.count + 1, at : 0 .. clock, offline : BOOLEAN]
    BY <1>1, <1>2, <1>3 DEF Check
  <1> HIDE DEF x
  <1>6. results \subseteq [id : 1 .. lastStore.count + 1, at : 0 .. clock, offline : BOOLEAN]
    BY <1>1, <1>3 DEF ResultTypeOK
  <1>7. ResultTypeOK'
    <2>1. lastStore' \in [count : 0 .. MaxResult, alone : BOOLEAN]
      BY <1>1, <1>3, ResultAssumption DEF Check
    <2>2. lastStore'.count = lastStore.count + 1 /\ IsFiniteSet(results')
      BY <1>1, FS_AddElement DEF ResultTypeOK
    <2>3. results' \subseteq [id : 1 .. lastStore'.count, at : 0 .. clock, offline : BOOLEAN]
      BY <1>1, <1>5, <1>6, <2>2
    <2>4. checking' \in [Checker -> {NotChecking} \union Check]
      BY <1>1 DEF ResultTypeOK, Check
    <2>5. QED
      BY <1>1, <2>1, <2>2, <2>3, <2>4 DEF ResultTypeOK, Check
  <1>8. IdsDiffer'
    <2>1. \A r \in results : r.id \in Nat /\ r.id # x.id
      BY <1>1, <1>2, <1>3, <1>4, RowTypes
    <2>2. QED
      BY <1>1, <2>1 DEF ResultCore, IdsDiffer
  <1>9. LoneCheckIsNewest'
    <2> SUFFICES ASSUME NEW d \in Checker, checking'[d] # NotChecking, checking'[d].alone
                 PROVE  FALSE
      BY DEF LoneCheckIsNewest
    <2>1. d # c /\ checking'[d] = checking[d]
      BY <1>1 DEF ResultTypeOK
    <2>2. QED
      BY <1>1, <2>1 DEF ResultCore, LoneCheckIsNewest
  <1>10. LastIsNewest'
    <2> SUFFICES ASSUME checking[c].alone, NEW r \in results', \A s \in results' : s.id <= r.id,
                        NEW s \in results'
                 PROVE  s.at <= r.at
      BY <1>1 DEF LastIsNewest
    <2>1. r = x
      BY <1>1, <1>2, <1>3, <1>4, RowTypes
    <2>2. s = x \/ s.at <= checking[c].at
      BY <1>1 DEF ResultCore, LoneCheckIsNewest
    <2>3. QED
      BY <1>1, <1>4, <2>1, <2>2, RowTypes
  <1>11. QED
    BY <1>7, <1>8, <1>9, <1>10 DEF ResultCore

LEMMA PruningKeepsResults ==
    ASSUME ResultCore, PruneDeletes
    PROVE  ResultCore' /\ \A r \in Expired(prune) : clock - r.at > Retention
  <1>1. /\ ResultTypeOK /\ prune \in 0 .. clock - Retention /\ prune' = -1
        /\ results' = results \ Expired(prune) /\ UNCHANGED <<clock, checking, lastStore>>
    BY DEF PruneDeletes, ResultCore, ResultTypeOK
  <1>2. ResultTypeOK'
    BY <1>1, FS_Subset DEF ResultTypeOK
  <1>3. IdsDiffer' /\ LoneCheckIsNewest'
    BY <1>1 DEF ResultCore, IdsDiffer, LoneCheckIsNewest
  <1>4. LastIsNewest'
    <2> SUFFICES ASSUME lastStore.alone, NEW r \in results', \A s \in results' : s.id <= r.id
                 PROVE  \A s \in results' : s.at <= r.at
      BY <1>1 DEF LastIsNewest
    <2>1. PICK l \in results : \A s \in results : s.id <= l.id
      BY <1>1, LastIdIsLatest
    <2>2. \A s \in results : s.at <= l.at
      BY <2>1 DEF ResultCore, LastIsNewest
    <2>3. l \notin Expired(prune)
      BY <1>1, <2>2, RowTypes DEF Expired
    <2>4. l.id = r.id
      BY <1>1, <2>1, <2>3, RowTypes
    <2>5. QED
      BY <1>1, <2>2, <2>4 DEF ResultCore, IdsDiffer
  <1>5. \A r \in Expired(prune) : clock - r.at > Retention
    BY <1>1, RowTypes, ResultAssumption DEF Expired
  <1>6. QED
    BY <1>2, <1>3, <1>4, <1>5 DEF ResultCore

LEMMA ClockKeepsResults ==
    ASSUME ResultCore, Tick \/ PruneBegins
    PROVE  ResultCore'
  <1>1. UNCHANGED <<results, checking, lastStore>> /\ ResultTypeOK /\ clock \in Nat
    BY RowTypes DEF Tick, PruneBegins, ResultCore
  <1>2. CASE Tick
    <2>1. clock' = clock + 1 /\ clock' \in 0 .. MaxTime /\ prune' = prune
      BY <1>1, <1>2, ResultAssumption DEF Tick
    <2>2. results \subseteq [id : 1 .. lastStore.count, at : 0 .. clock + 1, offline : BOOLEAN]
      BY <1>1 DEF ResultTypeOK
    <2>3. checking \in [Checker -> {NotChecking} \union
                                   [at : 0 .. clock + 1, offline : BOOLEAN, alone : BOOLEAN]]
      BY <1>1 DEF ResultTypeOK
    <2>4. prune = -1 \/ prune \in 0 .. (clock + 1) - Retention
      BY <1>1, ResultAssumption DEF ResultTypeOK
    <2>5. QED
      BY <1>1, <2>1, <2>2, <2>3, <2>4
         DEF ResultCore, ResultTypeOK, IdsDiffer, LoneCheckIsNewest, LastIsNewest
  <1>3. CASE PruneBegins
    <2>1. prune' \in 0 .. clock - Retention /\ clock' = clock
      BY <1>1, <1>3, ResultAssumption DEF PruneBegins
    <2>2. QED
      BY <1>1, <2>1 DEF ResultCore, ResultTypeOK, IdsDiffer, LoneCheckIsNewest, LastIsNewest
  <1>4. QED
    BY <1>2, <1>3

LEMMA ResultInitOK == ResultInit => ResultCore
  <1> SUFFICES ASSUME ResultInit PROVE ResultCore
    OBVIOUS
  <1>1. ResultTypeOK
    BY ResultAssumption, FS_EmptySet DEF ResultInit, ResultTypeOK
  <1>2. QED
    BY <1>1 DEF ResultInit, ResultCore, IdsDiffer, LoneCheckIsNewest, LastIsNewest

LEMMA ResultStep == ResultCore /\ [ResultNext]_resultVars => ResultCore'
  <1> SUFFICES ASSUME ResultCore, [ResultNext]_resultVars PROVE ResultCore'
    OBVIOUS
  <1>1. CASE UNCHANGED resultVars
    BY <1>1 DEF resultVars, ResultCore, ResultTypeOK, IdsDiffer, LoneCheckIsNewest, LastIsNewest
  <1>2. CASE ResultNext
    BY <1>2, PingKeepsResults, StoreKeepsResults, PruningKeepsResults, ClockKeepsResults
       DEF ResultNext
  <1>3. QED
    BY <1>1, <1>2

\* In every reachable state, for any number of checks and results: what is shown of a
\* device agrees with itself as soon as a check that was alone has stored its result.
THEOREM ResultInvariant == ResultSpec => []ResultInv
  <1>1. ResultCore => ResultInv
    BY LoneCheckAgrees
       DEF ResultInv, LoneCheckSettles, ResultCore, IdsDiffer, LoneCheckIsNewest, LastIsNewest
  <1>2. QED
    BY <1>1, ResultInitOK, ResultStep, PTL DEF ResultSpec

\* In every behaviour, whatever the retention: no result is pruned before its time.
THEOREM PruningInvariant == ResultSpec => []PruneKeepsRecent
  <1>1. ResultInit => PruneKeepsRecent
    BY DEF ResultInit, PruneKeepsRecent
  <1>2. ResultCore /\ PruneKeepsRecent /\ [ResultNext]_resultVars => PruneKeepsRecent'
    <2> SUFFICES ASSUME ResultCore, PruneKeepsRecent, [ResultNext]_resultVars
                 PROVE  PruneKeepsRecent'
      OBVIOUS
    <2>1. CASE PruneDeletes
      <3>1. pruned' = pruned \union {clock - r.at : r \in Expired(prune)}
        BY <2>1 DEF PruneDeletes
      <3>2. QED
        BY <2>1, <3>1, PruningKeepsResults DEF PruneKeepsRecent
    <2>2. CASE UNCHANGED pruned
      BY <2>2 DEF PruneKeepsRecent
    <2>3. QED
      BY <2>1, <2>2
         DEF ResultNext, resultVars, StoreRow, PingReturns, PruneBegins, Tick
  <1>3. QED
    BY <1>1, <1>2, ResultInitOK, ResultStep, PTL DEF ResultSpec

-----------------------------------------------------------------------------
(* The export files *)

WrittenOrShared(e) ==
    \/ files[exports[e].name] =
         IF exports[e].stage = "writing" THEN [rows |-> {}, whole |-> FALSE]
         ELSE [rows |-> {e}, whole |-> TRUE]
    \/ \E other \in Export \ {e} : Taken(other) /\ exports[other].name = exports[e].name

FilesCore ==
    /\ ExportFilesTypeOK
    /\ \A e \in Export :
         /\ exports[e].stage \notin {"called", "failed"} => exports[e].name # Unnamed
         /\ exports[e].stage = "named" \/ Opened(e) => exports[e].name \notin exports[e].before
         /\ Opened(e) => exports[e].name \in DOMAIN files /\ WrittenOrShared(e)
    /\ recorded \subseteq DOMAIN files

ExportStage == {"called", "looking", "named", "writing", "written", "answered", "failed"}
ExportRow == [stage : ExportStage, name : FileName \union {Unnamed}, before : SUBSET DOMAIN files]

\* A step of one export that leaves the files alone.
LEMMA ExportStepKeepsFiles ==
    ASSUME FilesCore, NEW e \in Export, NEW x \in ExportRow,
           exports' = [exports EXCEPT ![e] = x], UNCHANGED <<files, recorded, second>>,
           Taken(e) => x.name = exports[e].name
                         /\ x.stage \in {"named", "writing", "written", "answered", "failed"},
           x.stage \notin {"called", "failed"} => x.name # Unnamed,
           x.stage = "named" => x.name \notin x.before,
           x.stage \notin {"writing", "written", "answered"}
    PROVE  FilesCore'
  <1>1. /\ exports'[e] = x /\ \A o \in Export \ {e} : exports'[o] = exports[o]
    BY DEF FilesCore, ExportFilesTypeOK
  <1>2. ExportFilesTypeOK'
    BY DEF FilesCore, ExportFilesTypeOK, ExportRow, ExportStage
  <1>3. \A o \in Export : Taken(o) => Taken(o)' /\ exports'[o].name = exports[o].name
    BY <1>1 DEF Taken
  <1>4. ASSUME NEW o \in Export, o # e, Opened(o) PROVE WrittenOrShared(o)'
    BY <1>1, <1>3, <1>4 DEF FilesCore, WrittenOrShared
  <1>5. ~ Opened(e)'
    BY <1>1 DEF Opened
  <1>6. \A o \in Export \ {e} : Opened(o)' <=> Opened(o)
    BY <1>1 DEF Opened
  <1>7. QED
    BY <1>1, <1>2, <1>4, <1>5, <1>6 DEF FilesCore

\* What a file holds matters to those alone who have its name.
LEMMA FileStepKeepsFiles ==
    ASSUME FilesCore, NEW e \in Export, NEW x \in ExportRow',
           exports' = [exports EXCEPT ![e] = x], x.name = exports[e].name,
           x.before = exports[e].before, x.name \in FileName, x.name \notin x.before,
           Taken(e), x.stage \in {"writing", "written", "answered"},
           files' \in [DOMAIN files' -> [rows : SUBSET Export, whole : BOOLEAN]],
           DOMAIN files' = DOMAIN files \union {x.name},
           \A f \in DOMAIN files : f # x.name => files'[f] = files[f],
           WrittenOrShared(e)',
           recorded' \subseteq DOMAIN files', recorded' \subseteq FileName, UNCHANGED second
    PROVE  FilesCore'
  <1>1. /\ exports'[e] = x /\ \A o \in Export \ {e} : exports'[o] = exports[o]
    BY DEF FilesCore, ExportFilesTypeOK
  <1>2. ExportFilesTypeOK'
    <2>1. DOMAIN files' \subseteq FileName
      BY DEF FilesCore, ExportFilesTypeOK
    <2>2. exports' \in [Export -> ExportRow']
      <3>1. \A o \in Export \ {e} : exports[o] \in ExportRow'
        BY DEF FilesCore, ExportFilesTypeOK, ExportRow, ExportStage
      <3>2. QED
        BY <3>1 DEF FilesCore, ExportFilesTypeOK
    <2>3. QED
      BY <2>1, <2>2 DEF FilesCore, ExportFilesTypeOK, ExportRow, ExportStage
  <1>3. Taken(e)'
    BY <1>1 DEF Taken
  <1>4. \A o \in Export : Taken(o) => Taken(o)' /\ exports'[o].name = exports[o].name
    BY <1>1, <1>3 DEF Taken
  <1>5. ASSUME NEW o \in Export \ {e}, Opened(o)
        PROVE  exports[o].name \in DOMAIN files /\ WrittenOrShared(o)'
    <2>1. exports[o].name \in DOMAIN files /\ WrittenOrShared(o)
      BY <1>5 DEF FilesCore
    <2>2. CASE exports[o].name = x.name
      BY <1>1, <1>3, <2>1, <2>2 DEF WrittenOrShared
    <2>3. CASE exports[o].name # x.name
      BY <1>1, <1>4, <2>1, <2>3 DEF WrittenOrShared
    <2>4. QED
      BY <2>1, <2>2, <2>3
  <1>6. \A o \in Export \ {e} : Opened(o)' <=> Opened(o)
    BY <1>1 DEF Opened
  <1>7. exports'[e].name # Unnamed /\ exports'[e].name \in DOMAIN files'
    BY <1>1, ExportFilesAssumption
  <1>8. QED
    BY <1>1, <1>2, <1>5, <1>6, <1>7 DEF FilesCore

\* In every reachable state, for any number of exports: a file that was whole is left
\* alone, and a file is as its export wrote it unless its name was taken twice.
THEOREM ExportFilesInvariant == ExportFilesSpec => []ExportFilesInv
  <1>1. ExportFilesInit => FilesCore
    BY ExportFilesAssumption
       DEF ExportFilesInit, FilesCore, ExportFilesTypeOK, Opened
  <1>2. FilesCore /\ [ExportFilesNext]_exportFileVars => FilesCore'
    <2> SUFFICES ASSUME FilesCore, [ExportFilesNext]_exportFileVars PROVE FilesCore'
      OBVIOUS
    <2>1. /\ \A e \in Export : exports[e] \in ExportRow
          /\ DOMAIN files \subseteq FileName /\ Whole \subseteq DOMAIN files
          /\ files \in [DOMAIN files -> [rows : SUBSET Export, whole : BOOLEAN]]
      BY DEF FilesCore, ExportFilesTypeOK, ExportRow, ExportStage, Whole
    <2>2. CASE UNCHANGED exportFileVars
      BY <2>2 DEF exportFileVars, FilesCore, ExportFilesTypeOK, Opened, WrittenOrShared, Taken
    <2>3. CASE SecondPasses
      <3>1. second' \in 0 .. MaxSecond /\ UNCHANGED <<files, exports, recorded>>
        BY <2>3, ExportFilesAssumption DEF SecondPasses, FilesCore, ExportFilesTypeOK
      <3>2. QED
        BY <3>1 DEF FilesCore, ExportFilesTypeOK, Opened, WrittenOrShared, Taken
    <2>4. ASSUME NEW e \in Export,
                 BuildFails(e) \/ WriteFails(e) \/ TakeName(e) \/ RecordFails(e)
          PROVE  FilesCore'
      <3>1. PICK s \in {"failed", "named"} :
              /\ exports' = [exports EXCEPT ![e].stage = s]
              /\ s = "named" => exports[e].stage = "looking" /\ exports[e].name \notin DOMAIN files
              /\ UNCHANGED <<files, recorded, second>>
              /\ Taken(e) => s = "failed"
        BY <2>4 DEF BuildFails, WriteFails, TakeName, RecordFails, Exists, Taken
      <3> DEFINE x == [exports[e] EXCEPT !.stage = s]
      <3>2. x \in ExportRow /\ exports' = [exports EXCEPT ![e] = x]
        BY <2>1, <3>1 DEF ExportRow, ExportStage, FilesCore, ExportFilesTypeOK
      <3>3. x.stage = s /\ x.name = exports[e].name /\ x.before = exports[e].before
        BY <2>1 DEF ExportRow
      <3>4. exports[e].before \subseteq DOMAIN files
        BY <2>1 DEF ExportRow
      <3>5. exports[e].stage = "looking" => exports[e].name # Unnamed
        BY DEF FilesCore
      <3> HIDE DEF x
      <3>6. QED
        BY <3>1, <3>2, <3>3, <3>4, <3>5, ExportStepKeepsFiles
    <2>5. ASSUME NEW e \in Export, NEW stem \in Stem, Stamp(e, stem) PROVE FilesCore'
      <3> DEFINE n == [stem |-> stem, second |-> second, counter |-> 0]
                 x == [stage |-> "looking", before |-> Whole, name |-> n]
      <3>1. n \in FileName
        BY DEF FileName, FilesCore, ExportFilesTypeOK
      <3>2. x \in ExportRow /\ n # Unnamed /\ ~ Taken(e)
        BY <2>1, <2>5, <3>1, ExportFilesAssumption DEF ExportRow, ExportStage, Stamp, Taken
      <3>3. exports' = [exports EXCEPT ![e] = x] /\ UNCHANGED <<files, recorded, second>>
        BY <2>5 DEF Stamp
      <3> HIDE DEF n
      <3>4. QED
        BY <3>2, <3>3, ExportStepKeepsFiles
    <2>6. ASSUME NEW e \in Export, NextCandidate(e) PROVE FilesCore'
      <3> DEFINE n == [exports[e].name EXCEPT !.counter = @ + 1]
                 x == [exports[e] EXCEPT !.name = n]
      <3>1. exports[e].stage = "looking" /\ exports[e].name \in FileName
        BY <2>1, <2>6 DEF NextCandidate, FilesCore, ExportRow
      <3>2. n \in FileName
        BY <3>1 DEF FileName
      <3>3. exports' = [exports EXCEPT ![e] = x] /\ UNCHANGED <<files, recorded, second>>
        BY <2>1, <2>6 DEF NextCandidate, ExportRow
      <3> HIDE DEF n
      <3>4. x \in ExportRow /\ n # Unnamed /\ ~ Taken(e) /\ x.name = n /\ x.stage = "looking"
        BY <2>1, <3>1, <3>2, ExportFilesAssumption DEF ExportRow, Taken
      <3> HIDE DEF x
      <3>5. QED
        BY <3>3, <3>4, ExportStepKeepsFiles
    <2>7. ASSUME NEW e \in Export, OpenFile(e) \/ CloseFile(e) \/ Record(e) PROVE FilesCore'
      <3> DEFINE n == exports[e].name
      <3>1. /\ exports[e].stage \in {"named", "writing", "written"} /\ Taken(e)
            /\ n \in FileName /\ n \notin exports[e].before
            /\ exports[e].before \subseteq DOMAIN files
            /\ exports[e].stage # "named" => n \in DOMAIN files /\ WrittenOrShared(e)
        BY <2>1, <2>7
           DEF OpenFile, CloseFile, Record, FilesCore, ExportRow, Taken, Opened
      <3>2. CASE OpenFile(e)
        <4> DEFINE x == [exports[e] EXCEPT !.stage = "writing"]
        <4>1. /\ exports' = [exports EXCEPT ![e] = x] /\ UNCHANGED <<second, recorded>>
              /\ x.stage = "writing" /\ x.name = n /\ x.before = exports[e].before
          BY <2>1, <3>2 DEF OpenFile, ExportRow
        <4>2. /\ DOMAIN files' = DOMAIN files \union {n}
              /\ files' \in [DOMAIN files' -> [rows : SUBSET Export, whole : BOOLEAN]]
              /\ files'[n] = [rows |-> {}, whole |-> FALSE]
              /\ \A f \in DOMAIN files : f # n => files'[f] = files[f]
          <5>1. files' = [f \in {n} \union DOMAIN files |->
                            IF f = n THEN [rows |-> {}, whole |-> FALSE] ELSE files[f]]
            BY <3>2 DEF OpenFile
          <5> HIDE DEF n
          <5>2. QED
            BY <2>1, <5>1
        <4>3. x \in ExportRow'
          BY <2>1, <4>2 DEF ExportRow, ExportStage
        <4>4. exports'[e] = x
          BY <4>1 DEF FilesCore, ExportFilesTypeOK
        <4>5. WrittenOrShared(e)'
          BY <4>1, <4>2, <4>4 DEF WrittenOrShared
        <4>6. recorded' \subseteq DOMAIN files' /\ recorded' \subseteq FileName
          BY <4>1, <4>2 DEF FilesCore, ExportFilesTypeOK
        <4> HIDE DEF x, n
        <4>7. QED
          BY <3>1, <4>1, <4>2, <4>3, <4>5, <4>6, FileStepKeepsFiles DEF n
      <3>3. CASE CloseFile(e)
        <4> DEFINE x == [exports[e] EXCEPT !.stage = "written"]
        <4>1. /\ exports' = [exports EXCEPT ![e] = x] /\ UNCHANGED <<second, recorded>>
              /\ x.stage = "written" /\ x.name = n /\ x.before = exports[e].before
          BY <2>1, <3>3 DEF CloseFile, ExportRow
        <4>2. n \in DOMAIN files /\ WrittenOrShared(e) /\ exports[e].stage = "writing"
          BY <3>1, <3>3 DEF CloseFile
        <4>3. /\ DOMAIN files' = DOMAIN files \union {n}
              /\ files' \in [DOMAIN files' -> [rows : SUBSET Export, whole : BOOLEAN]]
              /\ files'[n] = [rows |-> files[n].rows \union {e}, whole |-> TRUE]
              /\ \A f \in DOMAIN files : f # n => files'[f] = files[f]
          <5>1. files' = [files EXCEPT ![n] = [rows |-> files[n].rows \union {e}, whole |-> TRUE]]
            BY <3>3 DEF CloseFile
          <5> HIDE DEF n
          <5>2. files[n].rows \union {e} \in SUBSET Export
            BY <2>1, <4>2
          <5>3. QED
            BY <2>1, <4>2, <5>1, <5>2
        <4>4. x \in ExportRow'
          BY <2>1, <4>3 DEF ExportRow, ExportStage
        <4>5. /\ exports'[e] = x
              /\ \A o \in Export \ {e} : exports'[o] = exports[o] /\ (Taken(o)' <=> Taken(o))
          BY <4>1 DEF FilesCore, ExportFilesTypeOK, Taken
        <4>6. WrittenOrShared(e)'
          <5>1. CASE files[n] = [rows |-> {}, whole |-> FALSE]
            <6>1. files'[n] = [rows |-> {e}, whole |-> TRUE]
              BY <4>3, <5>1
            <6>2. QED
              BY <4>1, <4>5, <6>1 DEF WrittenOrShared
          <5>2. CASE \E o \in Export \ {e} : Taken(o) /\ exports[o].name = n
            BY <4>1, <4>5, <5>2 DEF WrittenOrShared
          <5>3. QED
            BY <4>2, <5>1, <5>2 DEF WrittenOrShared
        <4>7. recorded' \subseteq DOMAIN files' /\ recorded' \subseteq FileName
          BY <4>1, <4>3 DEF FilesCore, ExportFilesTypeOK
        <4> HIDE DEF x, n
        <4>8. QED
          BY <3>1, <4>1, <4>3, <4>4, <4>6, <4>7, FileStepKeepsFiles DEF n
      <3>4. CASE Record(e)
        <4> DEFINE x == [exports[e] EXCEPT !.stage = "answered"]
        <4>1. /\ exports' = [exports EXCEPT ![e] = x] /\ UNCHANGED <<second, files>>
              /\ recorded' = recorded \union {n} /\ exports[e].stage = "written"
              /\ x.stage = "answered" /\ x.name = n /\ x.before = exports[e].before
          BY <2>1, <3>4 DEF Record, ExportRow
        <4>2. n \in DOMAIN files /\ WrittenOrShared(e)
          BY <3>1, <4>1
        <4>3. /\ x \in ExportRow' /\ exports'[e] = x
              /\ \A o \in Export \ {e} : exports'[o] = exports[o] /\ (Taken(o)' <=> Taken(o))
          BY <2>1, <4>1 DEF ExportRow, ExportStage, FilesCore, ExportFilesTypeOK, Taken
        <4>4. WrittenOrShared(e)'
          BY <4>1, <4>2, <4>3 DEF WrittenOrShared
        <4>5. recorded' \subseteq DOMAIN files' /\ recorded' \subseteq FileName
          BY <3>1, <4>1, <4>2 DEF FilesCore, ExportFilesTypeOK
        <4>6. /\ DOMAIN files' = DOMAIN files \union {n}
              /\ files' \in [DOMAIN files' -> [rows : SUBSET Export, whole : BOOLEAN]]
              /\ \A f \in DOMAIN files : f # n => files'[f] = files[f]
          BY <2>1, <4>1, <4>2
        <4> HIDE DEF x, n
        <4>7. QED
          BY <3>1, <4>1, <4>3, <4>4, <4>5, <4>6, FileStepKeepsFiles DEF n
      <3>5. QED
        BY <2>7, <3>2, <3>3, <3>4
    <2>8. QED
      BY <2>2, <2>3, <2>4, <2>5, <2>6, <2>7 DEF ExportFilesNext
  <1>3. FilesCore => ExportFilesInv
    <2> SUFFICES ASSUME FilesCore PROVE ExportFilesInv
      OBVIOUS
    <2>1. ASSUME NEW e \in Export, exports[e].stage = "answered"
          PROVE  \/ files[exports[e].name] = [rows |-> {e}, whole |-> TRUE]
                 \/ \E other \in Export \ {e} : exports[other].name = exports[e].name
      BY <2>1 DEF FilesCore, Opened, WrittenOrShared
    <2>2. ExportsKeepApart
      BY <2>1 DEF ExportsKeepApart, FilesCore
    <2>3. QED
      BY <2>2 DEF ExportFilesInv, FilesCore, WrittenOrShared
  <1>4. QED
    BY <1>1, <1>2, <1>3, PTL DEF ExportFilesSpec

-----------------------------------------------------------------------------
(* The settings: profiles *)

\* NamedApart, profile by profile.
LEMMA NamedApartPairs ==
    ASSUME NEW ps \in Seq(Profile)
    PROVE  NamedApart(ps) <=>
             \A i, j \in DOMAIN ps : i # j /\ ps[i].name = ps[j].name =>
                \E d \in Document : Twice(ps[i].name, d.profiles)
  <1>1. \A i, j \in DOMAIN ps : i # j /\ ps[i].name = ps[j].name =>
           ps[i].name \in Names(ps) /\ Twice(ps[i].name, ps)
    BY DEF Names, Twice
  <1>2. \A n \in Names(ps) : Twice(n, ps) =>
           \E i, j \in DOMAIN ps : i # j /\ ps[i].name = n /\ ps[j].name = n
    BY DEF Twice
  <1>3. QED
    BY <1>1, <1>2 DEF NamedApart

LEMMA NamesAreFew ==
    ASSUME NEW ps \in Seq(Profile)
    PROVE  /\ IsFiniteSet(Names(ps)) /\ Cardinality(Names(ps)) \in Nat
           /\ Cardinality(Names(ps)) <= Len(ps)
  <1> DEFINE place == 1 .. Len(ps)
             name == [i \in place |-> ps[i].name]
  <1>1. Len(ps) \in Nat /\ DOMAIN ps = place
    OBVIOUS
  <1>2. IsFiniteSet(place) /\ Cardinality(place) = Len(ps)
    BY <1>1, FS_Interval
  <1>3. name \in Surjection(place, Names(ps))
    BY <1>1 DEF Surjection, Names
  <1> HIDE DEF name, place
  <1>4. IsFiniteSet(Names(ps)) /\ Cardinality(Names(ps)) <= Cardinality(place)
    BY <1>2, <1>3, FS_Surjection
  <1>5. QED
    BY <1>1, <1>2, <1>4, FS_CardinalityType

\* There is a number that makes a new name.
LEMMA FreshNameIsFree ==
    ASSUME NEW ps \in Seq(Profile), NEW Base, NEW base \in Base
    PROVE  FreshName(base, ps) \in Base \X Nat /\ FreshName(base, ps) \notin Names(ps)
  <1> DEFINE upto == 1 .. Len(ps) + 1
             numbered == [i \in upto |-> <<base, i>>]
             free == {i \in upto : <<base, i>> \notin Names(ps)}
  <1>1. Len(ps) \in Nat
    OBVIOUS
  <1>2. IsFiniteSet(upto) /\ Cardinality(upto) = Len(ps) + 1
    BY <1>1, FS_Interval
  <1>3. ASSUME free = {} PROVE FALSE
    <2>1. numbered \in Injection(upto, Names(ps))
      BY <1>3 DEF Injection, IsInjective
    <2> HIDE DEF numbered, upto
    <2>2. Cardinality(upto) <= Cardinality(Names(ps))
      BY <2>1, NamesAreFew, FS_Injection
    <2>3. QED
      BY <1>1, <1>2, <2>2, NamesAreFew
  <1>4. PICK n \in free : \A m \in free : n <= m
    <2>1. free \subseteq Nat
      BY <1>1
    <2> HIDE DEF free
    <2>2. QED
      BY <1>3, <2>1, LeastNumber
  <1>5. /\ <<base, n>> \in {<<base, i>> : i \in upto} /\ <<base, n>> \notin Names(ps)
        /\ \A i \in 1 .. <<base, n>>[2] - 1 : <<base, i>> \in Names(ps)
    BY <1>1, <1>4
  <1>6. /\ FreshName(base, ps) \in {<<base, i>> : i \in upto}
        /\ FreshName(base, ps) \notin Names(ps)
    BY <1>5 DEF FreshName
  <1>7. PICK i \in upto : FreshName(base, ps) = <<base, i>>
    BY <1>6
  <1>8. i \in Nat
    BY <1>1
  <1>9. QED
    BY <1>6, <1>7, <1>8

\* Whatever a page does to the list gives no name twice.
LEMMA ListKeepsNamesApart ==
    ASSUME NEW ps \in Seq(Profile), NamedApart(ps)
    PROVE  /\ \A base \in STRING :
                LET new == Append(ps, [name |-> FreshName(base, ps), on |-> TRUE])
                IN  new \in Seq(Profile) /\ NamedApart(new)
           /\ \A i \in DOMAIN ps :
                /\ [ps EXCEPT ![i].on = ~ @] \in Seq(Profile)
                /\ NamedApart([ps EXCEPT ![i].on = ~ @])
                /\ Without(ps, i) \in Seq(Profile) /\ NamedApart(Without(ps, i))
  <1> DEFINE Imported(n) == \E d \in Document : Twice(n, d.profiles)
  <1>0. /\ Len(ps) \in Nat /\ DOMAIN ps = 1 .. Len(ps) /\ \A i \in DOMAIN ps : ps[i] \in Profile
        /\ \A i, j \in DOMAIN ps : i # j /\ ps[i].name = ps[j].name => Imported(ps[i].name)
    BY NamedApartPairs
  <1>a. ASSUME NEW q \in Seq(Profile),
               \A i, j \in DOMAIN q : i # j /\ q[i].name = q[j].name => Imported(q[i].name)
        PROVE  NamedApart(q)
    BY <1>a, NamedApartPairs
  <1> HIDE DEF Imported
  <1>1. ASSUME NEW base \in STRING
        PROVE  LET new == Append(ps, [name |-> FreshName(base, ps), on |-> TRUE])
               IN  new \in Seq(Profile) /\ NamedApart(new)
    <2> DEFINE p == [name |-> FreshName(base, ps), on |-> TRUE]
               new == Append(ps, p)
    <2>1. p \in Profile /\ \A i \in DOMAIN ps : ps[i].name # p.name
      BY FreshNameIsFree DEF Profile, Names
    <2> HIDE DEF p
    <2>2. /\ new \in Seq(Profile) /\ DOMAIN new = 1 .. Len(ps) + 1
          /\ \A i \in DOMAIN ps : new[i] = ps[i]
          /\ new[Len(ps) + 1] = p
      BY <2>1
    <2> HIDE DEF new
    <2>3. NamedApart(new)
      BY <1>0, <1>a, <2>1, <2>2
    <2>4. QED
      BY <2>2, <2>3 DEF new, p
  <1>2. ASSUME NEW i \in DOMAIN ps
        PROVE  /\ [ps EXCEPT ![i].on = ~ @] \in Seq(Profile)
               /\ NamedApart([ps EXCEPT ![i].on = ~ @])
    <2> DEFINE q == [ps[i] EXCEPT !.on = ~ @]
               new == [ps EXCEPT ![i] = q]
    <2>1. q \in Profile /\ q.name = ps[i].name
      BY <1>0 DEF Profile
    <2>2. [ps EXCEPT ![i].on = ~ @] = new
      BY <1>0
    <2> HIDE DEF q
    <2>3. /\ new \in Seq(Profile) /\ DOMAIN new = DOMAIN ps
          /\ \A j \in DOMAIN ps : new[j].name = ps[j].name
      BY <1>0, <2>1
    <2> HIDE DEF new
    <2>4. NamedApart(new)
      BY <1>0, <1>a, <2>3
    <2>5. QED
      BY <2>2, <2>3, <2>4
  <1>3. ASSUME NEW i \in DOMAIN ps
        PROVE  Without(ps, i) \in Seq(Profile) /\ NamedApart(Without(ps, i))
    <2> DEFINE new == Without(ps, i)
               old(j) == IF j < i THEN j ELSE j + 1
    <2>1. /\ new \in Seq(Profile) /\ DOMAIN new = 1 .. Len(ps) - 1
          /\ \A j \in DOMAIN new : old(j) \in DOMAIN ps /\ new[j] = ps[old(j)]
      BY <1>0, <1>3 DEF Without
    <2>2. \A j, k \in DOMAIN new : j # k => old(j) # old(k)
      BY <1>0, <2>1
    <2> HIDE DEF new, old
    <2>3. NamedApart(new)
      BY <1>0, <1>a, <2>1, <2>2
    <2>4. QED
      BY <2>1, <2>3 DEF new
  <1>4. QED
    BY <1>1, <1>2, <1>3

-----------------------------------------------------------------------------
(* The settings: merging *)

LEMMA MergedForm ==
    ASSUME NEW s \in Settings, NEW f \in Form
    PROVE  DeepMerge(s, [theme |-> f.theme, api |-> [enabled |-> f.api],
                         disk |-> [warning |-> f.warning, critical |-> f.critical]])
             = [theme |-> f.theme,
                disk |-> [warning |-> f.warning, critical |-> f.critical],
                api |-> [host |-> s.api.host, enabled |-> f.api],
                profiles |-> s.profiles]
  BY DEF DeepMerge, Over, Settings, Form

LEMMA MergedList ==
    ASSUME NEW s \in Settings, NEW ps
    PROVE  DeepMerge(s, [profiles |-> ps]) = [s EXCEPT !.profiles = ps]
  BY DEF DeepMerge, Over, Settings

LEMMA MergedDocument ==
    ASSUME NEW s \in Settings, NEW d \in Settings
    PROVE  DeepMerge(s, d) = d
  BY DEF DeepMerge, Over, Settings

LEMMA WholePercents ==
    /\ \A p \in FormPercent : Truncated(p) = p /\ p \in Percent
    /\ \A p \in Percent : Truncated(p) \in FormPercent
  <1>1. \A n \in 1 .. 100 : (10 * n) \div 10 = n
    OBVIOUS
  <1>2. \A p \in Percent : p \div 10 \in 1 .. 100
    BY DEF Percent
  <1>3. QED
    BY <1>1, <1>2 DEF FormPercent, Percent, Truncated

LEMMA ShownIsAForm ==
    ASSUME NEW s \in Settings
    PROVE  Shown(s) \in Form
  BY WholePercents DEF Settings, Form, Shown

\* A document with all its sections, in order, that validates.
Good(s) == /\ s \in Settings /\ s.disk.warning <= s.disk.critical /\ NamedApart(s.profiles)

LEMMA GoodIsSound ==
    ASSUME NEW s \in Settings
    PROVE  Sound(s) <=> Good(s)
  BY DEF Sound, Good, Valid, Settings, Percent, Defaults

LEMMA DefaultsAreGood == Good(Defaults)
  <1>1. Defaults \in Settings
    <2>1. Defaults.theme \in Theme /\ Defaults.api.host \in Host
      BY DEF Defaults, Theme, Host
    <2>2. << >> \in Seq(Profile)
      OBVIOUS
    <2>3. 800 \in Percent /\ 900 \in Percent
      BY DEF Percent
    <2>4. QED
      BY <2>1, <2>2, <2>3 DEF Defaults, Settings
  <1>2. QED
    BY <1>1 DEF Good, Defaults, NamedApart, Names

-----------------------------------------------------------------------------
(* The settings: the windows *)

\* What holds of a window, whatever the others do.
WindowOK(w) ==
    /\ page[w] = "down" => saving[w] = Nothing /\ asking[w] = Nothing
    /\ page[w] # "down" => form[w] \in Form /\ Good(cache[w])
    /\ asking[w] # Nothing => page[w] = "backups" /\ saving[w] = Nothing
    /\ saving[w] # Nothing =>
         /\ Good(saving[w].new) /\ (writer = w => saving[w].new = stored)
         /\ page[w] = IF saving[w].caller = "profiles" THEN "backups" ELSE "settings"
         /\ saving[w].caller = "save" => Shown(saving[w].new) = form[w]
         /\ saving[w].caller = "profiles" => Shown(saving[w].new) = Shown(cache[w])
    /\ writer = w /\ page[w] # "down" /\ saving[w] = Nothing => cache[w] = stored
    /\ page[w] # "down" =>
         /\ "form" \notin behind[w] =>
              \A f \in DOMAIN form[w] \ edited[w] : form[w][f] = Shown(cache[w])[f]
         /\ page[w] = "backups" /\ "table" \notin behind[w] => table[w] = cache[w].profiles

StoredOK ==
    /\ stored \in {Nothing, Corrupt} \/ Good(stored)
    /\ writer # Nothing => stored \in Settings

SettingsCore == SettingsTypeOK /\ StoredOK /\ \A w \in Window : WindowOK(w)

\* A step of one window: it changes nothing of the others, and what they all read
\* only by writing it.
StepOf(w) ==
    /\ \A v \in Window \ {w} :
         /\ cache'[v] = cache[v] /\ saving'[v] = saving[v] /\ page'[v] = page[v]
         /\ form'[v] = form[v] /\ edited'[v] = edited[v] /\ table'[v] = table[v]
         /\ asking'[v] = asking[v] /\ behind'[v] = behind[v]
    /\ UNCHANGED <<stored, writer>> \/ writer' = w

LEMMA OthersKeepOK ==
    ASSUME SettingsCore, NEW w \in Window, StepOf(w), SettingsTypeOK', StoredOK', WindowOK(w)'
    PROVE  SettingsCore'
  <1>1. ASSUME NEW v \in Window, v # w PROVE WindowOK(v)'
    <2>1. /\ cache'[v] = cache[v] /\ saving'[v] = saving[v] /\ page'[v] = page[v]
          /\ form'[v] = form[v] /\ edited'[v] = edited[v] /\ table'[v] = table[v]
          /\ asking'[v] = asking[v] /\ behind'[v] = behind[v]
          /\ writer' = v => UNCHANGED <<stored, writer>>
      BY <1>1 DEF StepOf
    <2>2. WindowOK(v)
      BY DEF SettingsCore
    <2>3. QED
      BY <2>1, <2>2 DEF WindowOK, Good
  <1>2. QED
    BY <1>1 DEF SettingsCore

LEMMA OpenKeepsOK ==
    ASSUME SettingsCore, NEW w \in Window, OpenWindow(w)
    PROVE  SettingsCore'
  <1> USE DEF SettingsCore, SettingsTypeOK
  <1>1. /\ page[w] = "down" /\ saving[w] = Nothing /\ asking[w] = Nothing
        /\ UNCHANGED <<stored, writer, updates, saving, asking>>
    BY DEF OpenWindow, WindowOK
  <1>2. Good(Loaded) /\ (writer # Nothing => Loaded = stored)
    BY DefaultsAreGood, SettingsAssumption DEF Loaded, StoredOK
  <1>3. Shown(Loaded) \in Form /\ Loaded \in Settings /\ Loaded.profiles \in Seq(Profile)
    BY <1>2, ShownIsAForm DEF Good, Settings
  <1>4. /\ cache' = [cache EXCEPT ![w] = Loaded]
        /\ page' = [page EXCEPT ![w] = "dashboard"]
        /\ form' = [form EXCEPT ![w] = Shown(Loaded)]
        /\ edited' = [edited EXCEPT ![w] = {}]
        /\ table' = [table EXCEPT ![w] = << >>]
        /\ behind' = [behind EXCEPT ![w] = {}]
    BY DEF OpenWindow
  <1>5. SettingsTypeOK'
    BY <1>1, <1>3, <1>4
  <1>6. StoredOK' /\ StepOf(w)
    BY <1>1, <1>4 DEF StoredOK, StepOf
  <1>7. WindowOK(w)'
    BY <1>1, <1>2, <1>3, <1>4, SettingsAssumption DEF WindowOK
  <1>8. QED
    BY <1>5, <1>6, <1>7, OthersKeepOK

LEMMA CloseKeepsOK ==
    ASSUME SettingsCore, NEW w \in Window, CloseWindow(w)
    PROVE  SettingsCore'
  <1> USE DEF SettingsCore, SettingsTypeOK
  <1>1. SettingsTypeOK'
    BY DEF CloseWindow
  <1>2. StoredOK' /\ StepOf(w)
    BY DEF CloseWindow, StoredOK, StepOf
  <1>3. WindowOK(w)'
    BY DEF CloseWindow, WindowOK
  <1>4. QED
    BY <1>1, <1>2, <1>3, OthersKeepOK

LEMMA NavigateKeepsOK ==
    ASSUME SettingsCore, NEW w \in Window, NEW p \in {"settings", "backups"}, Navigate(w, p)
    PROVE  SettingsCore'
  <1> USE DEF SettingsCore, SettingsTypeOK, Ready
  <1>1. /\ page[w] # "down" /\ saving[w] = Nothing /\ asking[w] = Nothing
        /\ page' = [page EXCEPT ![w] = p]
        /\ table' = IF p = "backups" THEN [table EXCEPT ![w] = cache[w].profiles] ELSE table
        /\ behind' = IF p = "backups" THEN [behind EXCEPT ![w] = behind[w] \ {"table"}]
                     ELSE behind
        /\ UNCHANGED <<stored, writer, updates, cache, saving, form, edited, asking>>
    BY DEF Navigate
  <1>2. cache[w].profiles \in Seq(Profile)
    BY <1>1 DEF WindowOK, Good, Settings
  <1>3. SettingsTypeOK'
    BY <1>1, <1>2
  <1>4. StoredOK' /\ StepOf(w)
    BY <1>1 DEF StoredOK, StepOf
  <1>5. WindowOK(w)'
    BY <1>1 DEF WindowOK
  <1>6. QED
    BY <1>3, <1>4, <1>5, OthersKeepOK

LEMMA EditKeepsOK ==
    ASSUME SettingsCore, NEW w \in Window, NEW f \in Field, EditForm(w, f)
    PROVE  SettingsCore'
  <1> USE DEF SettingsCore, SettingsTypeOK, Ready
  <1>1. /\ page[w] = "settings" /\ saving[w] = Nothing /\ asking[w] = Nothing
        /\ form' = [form EXCEPT ![w] = Over(f, form[w])]
        /\ edited' = [edited EXCEPT ![w] = edited[w] \union DOMAIN f]
        /\ UNCHANGED <<stored, writer, updates, cache, saving, page, table, asking, behind>>
        /\ form[w] \in Form
    BY DEF EditForm, WindowOK
  <1>2. /\ DOMAIN f \subseteq {"theme", "warning", "critical", "api"}
        /\ \A k \in DOMAIN f : f[k] \in IF k = "theme" THEN Theme
                                       ELSE IF k = "api" THEN BOOLEAN ELSE FormPercent
    BY SettingsAssumption
  <1>3. Over(f, form[w]) \in Form
    BY <1>1, <1>2 DEF Over, Form
  <1>4. \A k \in DOMAIN form[w] \ DOMAIN f : Over(f, form[w])[k] = form[w][k]
    BY DEF Over
  <1>5. DOMAIN Over(f, form[w]) = DOMAIN form[w]
    BY <1>1, <1>3 DEF Form
  <1>6. SettingsTypeOK'
    BY <1>1, <1>2, <1>3
  <1>7. StoredOK' /\ StepOf(w)
    BY <1>1 DEF StoredOK, StepOf
  <1>8. WindowOK(w)'
    BY <1>1, <1>3, <1>4, <1>5 DEF WindowOK
  <1>9. QED
    BY <1>6, <1>7, <1>8, OthersKeepOK

\* An update: the changes that a page makes of what it shows, saved.
LEMMA SaveKeepsOK ==
    ASSUME SettingsCore, NEW w \in Window, NEW partial,
           NEW caller \in {"save", "import", "profiles"},
           page[w] # "down", saving[w] = Nothing,
           Save(w, partial, caller),
           DeepMerge(cache[w], partial) \in Settings,
           NamedApart(DeepMerge(cache[w], partial).profiles),
           page[w] = IF caller = "profiles" THEN "backups" ELSE "settings",
           caller = "save" => Shown(DeepMerge(cache[w], partial)) = form[w],
           caller = "profiles" => Shown(DeepMerge(cache[w], partial)) = Shown(cache[w]),
           UNCHANGED <<cache, page, form, edited, table, behind>>,
           asking' = [asking EXCEPT ![w] = Nothing]
    PROVE  SettingsCore'
  <1> DEFINE new == DeepMerge(cache[w], partial)
             pending == [new |-> new, caller |-> caller]
  <1> USE DEF SettingsCore, SettingsTypeOK
  <1>1. /\ updates < MaxUpdate /\ updates' = updates + 1
        /\ stored' = new /\ writer' = w
        /\ saving' = [saving EXCEPT ![w] = pending]
    BY DEF Save
  <1>2. Good(new)
    BY DEF Save, Valid, Good
  <1>3. pending \in Pending /\ pending.new = new /\ pending.caller = caller
    BY <1>2 DEF Pending, Good
  <1>4. new \notin {Nothing, Corrupt} /\ pending # Nothing /\ w # Nothing
    BY <1>2, <1>3, SettingsAssumption DEF Good
  <1> HIDE DEF pending, new
  <1>5. SettingsTypeOK'
    <2>1. updates' \in 0 .. MaxUpdate
      BY <1>1, SettingsAssumption
    <2>2. QED
      BY <1>1, <1>2, <1>3, <2>1 DEF Good
  <1>6. StoredOK' /\ StepOf(w)
    BY <1>1, <1>2 DEF StoredOK, StepOf, Good
  <1>7. WindowOK(w)'
    BY <1>1, <1>2, <1>3, <1>4 DEF WindowOK, new
  <1>8. QED
    BY <1>5, <1>6, <1>7, OthersKeepOK

LEMMA SaveFormKeepsOK ==
    ASSUME SettingsCore, NEW w \in Window, SaveForm(w)
    PROVE  SettingsCore'
  <1> USE DEF SettingsCore, SettingsTypeOK
  <1>1. /\ page[w] = "settings" /\ saving[w] = Nothing /\ asking[w] = Nothing
        /\ form[w] \in Form /\ cache[w] \in Settings /\ NamedApart(cache[w].profiles)
        /\ UNCHANGED <<cache, page, form, edited, table, asking, behind>>
    BY DEF SaveForm, Ready, WindowOK, Good
  <1>2. CASE Save(w, FormChanges(w), "save")
    <2> DEFINE new == DeepMerge(cache[w], FormChanges(w))
    <2>1. new = [theme |-> form[w].theme,
                 disk |-> [warning |-> form[w].warning, critical |-> form[w].critical],
                 api |-> [host |-> cache[w].api.host, enabled |-> form[w].api],
                 profiles |-> cache[w].profiles]
      BY <1>1, MergedForm DEF FormChanges
    <2>2. /\ Truncated(form[w].warning) = form[w].warning /\ form[w].warning \in Percent
          /\ Truncated(form[w].critical) = form[w].critical /\ form[w].critical \in Percent
      BY <1>1, WholePercents DEF Form
    <2> HIDE DEF new
    <2>3. new \in Settings
      BY <1>1, <2>1, <2>2 DEF Settings, Form
    <2>4. Shown(new) = form[w]
      BY <1>1, <2>1, <2>2 DEF Shown, Form
    <2>5. NamedApart(new.profiles)
      BY <1>1, <2>1
    <2>6. asking' = [asking EXCEPT ![w] = Nothing]
      BY <1>1
    <2>7. QED
      BY <1>1, <1>2, <2>3, <2>4, <2>5, <2>6, SaveKeepsOK DEF new
  <1>3. CASE Refused(w, FormChanges(w))
    <2>1. UNCHANGED settingsVars
      BY <1>1, <1>3 DEF Refused, settingsVars
    <2>2. QED
      BY <2>1 DEF settingsVars, StoredOK, WindowOK, Good
  <1>4. QED
    BY <1>2, <1>3 DEF SaveForm

LEMMA ImportKeepsOK ==
    ASSUME SettingsCore, NEW w \in Window, NEW d \in Document, ImportSettings(w, d)
    PROVE  SettingsCore'
  <1> USE DEF SettingsCore, SettingsTypeOK
  <1>1. /\ page[w] = "settings" /\ saving[w] = Nothing /\ asking[w] = Nothing
        /\ cache[w] \in Settings /\ Save(w, d, "import")
        /\ UNCHANGED <<cache, page, form, edited, table, asking, behind>>
    BY DEF ImportSettings, Ready, WindowOK, Good
  <1>2. d \in Settings /\ DeepMerge(cache[w], d) = d
    BY <1>1, SettingsAssumption, MergedDocument
  <1>3. NamedApart(d.profiles)
    BY DEF NamedApart
  <1>4. asking' = [asking EXCEPT ![w] = Nothing]
    BY <1>1
  <1>5. QED
    BY <1>1, <1>2, <1>3, <1>4, SaveKeepsOK

\* The list of profiles, changed on the page of the backups.
LEMMA ListChangeKeepsOK ==
    ASSUME SettingsCore, NEW w \in Window, NEW ps \in Seq(Profile), NamedApart(ps),
           page[w] = "backups", saving[w] = Nothing,
           Save(w, [profiles |-> ps], "profiles"),
           UNCHANGED <<cache, page, form, edited, table, behind>>,
           asking' = [asking EXCEPT ![w] = Nothing]
    PROVE  SettingsCore'
  <1>1. cache[w] \in Settings
    BY DEF SettingsCore, WindowOK, Good
  <1>2. DeepMerge(cache[w], [profiles |-> ps]) = [cache[w] EXCEPT !.profiles = ps]
    BY <1>1, MergedList
  <1>3. /\ [cache[w] EXCEPT !.profiles = ps] \in Settings
        /\ [cache[w] EXCEPT !.profiles = ps].profiles = ps
        /\ Shown([cache[w] EXCEPT !.profiles = ps]) = Shown(cache[w])
    BY <1>1 DEF Settings, Shown
  <1>4. QED
    BY <1>2, <1>3, SaveKeepsOK

LEMMA ProfilesKeepOK ==
    ASSUME SettingsCore, NEW w \in Window,
           \/ \E base \in BaseName : AddProfile(w, base)
           \/ \E i \in DOMAIN table[w] : ToggleProfile(w, i)
           \/ \E yes \in BOOLEAN : AnswerDelete(w, yes)
    PROVE  SettingsCore'
  <1> USE DEF SettingsCore, SettingsTypeOK
  <1>1. page[w] = "backups" /\ saving[w] = Nothing
    BY DEF AddProfile, ToggleProfile, AnswerDelete, Ready, WindowOK
  <1>2. cache[w].profiles \in Seq(Profile) /\ NamedApart(cache[w].profiles)
    BY <1>1 DEF WindowOK, Good, Settings
  <1>3. ASSUME NEW base \in BaseName, AddProfile(w, base) PROVE SettingsCore'
    <2>1. base \in STRING
      BY SettingsAssumption
    <2>2. asking' = [asking EXCEPT ![w] = Nothing]
      BY <1>3 DEF AddProfile, Ready
    <2>3. QED
      BY <1>1, <1>2, <1>3, <2>1, <2>2, ListKeepsNamesApart, ListChangeKeepsOK DEF AddProfile
  <1>4. ASSUME NEW i \in DOMAIN table[w], ToggleProfile(w, i) PROVE SettingsCore'
    <2>1. asking' = [asking EXCEPT ![w] = Nothing]
      BY <1>4 DEF ToggleProfile, Ready
    <2>2. QED
      BY <1>1, <1>2, <1>4, <2>1, ListKeepsNamesApart, ListChangeKeepsOK DEF ToggleProfile
  <1>5. ASSUME NEW yes \in BOOLEAN, AnswerDelete(w, yes) PROVE SettingsCore'
    <2>1. CASE yes
      BY <1>1, <1>2, <1>5, <2>1, ListKeepsNamesApart, ListChangeKeepsOK DEF AnswerDelete
    <2>2. CASE ~ yes
      <3>1. /\ asking' = [asking EXCEPT ![w] = Nothing]
            /\ UNCHANGED <<stored, writer, updates, saving, cache, page, form, edited, table,
                           behind>>
        BY <1>5, <2>2 DEF AnswerDelete
      <3>2. SettingsTypeOK' /\ StoredOK' /\ StepOf(w) /\ WindowOK(w)'
        BY <3>1 DEF StoredOK, StepOf, WindowOK
      <3>3. QED
        BY <3>2, OthersKeepOK
    <2>3. QED
      BY <2>1, <2>2
  <1>6. QED
    BY <1>3, <1>4, <1>5

LEMMA AskKeepsOK ==
    ASSUME SettingsCore, NEW w \in Window, NEW i \in DOMAIN table[w], AskDelete(w, i)
    PROVE  SettingsCore'
  <1> USE DEF SettingsCore, SettingsTypeOK
  <1>1. /\ page[w] = "backups" /\ saving[w] = Nothing
        /\ asking' = [asking EXCEPT ![w] = i] /\ i \in Nat
        /\ UNCHANGED <<stored, writer, updates, cache, saving, page, form, edited, table,
                       behind>>
    BY DEF AskDelete, Ready
  <1>2. SettingsTypeOK' /\ StoredOK' /\ StepOf(w) /\ WindowOK(w)'
    BY <1>1 DEF StoredOK, StepOf, WindowOK
  <1>3. QED
    BY <1>2, OthersKeepOK

\* The end of an update, whether or not it could be recorded.
LEMMA SavedKeepsOK ==
    ASSUME SettingsCore, NEW w \in Window, Saved(w) \/ SavedUnrecorded(w)
    PROVE  SettingsCore'
  <1> USE DEF SettingsCore, SettingsTypeOK
  <1> DEFINE new == saving[w].new
             caller == saving[w].caller
  <1>1. /\ saving[w] # Nothing /\ saving[w] \in Pending /\ new \in Settings
        /\ caller \in {"save", "import", "profiles"} /\ Good(new)
        /\ page[w] # "down" /\ asking[w] = Nothing /\ WindowOK(w)
    BY DEF Saved, SavedUnrecorded, Cached, Pending, WindowOK
  <1>2. Shown(new) \in Form /\ new.profiles \in Seq(Profile)
    BY <1>1, ShownIsAForm DEF Settings
  <1>3. /\ cache' = [cache EXCEPT ![w] = new]
        /\ saving' = [saving EXCEPT ![w] = Nothing]
        /\ UNCHANGED <<stored, writer, updates, page, asking>>
    BY DEF Saved, SavedUnrecorded, Cached, PagesShow
  <1>4. /\ writer = w => new = stored
        /\ page[w] = IF caller = "profiles" THEN "backups" ELSE "settings"
        /\ caller = "save" => Shown(new) = form[w]
        /\ caller = "profiles" => Shown(new) = Shown(cache[w])
    BY <1>1 DEF WindowOK
  <1>5. CASE Saved(w)
    <2>1. /\ form' = IF caller = "import" THEN [form EXCEPT ![w] = Shown(new)] ELSE form
          /\ edited' = IF caller = "profiles" THEN edited ELSE [edited EXCEPT ![w] = {}]
          /\ table' = IF caller = "profiles" THEN [table EXCEPT ![w] = new.profiles] ELSE table
          /\ behind' = [behind EXCEPT ![w] =
                          behind[w] \ {IF caller = "profiles" THEN "table" ELSE "form"}]
      BY <1>5 DEF Saved, PagesShow
    <2> HIDE DEF new, caller
    <2>2. SettingsTypeOK'
      BY <1>1, <1>2, <1>3, <2>1
    <2>3. StoredOK' /\ StepOf(w)
      BY <1>3, <2>1 DEF StoredOK, StepOf
    <2>4. WindowOK(w)'
      BY <1>1, <1>2, <1>3, <1>4, <2>1 DEF WindowOK
    <2>5. QED
      BY <2>2, <2>3, <2>4, OthersKeepOK
  <1>6. CASE SavedUnrecorded(w)
    <2>1. /\ edited' = IF caller = "save" THEN [edited EXCEPT ![w] = {}] ELSE edited
          /\ behind' = [behind EXCEPT ![w] =
                          IF caller = "save" THEN behind[w] \ {"form"}
                          ELSE behind[w] \union {IF caller = "import" THEN "form" ELSE "table"}]
          /\ UNCHANGED <<form, table>>
      BY <1>6 DEF SavedUnrecorded
    <2> HIDE DEF new, caller
    <2>2. SettingsTypeOK'
      BY <1>1, <1>2, <1>3, <2>1
    <2>3. StoredOK' /\ StepOf(w)
      BY <1>3, <2>1 DEF StoredOK, StepOf
    <2>4. WindowOK(w)'
      BY <1>1, <1>2, <1>3, <1>4, <2>1 DEF WindowOK
    <2>5. QED
      BY <2>2, <2>3, <2>4, OthersKeepOK
  <1>7. QED
    BY <1>5, <1>6

LEMMA SettingsInitOK == SettingsInit => SettingsCore
  <1> SUFFICES ASSUME SettingsInit PROVE SettingsCore
    OBVIOUS
  <1>2. SettingsTypeOK
    BY SettingsAssumption, DefaultsAreGood DEF SettingsInit, SettingsTypeOK, Good
  <1>3. StoredOK
    BY DefaultsAreGood DEF SettingsInit, StoredOK
  <1>4. \A w \in Window : WindowOK(w)
    BY DEF SettingsInit, WindowOK
  <1>5. QED
    BY <1>2, <1>3, <1>4 DEF SettingsCore

LEMMA SettingsStep == SettingsCore /\ [SettingsNext]_settingsVars => SettingsCore'
  <1>1. ASSUME SettingsCore, NEW w \in Window, WindowNext(w) PROVE SettingsCore'
    BY <1>1, OpenKeepsOK, CloseKeepsOK, NavigateKeepsOK, EditKeepsOK, SaveFormKeepsOK,
       ImportKeepsOK, ProfilesKeepOK, AskKeepsOK, SavedKeepsOK DEF WindowNext
  <1>2. ASSUME SettingsCore, UNCHANGED settingsVars PROVE SettingsCore'
    BY <1>2 DEF settingsVars, SettingsCore, SettingsTypeOK, StoredOK, WindowOK, Good
  <1>3. QED
    BY <1>1, <1>2 DEF SettingsNext

\* Every window, whatever the others write, keeps to WindowOK.
LEMMA SettingsCoreHolds == SettingsSpec => []SettingsCore
  BY SettingsInitOK, SettingsStep, PTL DEF SettingsSpec

\* What is stored after an update and what any window works with validates, has all
\* its sections, and gives no two profiles one name but what an imported file gave
\* twice: for any number of windows that write over each other's document, and any
\* files (SettingsService.update, import_from, _deep_merge).
THEOREM SettingsInvariant == SettingsSpec => []SettingsInv
  <1>1. SettingsCore => SettingsInv
    BY GoodIsSound
       DEF SettingsCore, SettingsInv, SettingsSound, SettingsTypeOK, StoredOK, WindowOK, Good
  <1>2. QED
    BY <1>1, SettingsCoreHolds, PTL

\* The window that wrote last works with what is stored (SettingsService.update).
THEOREM LastWriterInvariant == SettingsSpec => []LastWriterAgrees
  <1>1. SettingsCore => LastWriterAgrees
    BY DEF SettingsCore, LastWriterAgrees, WindowOK
  <1>2. QED
    BY <1>1, SettingsCoreHolds, PTL

\* What the form shows unedited and the rows of profiles that a click counts in are
\* what the window works with, unless the last update of the page could not be
\* recorded (SettingsView._load, BackupView._on_delete_profile).
THEOREM PagesInvariant == SettingsSpec => []PagesCurrent
  <1>1. SettingsCore => PagesCurrent
    BY DEF SettingsCore, PagesCurrent, WindowOK
  <1>2. QED
    BY <1>1, SettingsCoreHolds, PTL

-----------------------------------------------------------------------------
(* The analysis of a log: counts *)

\* What the counting has read, of which the first n count as a level, and the errors of
\* a minute.
LevelUpTo(a, n, level) == {i \in 1 .. n : LevelOf(a.parser, a.taken[i].text) = level}
ErrorsUpTo(a, n, minute) ==
    {i \in 1 .. n : /\ Timed(a.parser, a.taken[i].text)
                    /\ a.taken[i].text.level = "ERROR" /\ a.taken[i].text.at = minute}

LogStage == {"sampling", "reading", "stamping", "done", "cancelled", "failed"}
PieceType == [line : Nat, text : LogLine, part : BOOLEAN]
Analysis == [stage : LogStage, cancelled : BOOLEAN, parser : {"python", "syslog", "generic"},
             read : Nat, parts : Nat, total : Nat, buffer : Seq(LogLine),
             counts : [LogLevel -> Nat], errors : [Minute -> Nat], stamps : Seq(Nat),
             taken : Seq(PieceType), end : Nat]

LogTypeOK ==
    /\ log \in Seq(LogLine) /\ tail \in Seq(LogLine)
    /\ analysis \in Analysis /\ analysis.read <= Len(log)

\* What is counted is what was read before the pieces in the buffer, which are the last.
CountedSoFar(a) ==
    LET n == a.total - Len(a.buffer)
    IN  /\ Len(a.buffer) <= a.total
        /\ \A i \in 1 .. Len(a.buffer) : a.buffer[i] = a.taken[n + i].text
        /\ \A l \in LogLevel : a.counts[l] = Cardinality(LevelUpTo(a, n, l))
        /\ \A m \in Minute : a.errors[m] = Cardinality(ErrorsUpTo(a, n, m))

NothingCounted(a) ==
    /\ a.total = 0 /\ a.taken = << >>
    /\ \A l \in LogLevel : a.counts[l] = 0
    /\ \A m \in Minute : a.errors[m] = 0

\* Each of the first n lines was read once, whole, or in parts; a later one in parts.
LinesTaken(a, lines, n) ==
    /\ n <= Len(lines)
    /\ \A k \in DOMAIN a.taken :
         /\ a.taken[k].line \in 1 .. n \/ a.taken[k].part
         /\ ~ a.taken[k].part => a.taken[k].text = lines[a.taken[k].line]
         /\ ~ a.taken[k].part => \A j \in DOMAIN a.taken :
                                    a.taken[j].line = a.taken[k].line => j = k
    /\ \A i \in 1 .. n : \E k \in DOMAIN a.taken : a.taken[k].line = i

\* Where the counting is: it has read nothing of the lines after the next one, and
\* nothing of that one unless some parts.
ReadTo(a) ==
    /\ \A k \in DOMAIN a.taken : a.taken[k].line <= a.read + 1
    /\ a.parts = 0 => \A k \in DOMAIN a.taken : a.taken[k].line <= a.read

\* The timestamps of whole lines among the first n are there.
StampedTo(a, n) ==
    \A k \in DOMAIN a.taken :
      ~ a.taken[k].part /\ a.taken[k].line <= n /\ Timed(a.parser, a.taken[k].text) =>
        a.taken[k].text.at \in Range(a.stamps)

StageOK(a) ==
    /\ a.stage = "sampling" => NothingCounted(a) /\ a.end = 0 /\ a.stamps = << >>
    /\ a.stage \in {"reading", "stamping", "done"} => CountedSoFar(a) /\ Len(a.taken) = a.total
    /\ a.stage = "reading" => LinesTaken(a, log, a.read) /\ ReadTo(a)
    /\ a.stage \in {"stamping", "done"} => LinesTaken(a, log, a.end) /\ a.buffer = << >>
    /\ a.stage = "stamping" =>
         StampedTo(a, a.read) /\ (a.parts > 0 => a.end <= a.read)
    /\ a.stage = "done" => StampedTo(a, a.end)

LogCore == LogTypeOK /\ StageOK(analysis)

\* Two parts of a file are counted one after the other.
LEMMA CountsAdd ==
    ASSUME NEW n \in Nat, NEW b \in Nat, NEW A \in SUBSET (1 .. b), NEW B \in SUBSET (1 .. n)
    PROVE  Cardinality(B \union {n + i : i \in A}) = Cardinality(B) + Cardinality(A)
  <1> DEFINE D == {n + i : i \in A}
             shift == [i \in A |-> n + i]
  <1>1. IsFiniteSet(A) /\ IsFiniteSet(B)
    <2>1. IsFiniteSet(1 .. b) /\ IsFiniteSet(1 .. n)
      BY FS_Interval
    <2>2. QED
      BY <2>1, FS_Subset
  <1>2. B \cap D = {}
    OBVIOUS
  <1>3. shift \in Bijection(A, D)
    BY DEF Bijection, Injection, IsInjective, Surjection
  <1>4. IsFiniteSet(D) /\ Cardinality(D) = Cardinality(A)
    BY <1>1, <1>3, FS_Bijection DEF ExistsBijection
  <1> HIDE DEF D, shift
  <1>5. /\ Cardinality(B \union D) = Cardinality(B) + Cardinality(D) - Cardinality(B \cap D)
        /\ Cardinality(B) \in Nat /\ Cardinality(D) \in Nat
    BY <1>1, <1>4, FS_Union, FS_CardinalityType
  <1>6. Cardinality(B \union D) = Cardinality(B) + Cardinality(A)
    BY <1>2, <1>4, <1>5, FS_EmptySet
  <1>7. QED
    BY <1>6 DEF D

LEMMA PieceOf ==
    ASSUME NEW s \in Seq(PieceType), NEW k \in DOMAIN s
    PROVE  /\ s[k] \in PieceType /\ s[k].line \in Nat
           /\ s[k].text \in LogLine /\ s[k].part \in BOOLEAN
  <1>1. s[k] \in PieceType
    <2>1. k \in 1 .. Len(s)
      OBVIOUS
    <2>2. QED
      BY <2>1
  <1>2. QED
    BY <1>1 DEF PieceType

LEMMA LevelsOfLines ==
    \A p : \A line \in LogLine : LevelOf(p, line) \in LogLevel
  BY LogAssumption DEF LevelOf, LogLevel

\* Handling the buffer counts what is in it.
LEMMA ConsumedCounts ==
    ASSUME NEW a \in Analysis, CountedSoFar(a)
    PROVE  /\ \A l \in LogLevel :
                a.counts[l] + Cardinality(OfLevel(a.parser, a.buffer, l))
                  = Cardinality(LevelUpTo(a, a.total, l))
           /\ \A m \in Minute :
                a.errors[m] + Cardinality(ErrorsOf(a.parser, a.buffer, m))
                  = Cardinality(ErrorsUpTo(a, a.total, m))
  <1> DEFINE b == Len(a.buffer)
             n == a.total - b
             p == a.parser
  <1>1. /\ a.total \in Nat /\ b \in Nat /\ n \in Nat /\ n + b = a.total
        /\ DOMAIN a.buffer = 1 .. b
    BY DEF Analysis, CountedSoFar
  <1>2. \A i \in 1 .. b : a.buffer[i] = a.taken[n + i].text
    BY DEF CountedSoFar
  <1>3. /\ \A l \in LogLevel : a.counts[l] = Cardinality(LevelUpTo(a, n, l))
        /\ \A m \in Minute : a.errors[m] = Cardinality(ErrorsUpTo(a, n, m))
    BY DEF CountedSoFar
  <1>4. n \in Nat /\ b \in Nat
    BY <1>1
  <1> HIDE DEF b, n
  <1>5. \A i \in 1 .. n + b : i \in 1 .. n \/ (i - n \in 1 .. b /\ i = n + (i - n))
    BY <1>4
  <1>6. ASSUME NEW l \in LogLevel
        PROVE  Cardinality(LevelUpTo(a, n + b, l))
                 = Cardinality(LevelUpTo(a, n, l)) + Cardinality(OfLevel(p, a.buffer, l))
    <2> DEFINE A == OfLevel(p, a.buffer, l)
               B == LevelUpTo(a, n, l)
               C == LevelUpTo(a, n + b, l)
    <2>1. A \in SUBSET (1 .. b) /\ B \in SUBSET (1 .. n) /\ C \in SUBSET (1 .. n + b)
      BY <1>1 DEF LevelUpTo, OfLevel
    <2>2. \A i \in 1 .. n : i \in C <=> i \in B
      BY <1>1 DEF LevelUpTo
    <2>3. \A i \in 1 .. b : n + i \in C <=> i \in A
      BY <1>1, <1>2 DEF LevelUpTo, OfLevel
    <2>4. C = B \union {n + i : i \in A}
      BY <1>5, <2>1, <2>2, <2>3
    <2> HIDE DEF A, B, C
    <2>5. Cardinality(C) = Cardinality(B) + Cardinality(A)
      BY <1>4, <2>1, <2>4, CountsAdd
    <2>6. QED
      BY <2>5 DEF A, B, C
  <1>7. ASSUME NEW m \in Minute
        PROVE  Cardinality(ErrorsUpTo(a, n + b, m))
                 = Cardinality(ErrorsUpTo(a, n, m)) + Cardinality(ErrorsOf(p, a.buffer, m))
    <2> DEFINE A == ErrorsOf(p, a.buffer, m)
               B == ErrorsUpTo(a, n, m)
               C == ErrorsUpTo(a, n + b, m)
    <2>1. A \in SUBSET (1 .. b) /\ B \in SUBSET (1 .. n) /\ C \in SUBSET (1 .. n + b)
      BY <1>1 DEF ErrorsUpTo, ErrorsOf
    <2>2. \A i \in 1 .. n : i \in C <=> i \in B
      BY <1>1 DEF ErrorsUpTo
    <2>3. \A i \in 1 .. b : n + i \in C <=> i \in A
      BY <1>1, <1>2 DEF ErrorsUpTo, ErrorsOf
    <2>4. C = B \union {n + i : i \in A}
      BY <1>5, <2>1, <2>2, <2>3
    <2> HIDE DEF A, B, C
    <2>5. Cardinality(C) = Cardinality(B) + Cardinality(A)
      BY <1>4, <2>1, <2>4, CountsAdd
    <2>6. QED
      BY <2>5 DEF A, B, C
  <1>8. QED
    BY <1>1, <1>3, <1>6, <1>7

LEMMA ConsumedIsOK ==
    ASSUME NEW a \in Analysis, CountedSoFar(a)
    PROVE  LET c == Consumed(a)
           IN  /\ c \in Analysis /\ CountedSoFar(c)
               /\ c.stage = a.stage /\ c.parser = a.parser /\ c.total = a.total
               /\ c.buffer = << >> /\ c.taken = a.taken /\ c.read = a.read
               /\ c.parts = a.parts /\ c.end = a.end /\ c.stamps = a.stamps
  <1> DEFINE p == a.parser
             b == a.buffer
             c == Consumed(a)
  <1>1. /\ b \in Seq(LogLine) /\ IsFiniteSet(DOMAIN b) /\ a.total \in Nat
        /\ a.counts \in [LogLevel -> Nat] /\ a.errors \in [Minute -> Nat]
    <2>1. b \in Seq(LogLine)
      BY DEF Analysis
    <2>2. DOMAIN b = 1 .. Len(b)
      BY <2>1
    <2>3. IsFiniteSet(1 .. Len(b))
      <3>1. 1 \in Int /\ Len(b) \in Int
        BY <2>1
      <3>2. QED
        BY ONLY <3>1, FS_Interval
    <2>4. a.total \in Nat /\ a.counts \in [LogLevel -> Nat] /\ a.errors \in [Minute -> Nat]
      BY DEF Analysis
    <2>5. QED
      BY <2>1, <2>2, <2>3, <2>4
  <1>2. /\ \A l \in LogLevel : Cardinality(OfLevel(p, b, l)) \in Nat
        /\ \A m \in Minute : Cardinality(ErrorsOf(p, b, m)) \in Nat
    <2>1. \A l : OfLevel(p, b, l) \subseteq DOMAIN b
      BY DEF OfLevel
    <2>2. \A m : ErrorsOf(p, b, m) \subseteq DOMAIN b
      BY DEF ErrorsOf
    <2> HIDE DEF b, p
    <2>3. QED
      BY <1>1, <2>1, <2>2, FS_Subset, FS_CardinalityType
  <1>3. /\ c.stage = a.stage /\ c.parser = a.parser /\ c.total = a.total /\ c.buffer = << >>
        /\ c.taken = a.taken /\ c.read = a.read /\ c.parts = a.parts /\ c.end = a.end
        /\ c.stamps = a.stamps
        /\ c.counts = [l \in LogLevel |-> a.counts[l] + Cardinality(OfLevel(p, b, l))]
        /\ c.errors = [m \in Minute |-> a.errors[m] + Cardinality(ErrorsOf(p, b, m))]
    BY DEF Consumed, Analysis
  <1>4. c \in Analysis
    <2>1. << >> \in Seq(LogLine)
      OBVIOUS
    <2>2. c.counts \in [LogLevel -> Nat] /\ c.errors \in [Minute -> Nat]
      BY <1>1, <1>2, <1>3
    <2>3. c = [a EXCEPT !.buffer = << >>, !.counts = c.counts, !.errors = c.errors]
      BY <1>3 DEF Consumed, Analysis
    <2>4. QED
      BY <2>1, <2>2, <2>3 DEF Analysis
  <1> HIDE DEF c
  <1>5. CountedSoFar(c)
    <2>1. Len(<< >>) = 0 /\ a.total - 0 = a.total
      BY <1>1
    <2>2. /\ \A n, l : LevelUpTo(c, n, l) = LevelUpTo(a, n, l)
          /\ \A n, m : ErrorsUpTo(c, n, m) = ErrorsUpTo(a, n, m)
      BY <1>3 DEF LevelUpTo, ErrorsUpTo
    <2>3. /\ \A l \in LogLevel : c.counts[l] = Cardinality(LevelUpTo(c, a.total, l))
          /\ \A m \in Minute : c.errors[m] = Cardinality(ErrorsUpTo(c, a.total, m))
      BY <1>3, <2>2, ConsumedCounts
    <2>4. QED
      BY <1>1, <1>3, <2>1, <2>3 DEF CountedSoFar
  <1>6. QED
    BY <1>3, <1>4, <1>5 DEF c

\* Every piece counts as one level.
LEMMA LevelsAddUp ==
    ASSUME NEW a \in Analysis, NEW n \in Nat, n <= Len(a.taken)
    PROVE  n = Cardinality(LevelUpTo(a, n, "INFO")) + Cardinality(LevelUpTo(a, n, "ERROR"))
                 + Cardinality(LevelUpTo(a, n, "UNKNOWN"))
  <1> DEFINE I == LevelUpTo(a, n, "INFO")
             E == LevelUpTo(a, n, "ERROR")
             U == LevelUpTo(a, n, "UNKNOWN")
  <1>1. IsFiniteSet(1 .. n) /\ Cardinality(1 .. n) = n
    BY FS_Interval
  <1>2. \A i \in 1 .. n : LevelOf(a.parser, a.taken[i].text) \in {"INFO", "ERROR", "UNKNOWN"}
    <2>1. a.taken \in Seq(PieceType) /\ Len(a.taken) \in Nat
      BY DEF Analysis
    <2>2. \A i \in 1 .. n : i \in DOMAIN a.taken
      BY <2>1
    <2>3. \A i \in 1 .. n : a.taken[i].text \in LogLine
      BY <2>1, <2>2, PieceOf
    <2>4. QED
      BY <2>3, LevelsOfLines DEF LogLevel
  <1>3. /\ 1 .. n = (I \union E) \union U
        /\ I \cap E = {} /\ (I \union E) \cap U = {}
        /\ I \subseteq 1 .. n /\ E \subseteq 1 .. n /\ U \subseteq 1 .. n
    BY <1>2 DEF LevelUpTo
  <1> HIDE DEF I, E, U
  <1>4. IsFiniteSet(I) /\ IsFiniteSet(E) /\ IsFiniteSet(U)
    BY <1>1, <1>3, FS_Subset
  <1>5. /\ IsFiniteSet(I \union E) /\ Cardinality({}) = 0
        /\ Cardinality(I \union E) = Cardinality(I) + Cardinality(E) - Cardinality(I \cap E)
        /\ Cardinality(I) \in Nat /\ Cardinality(E) \in Nat /\ Cardinality(U) \in Nat
    BY <1>4, FS_Union, FS_EmptySet, FS_CardinalityType
  <1>6. Cardinality((I \union E) \union U)
          = Cardinality(I \union E) + Cardinality(U) - Cardinality((I \union E) \cap U)
    BY <1>4, <1>5, FS_Union
  <1>7. /\ Cardinality((I \union E) \union U) = n
        /\ Cardinality(I \cap E) = 0 /\ Cardinality((I \union E) \cap U) = 0
    BY <1>1, <1>3, <1>5
  <1>8. n = Cardinality(I) + Cardinality(E) + Cardinality(U)
    BY <1>5, <1>6, <1>7
  <1>9. QED
    BY <1>8 DEF I, E, U

LEMMA DetectedIsAParser ==
    ASSUME NEW sample \in Seq(LogLine)
    PROVE  Detected(sample) \in {"python", "syslog", "generic"}
  <1> DEFINE Hits(p) == Cardinality({i \in DOMAIN sample : Parses(Parser[p], sample[i])})
             best == CHOOSE p \in 1 .. 3 : \A q \in 1 .. 3 :
                       Hits(p) > Hits(q) \/ (Hits(p) = Hits(q) /\ p <= q)
  <1>1. \A p \in 1 .. 3 : Hits(p) \in Nat
    <2>1. Len(sample) \in Int /\ DOMAIN sample = 1 .. Len(sample)
      OBVIOUS
    <2>2. IsFiniteSet(DOMAIN sample)
      BY <2>1, FS_Interval
    <2>3. ASSUME NEW p \in 1 .. 3
          PROVE  {i \in DOMAIN sample : Parses(Parser[p], sample[i])} \in SUBSET DOMAIN sample
      OBVIOUS
    <2>4. QED
      BY <2>2, <2>3, FS_Subset, FS_CardinalityType
  <1> HIDE DEF Hits
  <1>2. \E p \in 1 .. 3 : \A q \in 1 .. 3 :
          Hits(p) > Hits(q) \/ (Hits(p) = Hits(q) /\ p <= q)
    <2>1. Hits(1) \in Nat /\ Hits(2) \in Nat /\ Hits(3) \in Nat
      BY <1>1
    <2>2. 1 .. 3 = {1, 2, 3}
      OBVIOUS
    <2>3. QED
      BY <2>1, <2>2
  <1>3. best \in 1 .. 3
    BY <1>2
  <1> HIDE DEF best
  <1>4. Parser[best] \in {"python", "syslog", "generic"}
    BY <1>3 DEF Parser
  <1>5. QED
    BY <1>4 DEF Detected, Hits, best

\* A reading that counts nothing yet.
LEMMA NothingIsCounted ==
    ASSUME NEW a, NothingCounted(a), a.buffer = << >>
    PROVE  CountedSoFar(a) /\ Len(a.taken) = a.total /\ DOMAIN a.taken = {}
  <1>1. Len(<< >>) = 0 /\ 0 - 0 = 0 /\ Cardinality({}) = 0 /\ DOMAIN << >> = {}
    BY FS_EmptySet
  <1>2. \A x : LevelUpTo(a, 0, x) = {} /\ ErrorsUpTo(a, 0, x) = {}
    BY DEF LevelUpTo, ErrorsUpTo
  <1>3. /\ a.total = 0 /\ a.taken = << >>
        /\ \A l \in LogLevel : a.counts[l] = 0
        /\ \A m \in Minute : a.errors[m] = 0
    BY Zenon DEF NothingCounted
  <1>4. /\ \A l \in LogLevel : a.counts[l] = Cardinality(LevelUpTo(a, 0, l))
        /\ \A m \in Minute : a.errors[m] = Cardinality(ErrorsUpTo(a, 0, m))
    BY <1>1, <1>2, <1>3, Zenon
  <1>5. /\ Len(a.buffer) = 0 /\ a.total - Len(a.buffer) = 0
        /\ \A i \in 1 .. Len(a.buffer) : FALSE
    <2>1. Len(a.buffer) = 0
      BY <1>1
    <2>2. a.total = 0 /\ a.total - Len(a.buffer) = 0
      BY ONLY <1>3, <2>1
    <2>3. 1 .. 0 = {}
      OBVIOUS
    <2>4. QED
      BY <2>1, <2>2, <2>3, Zenon
  <1>6. CountedSoFar(a)
    BY <1>3, <1>4, <1>5 DEF CountedSoFar
  <1>7. QED
    BY <1>1, <1>3, <1>6

LEMMA LogInitOK == LogInit => LogCore
  <1> SUFFICES ASSUME LogInit PROVE LogCore
    OBVIOUS
  <1>1. /\ analysis.stage = "sampling" /\ analysis.total = 0 /\ analysis.taken = << >>
        /\ analysis.counts = [l \in LogLevel |-> 0] /\ analysis.errors = [m \in Minute |-> 0]
        /\ analysis.end = 0 /\ analysis.stamps = << >> /\ analysis.read = 0
    BY DEF LogInit
  <1>2. log \in Seq(LogLine) /\ tail \in Seq(LogLine)
    <2>1. \A line \in LogLine : <<line>> \in Seq(LogLine)
      OBVIOUS
    <2>2. << >> \in Seq(LogLine)
      OBVIOUS
    <2>3. QED
      BY <2>1, <2>2 DEF LogInit
  <1>3. LogTypeOK
    <2>1. << >> \in Seq(Nat) /\ << >> \in Seq(LogLine) /\ << >> \in Seq(PieceType)
      OBVIOUS
    <2>2. /\ [l \in LogLevel |-> 0] \in [LogLevel -> Nat]
          /\ [m \in Minute |-> 0] \in [Minute -> Nat]
      OBVIOUS
    <2>3. analysis \in Analysis
      BY <2>1, <2>2 DEF LogInit, LogStage, Analysis
    <2>4. Len(log) \in Nat
      BY <1>2
    <2>5. QED
      BY <1>1, <1>2, <2>3, <2>4 DEF LogTypeOK
  <1>4. NothingCounted(analysis)
    BY <1>1 DEF NothingCounted
  <1>5. QED
    BY <1>1, <1>3, <1>4 DEF LogCore, StageOK

\* What is written leaves the lines that have ended as they are.
LEMMA WritingKeepsLog ==
    ASSUME LogCore, NEW line \in LogLine, WritePart(line) \/ EndLine(line)
    PROVE  LogCore'
  <1>1. /\ log \in Seq(LogLine) /\ tail \in Seq(LogLine) /\ analysis' = analysis
        /\ analysis \in Analysis /\ analysis.read \in Nat /\ analysis.read <= Len(log)
        /\ StageOK(analysis)
    BY DEF WritePart, EndLine, LogCore, LogTypeOK, Analysis
  <1>2. /\ log' \in Seq(LogLine) /\ tail' \in Seq(LogLine) /\ Len(log) <= Len(log')
        /\ \A i \in 1 .. Len(log) : log'[i] = log[i]
    <2>1. CASE WritePart(line)
      <3>1. log' = log /\ tail' = Append(tail, line)
        BY <2>1 DEF WritePart
      <3>2. QED
        BY <1>1, <3>1
    <2>2. CASE EndLine(line)
      <3>1. log' = Append(log, line) /\ tail' = << >>
        BY <2>2 DEF EndLine
      <3>2. QED
        BY <1>1, <3>1
    <2>3. QED
      BY <2>1, <2>2
  <1>3. LogTypeOK'
    BY <1>1, <1>2 DEF LogTypeOK
  <1>4. ASSUME NEW n \in Nat, LinesTaken(analysis, log, n) PROVE LinesTaken(analysis, log', n)
    <2>1. n <= Len(log) /\ n <= Len(log')
      BY <1>1, <1>2, <1>4 DEF LinesTaken
    <2>2. ASSUME NEW k \in DOMAIN analysis.taken, ~ analysis.taken[k].part
          PROVE  analysis.taken[k].text = log'[analysis.taken[k].line]
      <3>1. analysis.taken[k].line \in 1 .. Len(log)
        BY <1>1, <1>4, <2>1, <2>2 DEF LinesTaken
      <3>2. QED
        BY <1>2, <1>4, <2>2, <3>1 DEF LinesTaken
    <2>3. QED
      BY <1>1, <1>4, <2>1, <2>2 DEF LinesTaken
  <1>5. StageOK(analysis)'
    <2>1. analysis.read \in Nat /\ analysis.end \in Nat
      BY <1>1 DEF Analysis
    <2>2. /\ CountedSoFar(analysis)' <=> CountedSoFar(analysis)
          /\ NothingCounted(analysis)' <=> NothingCounted(analysis)
          /\ ReadTo(analysis)' <=> ReadTo(analysis)
          /\ StampedTo(analysis, analysis.read)' <=> StampedTo(analysis, analysis.read)
          /\ StampedTo(analysis, analysis.end)' <=> StampedTo(analysis, analysis.end)
      BY <1>1 DEF CountedSoFar, LevelUpTo, ErrorsUpTo, NothingCounted, ReadTo, StampedTo
    <2>3. \A n \in Nat : LinesTaken(analysis, log, n) => LinesTaken(analysis, log', n)
      BY <1>4
    <2>4. QED
      BY <1>1, <2>1, <2>2, <2>3 DEF StageOK
  <1>6. QED
    BY <1>1, <1>3, <1>5 DEF LogCore

\* While the file stays as it is, it is enough to look at the analysis.
LEMMA SameLog ==
    ASSUME LogTypeOK, UNCHANGED <<log, tail>>, analysis' \in Analysis,
           analysis'.read <= Len(log), StageOK(analysis')
    PROVE  LogCore'
  BY DEF LogCore, LogTypeOK, StageOK, CountedSoFar, LevelUpTo, ErrorsUpTo, NothingCounted,
         LinesTaken, ReadTo, StampedTo

\* An analysis that ended says nothing.
LEMMA StoppingKeepsLog ==
    ASSUME LogTypeOK, UNCHANGED <<log, tail>>, NEW a \in Analysis, a.read <= Len(log),
           NEW stage \in {"cancelled", "failed"}, analysis' = [a EXCEPT !.stage = stage]
    PROVE  LogCore'
  <1>1. analysis' \in Analysis /\ analysis'.read = a.read /\ analysis'.stage = stage
    BY DEF Analysis, LogStage
  <1>2. StageOK(analysis')
    BY <1>1 DEF StageOK
  <1>3. QED
    BY <1>1, <1>2, SameLog

LEMMA AskedToStop ==
    ASSUME LogCore, CancelAnalysis \/ AnalysisFails
    PROVE  LogCore'
  <1>1. LogTypeOK /\ analysis \in Analysis /\ analysis.read <= Len(log) /\ StageOK(analysis)
    BY DEF LogCore, LogTypeOK
  <1>2. CASE AnalysisFails
    BY <1>1, <1>2, StoppingKeepsLog DEF AnalysisFails
  <1>3. CASE CancelAnalysis
    <2>1. analysis' = [analysis EXCEPT !.cancelled = TRUE] /\ UNCHANGED <<log, tail>>
      BY <1>3 DEF CancelAnalysis
    <2>2. /\ analysis' \in Analysis /\ analysis'.stage = analysis.stage
          /\ analysis'.parser = analysis.parser /\ analysis'.read = analysis.read
          /\ analysis'.parts = analysis.parts /\ analysis'.total = analysis.total
          /\ analysis'.buffer = analysis.buffer /\ analysis'.counts = analysis.counts
          /\ analysis'.errors = analysis.errors /\ analysis'.stamps = analysis.stamps
          /\ analysis'.taken = analysis.taken /\ analysis'.end = analysis.end
      BY <1>1, <2>1 DEF Analysis
    <2>3. StageOK(analysis')
      BY <1>1, <2>2 DEF StageOK, CountedSoFar, LevelUpTo, ErrorsUpTo, NothingCounted,
                        LinesTaken, ReadTo, StampedTo
    <2>4. QED
      BY <1>1, <2>1, <2>2, <2>3, SameLog
  <1>4. QED
    BY <1>2, <1>3

\* Where a reading is next, whatever it does with what it reads.
LEMMA AdvancedFacts ==
    ASSUME LogTypeOK, NEW text \in Readable(analysis)
    PROVE  LET a == Advanced(analysis)
           IN  /\ a \in Analysis /\ text \in LogLine /\ a.read <= Len(log)
               /\ a.stage = analysis.stage /\ a.parser = analysis.parser
               /\ a.total = analysis.total /\ a.buffer = analysis.buffer
               /\ a.counts = analysis.counts /\ a.errors = analysis.errors
               /\ a.stamps = analysis.stamps /\ a.taken = analysis.taken
               /\ a.end = analysis.end
               /\ \/ /\ analysis.read < Len(log) /\ a.read = analysis.read + 1 /\ a.parts = 0
                     /\ analysis.parts = 0 => text = log[analysis.read + 1]
                  \/ /\ analysis.read = Len(log) /\ a.read = analysis.read /\ a.parts > 0
  <1> DEFINE a == Advanced(analysis)
  <1>1. /\ log \in Seq(LogLine) /\ tail \in Seq(LogLine) /\ Len(log) \in Nat
        /\ Len(tail) \in Nat /\ analysis \in Analysis /\ analysis.read \in Nat
        /\ analysis.parts \in Nat /\ analysis.read <= Len(log)
    BY DEF LogTypeOK, Analysis
  <1>2. CASE analysis.read < Len(log)
    <2>1. a = [analysis EXCEPT !.read = @ + 1, !.parts = 0]
      BY <1>2 DEF Advanced
    <2>2. text \in LogLine /\ (analysis.parts = 0 => text = log[analysis.read + 1])
      BY <1>1, <1>2 DEF Readable
    <2>3. analysis.read + 1 \in Nat /\ analysis.read + 1 <= Len(log)
      BY <1>1, <1>2
    <2> HIDE DEF a
    <2>4. a \in Analysis /\ a.read = analysis.read + 1 /\ a.parts = 0
      BY <1>1, <2>1, <2>3 DEF Analysis
    <2>5. QED
      BY <1>1, <1>2, <2>1, <2>2, <2>3, <2>4 DEF a, Analysis
  <1>3. CASE ~ (analysis.read < Len(log))
    <2>1. a = [analysis EXCEPT !.parts = Len(tail)] /\ analysis.read = Len(log)
      BY <1>1, <1>3 DEF Advanced
    <2>2. analysis.parts < Len(tail)
      BY <1>3 DEF Readable
    <2>3. Len(tail) > 0
      BY <1>1, <2>2
    <2>4. text \in LogLine
      <3>1. Last(tail) \in LogLine
        BY <1>1, <2>3 DEF Last
      <3>2. QED
        BY <1>3, <2>2, <3>1 DEF Readable
    <2> HIDE DEF a
    <2>5. a \in Analysis /\ a.read = analysis.read /\ a.parts > 0
      BY <1>1, <2>1, <2>3 DEF Analysis
    <2>6. QED
      BY <1>1, <2>1, <2>4, <2>5 DEF a, Analysis
  <1>4. QED
    BY <1>2, <1>3

LEMMA SamplingKeepsLog ==
    ASSUME LogCore, SampleLine \/ Detect
    PROVE  LogCore'
  <1>1. /\ LogTypeOK /\ analysis \in Analysis /\ analysis.read <= Len(log)
        /\ analysis.stage = "sampling" /\ UNCHANGED <<log, tail>>
        /\ NothingCounted(analysis) /\ analysis.end = 0 /\ analysis.stamps = << >>
    BY DEF SampleLine, Detect, LogCore, LogTypeOK, StageOK
  <1>2. CASE SampleLine
    <2>1. PICK text \in Readable(analysis) :
            analysis' = [Advanced(analysis) EXCEPT !.buffer = Append(@, text)]
      BY <1>2 DEF SampleLine
    <2> DEFINE a == Advanced(analysis)
    <2>2. /\ a \in Analysis /\ text \in LogLine /\ a.read <= Len(log)
          /\ a.stage = "sampling" /\ a.total = analysis.total /\ a.counts = analysis.counts
          /\ a.errors = analysis.errors /\ a.taken = analysis.taken
          /\ a.end = analysis.end /\ a.stamps = analysis.stamps
      BY <1>1, AdvancedFacts
    <2>3. analysis' = [a EXCEPT !.buffer = Append(a.buffer, text)]
      BY <2>1
    <2> HIDE DEF a
    <2>4. Append(a.buffer, text) \in Seq(LogLine)
      BY <2>2 DEF Analysis
    <2>5. /\ analysis' \in Analysis /\ analysis'.stage = "sampling"
          /\ analysis'.read <= Len(log) /\ analysis'.total = analysis.total
          /\ analysis'.counts = analysis.counts /\ analysis'.errors = analysis.errors
          /\ analysis'.taken = analysis.taken /\ analysis'.end = 0
          /\ analysis'.stamps = << >>
      BY <1>1, <2>2, <2>3, <2>4 DEF Analysis
    <2>6. StageOK(analysis')
      BY <1>1, <2>5 DEF StageOK, NothingCounted
    <2>7. QED
      BY <1>1, <2>5, <2>6, SameLog
  <1>3. CASE Detect
    <2> DEFINE p == Detected(analysis.buffer)
    <2>1. p \in {"python", "syslog", "generic"}
      BY <1>1, DetectedIsAParser DEF Analysis
    <2>2. \/ analysis' = [analysis EXCEPT !.stage = "cancelled"]
          \/ analysis' = [Rewound(analysis, "reading") EXCEPT !.parser = p]
      BY <1>3 DEF Detect, Unless
    <2> HIDE DEF p
    <2>3. CASE analysis' = [Rewound(analysis, "reading") EXCEPT !.parser = p]
      <3>1. << >> \in Seq(LogLine)
        OBVIOUS
      <3>2. /\ analysis' \in Analysis /\ analysis'.stage = "reading" /\ analysis'.read = 0
            /\ analysis'.parts = 0 /\ analysis'.buffer = << >>
            /\ analysis'.total = analysis.total /\ analysis'.counts = analysis.counts
            /\ analysis'.errors = analysis.errors /\ analysis'.taken = analysis.taken
        BY <1>1, <2>1, <2>3, <3>1 DEF Rewound, Analysis, LogStage
      <3>3. NothingCounted(analysis')
        BY <1>1, <3>2 DEF NothingCounted
      <3>4. /\ CountedSoFar(analysis') /\ Len(analysis'.taken) = analysis'.total
            /\ DOMAIN analysis'.taken = {}
        BY <3>2, <3>3, NothingIsCounted
      <3>5. Len(log) \in Nat /\ 0 <= Len(log)
        BY <1>1 DEF LogTypeOK
      <3>6. StageOK(analysis')
        BY <3>2, <3>4, <3>5 DEF StageOK, LinesTaken, ReadTo
      <3>7. QED
        BY <1>1, <3>2, <3>5, <3>6, SameLog
    <2>4. QED
      BY <1>1, <2>2, <2>3, StoppingKeepsLog
  <1>4. QED
    BY <1>2, <1>3

\* What is read is the last of the buffer, until that is handled.
LEMMA PieceIsCounted ==
    ASSUME NEW a \in Analysis, CountedSoFar(a), Len(a.taken) = a.total,
           NEW b \in Analysis, NEW piece \in PieceType, b.parser = a.parser,
           b.total = a.total + 1, b.buffer = Append(a.buffer, piece.text),
           b.taken = Append(a.taken, piece), b.counts = a.counts, b.errors = a.errors
    PROVE  CountedSoFar(b) /\ Len(b.taken) = b.total
  <1> DEFINE t == a.total
             s == Len(a.buffer)
  <1>1. /\ t \in Nat /\ s \in Nat /\ s <= t /\ a.buffer \in Seq(LogLine)
        /\ a.taken \in Seq(PieceType) /\ Len(a.taken) = t /\ piece.text \in LogLine
    BY DEF Analysis, CountedSoFar, PieceType
  <1>2. /\ Len(b.buffer) = s + 1 /\ b.buffer[s + 1] = piece.text
        /\ \A i \in 1 .. s : b.buffer[i] = a.buffer[i]
        /\ Len(b.taken) = t + 1 /\ b.taken[t + 1] = piece
        /\ \A i \in 1 .. t : b.taken[i] = a.taken[i]
    BY <1>1
  <1>3. \A i \in 1 .. s : a.buffer[i] = a.taken[(t - s) + i].text
    BY DEF CountedSoFar
  <1>4. /\ \A l \in LogLevel : a.counts[l] = Cardinality(LevelUpTo(a, t - s, l))
        /\ \A m \in Minute : a.errors[m] = Cardinality(ErrorsUpTo(a, t - s, m))
    BY DEF CountedSoFar
  <1> HIDE DEF t, s
  <1>5. /\ (t + 1) - (s + 1) = t - s /\ s + 1 <= t + 1 /\ (t - s) + (s + 1) = t + 1
        /\ \A i \in 1 .. t - s : i \in 1 .. t
        /\ \A i \in 1 .. s : (t - s) + i \in 1 .. t
        /\ \A i \in 1 .. s + 1 : i \in 1 .. s \/ i = s + 1
    BY <1>1
  <1>6. \A i \in 1 .. s + 1 : b.buffer[i] = b.taken[(t - s) + i].text
    <2>1. \A i \in 1 .. s : b.buffer[i] = b.taken[(t - s) + i].text
      BY <1>2, <1>3, <1>5
    <2>2. b.buffer[s + 1] = b.taken[(t - s) + (s + 1)].text
      BY <1>2, <1>5
    <2>3. QED
      BY <1>5, <2>1, <2>2
  <1>7. /\ \A l : LevelUpTo(b, t - s, l) = LevelUpTo(a, t - s, l)
        /\ \A m : ErrorsUpTo(b, t - s, m) = ErrorsUpTo(a, t - s, m)
    BY <1>2, <1>5 DEF LevelUpTo, ErrorsUpTo
  <1>8. b.total - Len(b.buffer) = t - s /\ Len(b.buffer) <= b.total /\ b.total = t + 1
    BY <1>2, <1>5 DEF t
  <1>9. QED
    <2>1. \A i \in 1 .. Len(b.buffer) : b.buffer[i] = b.taken[(t - s) + i].text
      BY <1>2, <1>6
    <2>2. /\ \A l \in LogLevel : b.counts[l] = Cardinality(LevelUpTo(b, t - s, l))
          /\ \A m \in Minute : b.errors[m] = Cardinality(ErrorsUpTo(b, t - s, m))
      BY <1>4, <1>7
    <2>3. CountedSoFar(b)
      BY <1>8, <2>1, <2>2, Zenon DEF CountedSoFar
    <2>4. QED
      BY <1>2, <1>8, <2>3
\* A piece belongs to the next line, and is all of it or is marked as a part.
LEMMA PieceIsTaken ==
    ASSUME LogTypeOK, LinesTaken(analysis, log, analysis.read), ReadTo(analysis),
           NEW text \in Readable(analysis), NEW b \in Analysis,
           b.read = Advanced(analysis).read, b.parts = Advanced(analysis).parts,
           b.taken = Append(analysis.taken, Piece(analysis, text))
    PROVE  LinesTaken(b, log, b.read) /\ ReadTo(b)
  <1> DEFINE piece == Piece(analysis, text)
             t == analysis.taken
             n == analysis.read
  <1>1. /\ t \in Seq(PieceType) /\ Len(t) \in Nat /\ DOMAIN t = 1 .. Len(t)
        /\ n \in Nat /\ Len(log) \in Nat /\ n <= Len(log) /\ analysis.parts \in Nat
        /\ text \in LogLine
        /\ \/ /\ n < Len(log) /\ b.read = n + 1 /\ b.parts = 0
              /\ analysis.parts = 0 => text = log[n + 1]
           \/ n = Len(log) /\ b.read = n /\ b.parts > 0
    <2>1. /\ t \in Seq(PieceType) /\ n \in Nat /\ analysis.parts \in Nat
          /\ Len(log) \in Nat /\ n <= Len(log)
      BY DEF LogTypeOK, Analysis
    <2>2. Len(t) \in Nat /\ DOMAIN t = 1 .. Len(t)
      BY <2>1
    <2>3. /\ text \in LogLine
          /\ \/ /\ n < Len(log) /\ b.read = n + 1 /\ b.parts = 0
                /\ analysis.parts = 0 => text = log[n + 1]
             \/ n = Len(log) /\ b.read = n /\ b.parts > 0
      BY AdvancedFacts
    <2>4. QED
      BY <2>1, <2>2, <2>3
  <1>2. /\ piece \in PieceType /\ piece.line = n + 1 /\ piece.text = text
        /\ piece.part <=> analysis.parts > 0 \/ n = Len(log)
    <2>1. piece = [line |-> n + 1, text |-> text, part |-> analysis.parts > 0 \/ n = Len(log)]
      BY DEF Piece
    <2>2. n + 1 \in Nat /\ (analysis.parts > 0 \/ n = Len(log)) \in BOOLEAN
      BY <1>1
    <2> HIDE DEF piece, n
    <2>3. QED
      BY <1>1, <2>1, <2>2 DEF PieceType
  <1> HIDE DEF piece
  <1>3. /\ DOMAIN b.taken = 1 .. Len(t) + 1 /\ b.taken[Len(t) + 1] = piece
        /\ \A k \in DOMAIN t : b.taken[k] = t[k] /\ k \in DOMAIN b.taken
        /\ \A k \in DOMAIN b.taken : k \in DOMAIN t \/ k = Len(t) + 1
    <2>1. b.taken = Append(t, piece)
      BY DEF piece
    <2> HIDE DEF t, n
    <2>2. QED
      BY <1>1, <1>2, <2>1
  <1>4. /\ \A k \in DOMAIN t :
             /\ t[k].line \in 1 .. n \/ t[k].part
             /\ ~ t[k].part => t[k].text = log[t[k].line]
             /\ ~ t[k].part => \A j \in DOMAIN t : t[j].line = t[k].line => j = k
             /\ t[k].line \in Nat /\ t[k].line <= n + 1
             /\ analysis.parts = 0 => t[k].line <= n
        /\ \A i \in 1 .. n : \E k \in DOMAIN t : t[k].line = i
    <2>1. \A k \in DOMAIN t : t[k].line \in Nat
      BY <1>1, PieceOf
    <2>2. /\ \A k \in DOMAIN t : t[k].line <= n + 1
          /\ analysis.parts = 0 => \A k \in DOMAIN t : t[k].line <= n
      BY DEF ReadTo
    <2>3. /\ \A k \in DOMAIN t :
               /\ t[k].line \in 1 .. n \/ t[k].part
               /\ ~ t[k].part => t[k].text = log[t[k].line]
               /\ ~ t[k].part => \A j \in DOMAIN t : t[j].line = t[k].line => j = k
          /\ \A i \in 1 .. n : \E k \in DOMAIN t : t[k].line = i
      BY DEF LinesTaken
    <2> HIDE DEF t, n
    <2>4. QED
      BY <2>1, <2>2, <2>3
  <1> HIDE DEF t, n
  <1>5. b.read \in Nat /\ b.read <= Len(log) /\ n <= b.read /\ b.read <= n + 1
          /\ (~ piece.part => b.read = n + 1 /\ analysis.parts = 0 /\ text = log[n + 1])
    BY <1>1, <1>2
  <1>6. ASSUME NEW k \in DOMAIN b.taken
        PROVE  /\ b.taken[k].line \in 1 .. b.read \/ b.taken[k].part
               /\ ~ b.taken[k].part => b.taken[k].text = log[b.taken[k].line]
               /\ b.taken[k].line <= b.read + 1
               /\ b.parts = 0 => b.taken[k].line <= b.read
    <2>1. CASE k \in DOMAIN t
      <3>1. b.taken[k] = t[k]
        BY <1>3, <2>1
      <3>2. b.parts = 0 => b.read = n + 1
        BY <1>1
      <3>3. /\ t[k].line \in 1 .. b.read \/ t[k].part
            /\ t[k].line <= b.read + 1
            /\ b.parts = 0 => t[k].line <= b.read
        BY <1>1, <1>4, <1>5, <2>1, <3>2
      <3>4. ~ t[k].part => t[k].text = log[t[k].line]
        BY <1>4, <2>1
      <3>5. QED
        BY <3>1, <3>3, <3>4
    <2>2. CASE k = Len(t) + 1
      <3>1. b.taken[k] = piece
        BY <1>3, <2>2
      <3>2. b.parts = 0 => b.read = n + 1
        BY <1>1
      <3>3. piece.line = n + 1 /\ n + 1 \in Nat /\ n + 1 <= b.read + 1
        BY <1>1, <1>2, <1>5
      <3>4. /\ b.parts = 0 => piece.line <= b.read
            /\ ~ piece.part => piece.line \in 1 .. b.read
        <4>1. /\ b.read = n + 1 => n + 1 <= b.read /\ n + 1 \in 1 .. b.read
          BY <1>1
        <4>2. QED
          BY <1>5, <3>2, <3>3, <4>1
      <3>5. ~ piece.part => piece.text = log[piece.line]
        BY <1>2, <1>5
      <3>6. QED
        BY <3>1, <3>3, <3>4, <3>5
    <2>3. QED
      BY <1>3, <2>1, <2>2
  <1>7. ASSUME NEW k \in DOMAIN b.taken, ~ b.taken[k].part, NEW j \in DOMAIN b.taken,
               b.taken[j].line = b.taken[k].line
        PROVE  j = k
    <2>1. CASE k \in DOMAIN t /\ j \in DOMAIN t
      BY <1>3, <1>4, <1>7, <2>1
    <2>2. CASE k \in DOMAIN t /\ j = Len(t) + 1
      <3>1. t[k].line \in 1 .. n /\ t[k].line = n + 1
        BY <1>2, <1>3, <1>4, <1>7, <2>2
      <3>2. QED
        BY <1>1, <3>1
    <2>3. CASE k = Len(t) + 1 /\ j \in DOMAIN t
      <3>1. analysis.parts = 0 /\ t[j].line = n + 1
        BY <1>2, <1>3, <1>5, <1>7, <2>3
      <3>2. QED
        BY <1>1, <1>4, <2>3, <3>1
    <2>4. QED
      BY <1>3, <2>1, <2>2, <2>3
  <1>8. ASSUME NEW i \in 1 .. b.read PROVE \E k \in DOMAIN b.taken : b.taken[k].line = i
    <2>1. CASE i \in 1 .. n
      BY <1>3, <1>4, <2>1
    <2>2. CASE i = n + 1
      <3>1. Len(t) + 1 \in DOMAIN b.taken
        BY <1>1, <1>3
      <3>2. QED
        BY <1>2, <1>3, <2>2, <3>1
    <2>3. i \in 1 .. n \/ i = n + 1
      <3>1. n \in Nat /\ b.read \in Nat /\ b.read <= n + 1
        BY <1>1, <1>5
      <3>2. QED
        BY ONLY <3>1, i \in 1 .. b.read
    <2>4. QED
      BY <2>1, <2>2, <2>3
  <1>9. QED
    BY <1>5, <1>6, <1>7, <1>8 DEF LinesTaken, ReadTo

LEMMA ReadKeepsLog ==
    ASSUME LogCore, ReadLine
    PROVE  LogCore'
  <1>1. /\ LogTypeOK /\ analysis \in Analysis /\ analysis.read <= Len(log)
        /\ analysis.stage = "reading" /\ UNCHANGED <<log, tail>>
        /\ CountedSoFar(analysis) /\ Len(analysis.taken) = analysis.total
        /\ LinesTaken(analysis, log, analysis.read) /\ ReadTo(analysis)
    BY DEF ReadLine, LogCore, LogTypeOK, StageOK
  <1>2. PICK text \in Readable(analysis) :
          LET next == WithPiece(analysis, text)
          IN  analysis' = IF Len(next.buffer) >= ChunkLines
                          THEN Unless(next, Consumed(next)) ELSE next
    BY DEF ReadLine
  <1> DEFINE a == Advanced(analysis)
             piece == Piece(analysis, text)
             b == WithPiece(analysis, text)
  <1>3. /\ a \in Analysis /\ text \in LogLine /\ a.read <= Len(log)
        /\ a.stage = analysis.stage /\ a.parser = analysis.parser
        /\ a.total = analysis.total /\ a.buffer = analysis.buffer
        /\ a.counts = analysis.counts /\ a.errors = analysis.errors
        /\ a.taken = analysis.taken
    BY <1>1, AdvancedFacts
  <1>4. piece \in PieceType /\ piece.text = text
    BY <1>1, <1>3 DEF Piece, PieceType, Analysis
  <1> HIDE DEF a, piece
  <1>5. /\ b = [a EXCEPT !.total = a.total + 1, !.buffer = Append(a.buffer, text),
                         !.taken = Append(a.taken, piece)]
        /\ a.total + 1 \in Nat /\ Append(a.buffer, text) \in Seq(LogLine)
        /\ Append(a.taken, piece) \in Seq(PieceType)
    <2>1. b = [a EXCEPT !.total = a.total + 1, !.buffer = Append(a.buffer, text),
                        !.taken = Append(a.taken, piece)]
      BY DEF WithPiece, a, piece
    <2> HIDE DEF b
    <2>2. QED
      BY <1>3, <1>4, <2>1 DEF Analysis
  <1> HIDE DEF b
  <1>6. /\ b \in Analysis /\ b.stage = "reading" /\ b.parser = analysis.parser
        /\ b.total = analysis.total + 1 /\ b.buffer = Append(analysis.buffer, piece.text)
        /\ b.taken = Append(analysis.taken, piece) /\ b.counts = analysis.counts
        /\ b.errors = analysis.errors /\ b.read = a.read /\ b.parts = a.parts
    BY <1>1, <1>3, <1>4, <1>5 DEF Analysis
  <1>7. CountedSoFar(b) /\ Len(b.taken) = b.total
    BY <1>1, <1>4, <1>6, PieceIsCounted
  <1>8. LinesTaken(b, log, b.read) /\ ReadTo(b)
    BY <1>1, <1>6, PieceIsTaken DEF a, piece
  <1>9. CASE analysis' = [b EXCEPT !.stage = "cancelled"]
    BY <1>1, <1>3, <1>6, <1>9, StoppingKeepsLog
  <1>10. CASE analysis' = Consumed(b)
    <2> DEFINE c == Consumed(b)
    <2>1. /\ c \in Analysis /\ CountedSoFar(c) /\ c.stage = "reading"
          /\ c.total = b.total /\ c.taken = b.taken /\ c.read = b.read /\ c.parts = b.parts
      BY <1>6, <1>7, ConsumedIsOK
    <2> HIDE DEF c
    <2>2. LinesTaken(c, log, c.read) /\ ReadTo(c)
      BY <1>8, <2>1 DEF LinesTaken, ReadTo
    <2>3. StageOK(c)
      BY <1>7, <2>1, <2>2 DEF StageOK
    <2>4. analysis' = c
      BY <1>10 DEF c
    <2>5. QED
      BY <1>1, <1>3, <1>6, <2>1, <2>3, <2>4, SameLog
  <1>11. CASE analysis' = b
    <2>1. StageOK(b)
      BY <1>6, <1>7, <1>8 DEF StageOK
    <2>2. QED
      BY <1>1, <1>3, <1>6, <1>11, <2>1, SameLog
  <1>12. QED
    <2>1. analysis' = IF Len(b.buffer) >= ChunkLines THEN Unless(b, Consumed(b)) ELSE b
      BY <1>2 DEF b
    <2>2. QED
      BY <1>9, <1>10, <1>11, <2>1 DEF Unless

LEMMA EndKeepsLog ==
    ASSUME LogCore, EndOfFile
    PROVE  LogCore'
  <1> DEFINE c == Consumed(analysis)
             d == CountingEnded(c)
  <1>1. /\ LogTypeOK /\ analysis \in Analysis /\ analysis.read <= Len(log)
        /\ analysis.stage = "reading" /\ UNCHANGED <<log, tail>>
        /\ CountedSoFar(analysis) /\ Len(analysis.taken) = analysis.total
        /\ LinesTaken(analysis, log, analysis.read)
    BY DEF EndOfFile, LogCore, LogTypeOK, StageOK
  <1>2. analysis' = [analysis EXCEPT !.stage = "cancelled"] \/ analysis' = d
    BY DEF EndOfFile, Unless
  <1>3. /\ c \in Analysis /\ CountedSoFar(c) /\ c.buffer = << >> /\ c.total = analysis.total
        /\ c.taken = analysis.taken /\ c.read = analysis.read
    BY <1>1, ConsumedIsOK
  <1> DEFINE stage == IF c.parser = "generic" THEN "done" ELSE "stamping"
  <1> HIDE DEF c
  <1>4. << >> \in Seq(LogLine) /\ c.read \in Nat /\ 0 \in Nat
    BY <1>3 DEF Analysis
  <1>5. /\ d.stage = stage /\ d.parser = c.parser /\ d.total = c.total /\ d.read = 0
        /\ d.parts = 0 /\ d.buffer = << >> /\ d.counts = c.counts /\ d.errors = c.errors
        /\ d.taken = c.taken /\ d.end = c.read /\ d \in Analysis
    BY <1>3, <1>4 DEF CountingEnded, Rewound, Analysis, LogStage
  <1> HIDE DEF d
  <1>6. CountedSoFar(d) /\ Len(d.taken) = d.total /\ LinesTaken(d, log, d.end)
    BY <1>1, <1>3, <1>5 DEF CountedSoFar, LevelUpTo, ErrorsUpTo, LinesTaken
  <1>7. StampedTo(d, 0) /\ (d.parser = "generic" => StampedTo(d, d.end))
    <2>1. \A k \in DOMAIN d.taken : ~ d.taken[k].part => ~ (d.taken[k].line <= 0)
      BY <1>4, <1>5, <1>6 DEF LinesTaken
    <2>2. QED
      BY <2>1 DEF StampedTo, Timed
  <1>8. StageOK(d)
    BY <1>5, <1>6, <1>7 DEF StageOK
  <1>9. Len(log) \in Nat /\ 0 <= Len(log)
    BY <1>1 DEF LogTypeOK
  <1>10. CASE analysis' = d
    BY <1>1, <1>5, <1>8, <1>9, <1>10, SameLog
  <1>11. QED
    BY <1>1, <1>2, <1>10, StoppingKeepsLog

\* The later reading comes to a line that was counted whole only when it has ended.
LEMMA StatsKeepLog ==
    ASSUME LogCore, TimestampStats
    PROVE  LogCore'
  <1>1. /\ LogTypeOK /\ analysis \in Analysis /\ analysis.read <= Len(log)
        /\ analysis.read \in Nat /\ analysis.end \in Nat /\ Len(log) \in Nat
        /\ analysis.stage = "stamping" /\ UNCHANGED <<log, tail>>
        /\ CountedSoFar(analysis) /\ Len(analysis.taken) = analysis.total
        /\ LinesTaken(analysis, log, analysis.end) /\ analysis.buffer = << >>
        /\ StampedTo(analysis, analysis.read)
        /\ analysis.parts > 0 => analysis.end <= analysis.read
    BY DEF TimestampStats, LogCore, LogTypeOK, StageOK, Analysis
  <1>2. \A k \in DOMAIN analysis.taken :
          ~ analysis.taken[k].part => /\ analysis.taken[k].line \in 1 .. analysis.end
                                      /\ analysis.taken[k].text = log[analysis.taken[k].line]
    BY <1>1 DEF LinesTaken
  <1>3. CASE Readable(analysis) = {} /\ analysis' = [analysis EXCEPT !.stage = "done"]
    <2>1. /\ analysis' \in Analysis /\ analysis'.stage = "done"
          /\ analysis'.parser = analysis.parser /\ analysis'.read = analysis.read
          /\ analysis'.total = analysis.total /\ analysis'.buffer = analysis.buffer
          /\ analysis'.counts = analysis.counts /\ analysis'.errors = analysis.errors
          /\ analysis'.stamps = analysis.stamps /\ analysis'.taken = analysis.taken
          /\ analysis'.end = analysis.end
      BY <1>1, <1>3 DEF Analysis, LogStage
    <2>2. analysis.end <= analysis.read
      <3>1. analysis.end <= Len(log)
        BY <1>1 DEF LinesTaken
      <3>2. CASE analysis.read < Len(log)
        <4>1. CASE analysis.parts = 0
          BY <1>3, <3>2, <4>1 DEF Readable
        <4>2. CASE analysis.parts # 0
          <5>1. analysis.parts \in Nat
            BY <1>1 DEF Analysis
          <5>2. QED
            BY <1>1, <4>2, <5>1
        <4>3. QED
          BY <4>1, <4>2
      <3>3. CASE ~ (analysis.read < Len(log))
        BY <1>1, <3>1, <3>3
      <3>4. QED
        BY <3>2, <3>3
    <2>3. StampedTo(analysis', analysis'.end)
      <3>1. \A k \in DOMAIN analysis.taken :
              ~ analysis.taken[k].part => analysis.taken[k].line <= analysis.read
        BY <1>1, <1>2, <2>2
      <3>2. QED
        BY <1>1, <2>1, <3>1 DEF StampedTo
    <2>4. CountedSoFar(analysis') /\ LinesTaken(analysis', log, analysis'.end)
      BY <1>1, <2>1 DEF CountedSoFar, LevelUpTo, ErrorsUpTo, LinesTaken
    <2>5. StageOK(analysis')
      BY <1>1, <2>1, <2>3, <2>4 DEF StageOK
    <2>6. QED
      BY <1>1, <2>1, <2>5, SameLog
  <1>4. ASSUME NEW text \in Readable(analysis),
               analysis' = [Advanced(analysis) EXCEPT
                              !.stamps = IF Timed(analysis.parser, text)
                                         THEN Append(@, text.at) ELSE @]
        PROVE  LogCore'
    <2> DEFINE a == Advanced(analysis)
               stamps == IF Timed(analysis.parser, text) THEN Append(a.stamps, text.at)
                         ELSE a.stamps
    <2>1. /\ a \in Analysis /\ text \in LogLine /\ a.read <= Len(log)
          /\ a.stage = "stamping" /\ a.parser = analysis.parser
          /\ a.total = analysis.total /\ a.buffer = analysis.buffer
          /\ a.counts = analysis.counts /\ a.errors = analysis.errors
          /\ a.stamps = analysis.stamps /\ a.taken = analysis.taken
          /\ a.end = analysis.end
          /\ \/ /\ analysis.read < Len(log) /\ a.read = analysis.read + 1 /\ a.parts = 0
                /\ analysis.parts = 0 => text = log[analysis.read + 1]
             \/ /\ analysis.read = Len(log) /\ a.read = analysis.read /\ a.parts > 0
      BY <1>1, AdvancedFacts
    <2>2. analysis' = [a EXCEPT !.stamps = stamps]
      BY <1>4
    <2> HIDE DEF a
    <2>3. /\ stamps \in Seq(Nat) /\ Range(analysis.stamps) \subseteq Range(stamps)
          /\ Timed(analysis.parser, text) => text.at \in Range(stamps)
      <3>1. a.stamps \in Seq(Nat) /\ DOMAIN a.stamps = 1 .. Len(a.stamps)
        BY <2>1 DEF Analysis
      <3>2. CASE Timed(analysis.parser, text)
        <4>1. text.at \in Nat /\ stamps = Append(a.stamps, text.at)
          BY <2>1, <3>2, LogAssumption DEF Timed, Undated
        <4>2. /\ stamps \in Seq(Nat) /\ DOMAIN stamps = 1 .. Len(a.stamps) + 1
              /\ stamps[Len(a.stamps) + 1] = text.at /\ Len(a.stamps) \in Nat
              /\ \A i \in DOMAIN a.stamps : stamps[i] = a.stamps[i] /\ i \in DOMAIN stamps
          BY <3>1, <4>1
        <4> HIDE DEF stamps
        <4>3. Len(a.stamps) + 1 \in DOMAIN stamps
          BY <4>2
        <4>4. QED
          BY <2>1, <4>2, <4>3 DEF Range
      <3>3. CASE ~ Timed(analysis.parser, text)
        BY <2>1, <3>1, <3>3
      <3>4. QED
        BY <3>2, <3>3
    <2> HIDE DEF stamps
    <2>4. /\ analysis' \in Analysis /\ analysis'.stage = "stamping"
          /\ analysis'.parser = analysis.parser /\ analysis'.read = a.read
          /\ analysis'.parts = a.parts
          /\ analysis'.total = analysis.total /\ analysis'.buffer = analysis.buffer
          /\ analysis'.counts = analysis.counts /\ analysis'.errors = analysis.errors
          /\ analysis'.stamps = stamps /\ analysis'.taken = analysis.taken
          /\ analysis'.end = analysis.end
      BY <2>1, <2>2, <2>3 DEF Analysis
    <2>5. analysis'.parts > 0 => analysis'.end <= analysis'.read
      <3>1. analysis.end <= Len(log)
        BY <1>1 DEF LinesTaken
      <3>2. QED
        BY <1>1, <2>1, <2>4, <3>1
    <2>6. ASSUME NEW k \in DOMAIN analysis.taken, ~ analysis.taken[k].part,
                 analysis.taken[k].line <= a.read,
                 Timed(analysis.parser, analysis.taken[k].text)
          PROVE  analysis.taken[k].text.at \in Range(stamps)
      <3>1. analysis.taken[k].line \in 1 .. analysis.end
        BY <1>2, <2>6
      <3>2. CASE analysis.taken[k].line <= analysis.read
        BY <1>1, <2>3, <2>6, <3>2 DEF StampedTo
      <3>3. CASE ~ (analysis.taken[k].line <= analysis.read)
        <4>1. /\ analysis.read < Len(log) /\ analysis.taken[k].line = analysis.read + 1
              /\ ~ (analysis.end <= analysis.read)
          BY <1>1, <2>1, <2>6, <3>1, <3>3
        <4>2. analysis.parts = 0
          <5>1. analysis.parts \in Nat
            BY <1>1 DEF Analysis
          <5>2. QED
            BY <1>1, <4>1, <5>1
        <4>3. text = analysis.taken[k].text
          BY <1>1, <1>2, <2>1, <2>6, <4>1, <4>2
        <4>4. QED
          BY <2>3, <2>6, <4>3
      <3>4. QED
        BY <3>2, <3>3
    <2>7. StampedTo(analysis', analysis'.read)
      BY <2>4, <2>6 DEF StampedTo
    <2>8. CountedSoFar(analysis') /\ LinesTaken(analysis', log, analysis'.end)
      BY <1>1, <2>4 DEF CountedSoFar, LevelUpTo, ErrorsUpTo, LinesTaken
    <2>9. StageOK(analysis')
      BY <1>1, <2>4, <2>5, <2>7, <2>8 DEF StageOK
    <2>10. QED
      BY <1>1, <2>1, <2>4, <2>9, SameLog
  <1>5. QED
    BY <1>3, <1>4 DEF TimestampStats

LEMMA LogStep == LogCore /\ [LogNext]_logVars => LogCore'
  <1>1. ASSUME LogCore, UNCHANGED logVars PROVE LogCore'
    BY <1>1, SameLog DEF logVars, LogCore, LogTypeOK
  <1>2. QED
    BY <1>1, WritingKeepsLog, AskedToStop, SamplingKeepsLog, ReadKeepsLog, EndKeepsLog,
       StatsKeepLog DEF LogNext

LEMMA LogCoreHolds == LogSpec => []LogCore
  BY LogInitOK, LogStep, PTL DEF LogSpec

\* In a summary: the counts are those of what was read.
LEMMA DoneIsCounted ==
    ASSUME LogCore, analysis.stage = "done"
    PROVE  LET a == analysis
           IN  /\ a \in Analysis /\ a.total \in Nat /\ a.total = Len(a.taken)
               /\ a.errors \in [Minute -> Nat]
               /\ \A l \in LogLevel : a.counts[l] = Cardinality(LevelUpTo(a, a.total, l))
               /\ \A m \in Minute : a.errors[m] = Cardinality(ErrorsUpTo(a, a.total, m))
  <1>1. /\ analysis \in Analysis /\ analysis.total \in Nat /\ CountedSoFar(analysis)
        /\ Len(analysis.taken) = analysis.total /\ analysis.buffer = << >>
        /\ analysis.errors \in [Minute -> Nat]
    BY DEF LogCore, LogTypeOK, StageOK, Analysis
  <1>2. Len(analysis.buffer) = 0 /\ analysis.total - 0 = analysis.total
    BY <1>1
  <1>3. QED
    BY <1>1, <1>2 DEF CountedSoFar

\* Each line that had ended when the reading did is counted once, as what it is, or as
\* the parts in which it was read, and its time is among the timestamps: the invariant the
\* run checks, for any lines, parts of lines, chunks and samples, and whatever is written
\* while the file is read.
THEOREM LogCountsInvariant == LogSpec => []EachLineIsCounted
  <1>1. ASSUME LogCore, analysis.stage = "done"
        PROVE  EachLineIsCounted
    <2> DEFINE a == analysis
               taken == a.taken
               texts == [k \in DOMAIN taken |-> taken[k].text]
               Readings(i) == {k \in DOMAIN taken : taken[k].line = i}
    <2>1. /\ a \in Analysis /\ a.total \in Nat /\ a.total = Len(taken)
          /\ \A l \in LogLevel : a.counts[l] = Cardinality(LevelUpTo(a, a.total, l))
          /\ \A m \in Minute : a.errors[m] = Cardinality(ErrorsUpTo(a, a.total, m))
      BY <1>1, DoneIsCounted
    <2>2. LinesTaken(a, log, a.end) /\ StampedTo(a, a.end) /\ a.end \in Nat
      BY <1>1 DEF LogCore, LogTypeOK, StageOK, Analysis
    <2>3. DOMAIN taken = 1 .. a.total
      BY <2>1 DEF Analysis
    <2>4. /\ \A l : OfLevel(a.parser, texts, l) = LevelUpTo(a, a.total, l)
          /\ \A m : ErrorsOf(a.parser, texts, m) = ErrorsUpTo(a, a.total, m)
      BY <2>3 DEF OfLevel, ErrorsOf, LevelUpTo, ErrorsUpTo
    <2>5. a.total = a.counts["INFO"] + a.counts["ERROR"] + a.counts["UNKNOWN"]
      <3>1. a.total = Cardinality(LevelUpTo(a, a.total, "INFO"))
                        + Cardinality(LevelUpTo(a, a.total, "ERROR"))
                        + Cardinality(LevelUpTo(a, a.total, "UNKNOWN"))
        BY <2>1, LevelsAddUp
      <3>2. QED
        BY <2>1, <3>1 DEF LogLevel
    <2>6. ASSUME NEW i \in 1 .. a.end
          PROVE  \/ \E k \in DOMAIN taken : /\ Readings(i) = {k}
                                            /\ ~ taken[k].part /\ texts[k] = log[i]
                 \/ Readings(i) # {} /\ \A k \in Readings(i) : taken[k].part
      <3>1. Readings(i) # {}
        BY <2>2 DEF LinesTaken
      <3>2. CASE \A k \in Readings(i) : taken[k].part
        BY <3>1, <3>2
      <3>3. ASSUME NEW k \in Readings(i), ~ taken[k].part
            PROVE  Readings(i) = {k} /\ texts[k] = log[i] /\ k \in DOMAIN taken
        BY <2>2, <3>3 DEF LinesTaken
      <3>4. QED
        BY <3>2, <3>3
    <2>7. ASSUME NEW k \in DOMAIN taken
          PROVE  /\ taken[k].line <= a.end \/ taken[k].part
                 /\ ~ taken[k].part /\ Timed(a.parser, texts[k])
                      => texts[k].at \in Range(a.stamps)
      <3>1. taken[k].line \in 1 .. a.end \/ taken[k].part
        BY <2>2 DEF LinesTaken
      <3>2. texts[k] = taken[k].text /\ (taken[k].line \in 1 .. a.end => taken[k].line <= a.end)
        BY <2>2
      <3>3. QED
        BY <2>2, <3>1, <3>2 DEF StampedTo
    <2> HIDE DEF texts, Readings
    <2>8. QED
      BY <2>1, <2>4, <2>5, <2>6, <2>7 DEF EachLineIsCounted, texts, Readings
  <1>2. LogCore => EachLineIsCounted
    BY <1>1 DEF EachLineIsCounted
  <1>3. QED
    BY <1>2, LogCoreHolds, PTL

-----------------------------------------------------------------------------
(* The analysis of a log: anomalies *)

\* Disjoint parts of a set, none of which is smaller than a.
LEMMA PartsFit ==
    ASSUME NEW M, IsFiniteSet(M), NEW E, IsFiniteSet(E), NEW a \in Nat,
           NEW f \in [M -> SUBSET E],
           \A x, y \in M : x # y => f[x] \cap f[y] = {},
           \A x \in M : a <= Cardinality(f[x])
    PROVE  Cardinality(M) * a <= Cardinality(E)
  <1> DEFINE U(T) == UNION {f[x] : x \in T}
             Bad == {k \in Nat : \E T \in SUBSET M :
                       Cardinality(T) = k /\ ~ (k * a <= Cardinality(U(T)))}
  <1>1. \A T \in SUBSET M : U(T) \in SUBSET E
    OBVIOUS
  <1>2. \A T \in SUBSET M : IsFiniteSet(T) /\ IsFiniteSet(U(T))
    <2> HIDE DEF U
    <2>1. QED
      BY <1>1, FS_Subset
  <1>3. \A x \in M : f[x] \in SUBSET E /\ IsFiniteSet(f[x]) /\ Cardinality(f[x]) \in Nat
    <2>1. \A x \in M : f[x] \in SUBSET E
      OBVIOUS
    <2>2. QED
      BY <2>1, FS_Subset, FS_CardinalityType
  <1>4. Bad = {}
    <2> SUFFICES ASSUME Bad # {} PROVE FALSE
      OBVIOUS
    <2>1. PICK k \in Bad : \A i \in Bad : k <= i
      <3>1. Bad \subseteq Nat /\ Bad # {}
        OBVIOUS
      <3> HIDE DEF Bad
      <3>2. QED
        BY <3>1, LeastNumber
    <2>2. PICK T \in SUBSET M : Cardinality(T) = k /\ ~ (k * a <= Cardinality(U(T)))
      OBVIOUS
    <2>3. k \in Nat /\ Cardinality(U(T)) \in Nat
      BY <1>2, FS_CardinalityType
    <2>4. T # {}
      <3>1. SUFFICES ASSUME T = {} PROVE FALSE
        OBVIOUS
      <3>2. k = 0
        BY <2>2, <3>1, FS_EmptySet
      <3>3. 0 * a = 0
        OBVIOUS
      <3> HIDE DEF U, Bad
      <3>4. QED
        BY <2>2, <2>3, <3>2, <3>3
    <2>5. PICK x \in T : TRUE
      BY <2>4
    <2> DEFINE R == T \ {x}
    <2>6. R \in SUBSET M /\ Cardinality(R) = k - 1 /\ k - 1 \in Nat
      <3>1. Cardinality(R) = Cardinality(T) - 1 /\ IsFiniteSet(R)
        BY <1>2, <2>5, FS_RemoveElement
      <3>2. Cardinality(R) \in Nat
        BY <3>1, FS_CardinalityType
      <3> HIDE DEF U, Bad
      <3>3. QED
        BY <2>2, <2>3, <3>1, <3>2
    <2>7. (k - 1) * a <= Cardinality(U(R))
      <3>1. k - 1 \notin Bad
        <4> HIDE DEF Bad
        <4>1. QED
          BY <2>1, <2>3, <2>6
      <3>2. QED
        BY <2>6, <3>1
    <2>8. U(T) = U(R) \union f[x] /\ U(R) \cap f[x] = {}
      BY <2>5
    <2>9. /\ IsFiniteSet(U(R)) /\ IsFiniteSet(f[x]) /\ a <= Cardinality(f[x])
          /\ Cardinality(U(R)) \in Nat /\ Cardinality(f[x]) \in Nat
      BY <1>2, <1>3, <2>5, <2>6, FS_CardinalityType
    <2> HIDE DEF U, Bad, R
    <2>10. Cardinality(U(T)) = Cardinality(U(R)) + Cardinality(f[x]) - Cardinality({})
      BY <2>8, <2>9, FS_Union
    <2>11. Cardinality({}) = 0
      BY FS_EmptySet
    <2>12. (k - 1) * a + a = k * a
      BY <2>3
    <2>13. (k - 1) * a \in Int /\ k * a \in Int
      BY <2>3
    <2>14. QED
      BY <2>2, <2>3, <2>7, <2>9, <2>10, <2>11, <2>12, <2>13
  <1>5. Cardinality(M) * a <= Cardinality(U(M))
    <2>1. Cardinality(M) \in Nat
      BY FS_CardinalityType
    <2>2. QED
      BY <1>4, <2>1
  <1>6. Cardinality(U(M)) <= Cardinality(E) /\ Cardinality(U(M)) \in Nat
        /\ Cardinality(E) \in Nat /\ Cardinality(M) \in Nat
    <2> HIDE DEF U
    <2>1. U(M) \in SUBSET E /\ IsFiniteSet(U(M))
      BY <1>1, <1>2
    <2>2. QED
      BY <2>1, FS_Subset, FS_CardinalityType
  <1>7. Cardinality(M) * a \in Int
    BY <1>6
  <1> HIDE DEF U
  <1>8. QED
    BY <1>5, <1>6, <1>7

\* The places of the timestamps number them in the order of time.
LEMMA PlacesNumberStamps ==
    ASSUME NEW D, IsFiniteSet(D), D \subseteq Nat, NEW s \in [D -> Nat]
    PROVE  [i \in D |-> SortedPlace(s, i)] \in Bijection(D, 1 .. Cardinality(D))
  <1> DEFINE Upto(i) == {j \in D : s[j] < s[i] \/ (s[j] = s[i] /\ j <= i)}
             place == [i \in D |-> SortedPlace(s, i)]
  <1>1. \A i \in D : s[i] \in Nat /\ i \in Nat /\ i \in Upto(i) /\ Upto(i) \subseteq D
    OBVIOUS
  <1>2. \A i \in D : SortedPlace(s, i) = Cardinality(Upto(i))
    BY DEF SortedPlace
  <1>3. Cardinality(D) \in Nat
    BY FS_CardinalityType
  <1>4. ASSUME NEW i \in D PROVE SortedPlace(s, i) \in 1 .. Cardinality(D)
    <2>1. Upto(i) \in SUBSET D /\ Upto(i) # {}
      BY <1>1
    <2> HIDE DEF Upto
    <2>2. IsFiniteSet(Upto(i)) /\ Cardinality(Upto(i)) \in Nat
            /\ Cardinality(Upto(i)) <= Cardinality(D) /\ Cardinality(Upto(i)) # 0
      BY <2>1, FS_Subset, FS_CardinalityType, FS_EmptySet
    <2>3. QED
      BY <1>2, <1>3, <2>2
  <1>5. ASSUME NEW i \in D, NEW j \in D, SortedPlace(s, i) = SortedPlace(s, j) PROVE i = j
    <2>1. ASSUME NEW x \in D, NEW y \in D, SortedPlace(s, x) = SortedPlace(s, y),
                 s[x] < s[y] \/ (s[x] = s[y] /\ x <= y)
          PROVE  x = y
      <3>1. ASSUME NEW k \in Upto(x) PROVE k \in Upto(y)
        <4>1. /\ k \in D /\ k \in Nat /\ x \in Nat /\ y \in Nat
              /\ s[k] \in Nat /\ s[x] \in Nat /\ s[y] \in Nat
              /\ s[k] < s[x] \/ (s[k] = s[x] /\ k <= x)
          BY <1>1
        <4>2. s[k] < s[y] \/ (s[k] = s[y] /\ k <= y)
          BY <2>1, <4>1
        <4>3. QED
          BY <4>1, <4>2
      <3>2. Upto(x) \in SUBSET Upto(y) /\ Upto(y) \in SUBSET D /\ y \in Upto(y)
        <4>1. y \in Upto(y) /\ Upto(y) \subseteq D
          BY <1>1
        <4> HIDE DEF Upto
        <4>2. QED
          BY <3>1, <4>1
      <3>3. y \in Upto(x) => s[y] < s[x] \/ (s[y] = s[x] /\ y <= x)
        OBVIOUS
      <3> HIDE DEF Upto
      <3>4. Upto(x) = Upto(y)
        BY <1>2, <2>1, <3>2, FS_Subset
      <3>5. QED
        BY <1>1, <2>1, <3>2, <3>3, <3>4
    <2>2. \/ s[i] < s[j] \/ (s[i] = s[j] /\ i <= j)
          \/ s[j] < s[i] \/ (s[j] = s[i] /\ j <= i)
      BY <1>1
    <2>3. QED
      BY <1>5, <2>1, <2>2
  <1>6. place \in Injection(D, 1 .. Cardinality(D))
    BY <1>4, <1>5 DEF Injection, IsInjective
  <1>7. IsFiniteSet(1 .. Cardinality(D)) /\ Cardinality(1 .. Cardinality(D)) = Cardinality(D)
    BY <1>3, FS_Interval
  <1> HIDE DEF place
  <1>8. place \in Bijection(D, 1 .. Cardinality(D))
    BY <1>6, <1>7, FS_Injection DEF Bijection
  <1>9. QED
    BY <1>8 DEF place

\* What is sorted is the timestamps, none before an earlier one.
LEMMA SortedIsInOrder ==
    ASSUME NEW D, IsFiniteSet(D), D \subseteq Nat, NEW s \in [D -> Nat]
    PROVE  LET n == Cardinality(D)
               t == Sorted(s)
           IN  /\ n \in Nat
               /\ \A k \in 1 .. n : t[k] \in Range(s)
               /\ \A v \in Range(s) : \E k \in 1 .. n : t[k] = v
               /\ \A j, k \in 1 .. n : j <= k => t[j] <= t[k]
  <1> DEFINE n == Cardinality(D)
             t == Sorted(s)
             at(k) == CHOOSE i \in D : SortedPlace(s, i) = k
             place == [i \in D |-> SortedPlace(s, i)]
             Upto(i) == {j \in D : s[j] < s[i] \/ (s[j] = s[i] /\ j <= i)}
  <1>1. /\ place \in [D -> 1 .. n] /\ \A i, j \in D : place[i] = place[j] => i = j
        /\ \A k \in 1 .. n : \E i \in D : place[i] = k
    <2> HIDE DEF place
    <2>1. place \in Bijection(D, 1 .. n)
      BY PlacesNumberStamps DEF place
    <2>2. QED
      BY <2>1 DEF Bijection, Injection, Surjection, IsInjective
  <1>2. n \in Nat
    BY FS_CardinalityType
  <1>3. \A k \in 1 .. n : at(k) \in D /\ SortedPlace(s, at(k)) = k
    BY <1>1
  <1>4. \A i \in D : SortedPlace(s, i) \in 1 .. n /\ at(SortedPlace(s, i)) = i
    BY <1>1, <1>3
  <1>5. \A k \in 1 .. n : t[k] = s[at(k)]
    BY DEF Sorted
  <1>6. DOMAIN s = D /\ \A i \in D : s[i] \in Nat /\ i \in Nat
    OBVIOUS
  <1> HIDE DEF n, t, at, place
  <1>7. \A k \in 1 .. n : t[k] \in Range(s)
    BY <1>3, <1>5, <1>6 DEF Range
  <1>8. \A v \in Range(s) : \E k \in 1 .. n : t[k] = v
    BY <1>4, <1>5, <1>6 DEF Range
  <1>9. ASSUME NEW j \in 1 .. n, NEW k \in 1 .. n, j <= k PROVE t[j] <= t[k]
    <2> SUFFICES ASSUME ~ (t[j] <= t[k]) PROVE FALSE
      OBVIOUS
    <2> DEFINE x == at(j)
               y == at(k)
    <2>1. /\ x \in D /\ y \in D /\ t[j] = s[x] /\ t[k] = s[y]
          /\ SortedPlace(s, x) = j /\ SortedPlace(s, y) = k
      BY <1>3, <1>5
    <2> HIDE DEF x, y
    <2>2. /\ x \in D /\ y \in D /\ s[y] < s[x] /\ s[x] \in Nat /\ s[y] \in Nat
          /\ SortedPlace(s, x) = j /\ SortedPlace(s, y) = k
      <3>1. s[x] \in Nat /\ s[y] \in Nat /\ ~ (s[x] <= s[y])
        BY <1>6, <2>1
      <3>2. QED
        BY <2>1, <3>1
    <2>3. Upto(y) \in SUBSET Upto(x) /\ x \in Upto(x) /\ x \notin Upto(y)
          /\ Upto(x) \in SUBSET D
      <3>1. ASSUME NEW i \in D, s[i] < s[y] \/ (s[i] = s[y] /\ i <= y)
            PROVE  s[i] < s[x]
        BY <1>6, <2>2, <3>1
      <3>2. x \in Upto(x) /\ x \notin Upto(y)
        BY <1>6, <2>2
      <3>3. QED
        BY <3>1, <3>2
    <2>4. Cardinality(Upto(x)) = j /\ Cardinality(Upto(y)) = k
      BY <2>2 DEF SortedPlace
    <2> HIDE DEF Upto
    <2>5. /\ IsFiniteSet(Upto(x)) /\ Cardinality(Upto(y)) <= Cardinality(Upto(x))
          /\ (Cardinality(Upto(x)) = Cardinality(Upto(y)) => Upto(x) = Upto(y))
      <3>1. IsFiniteSet(Upto(x))
        BY <2>3, FS_Subset
      <3>2. QED
        BY <2>3, <3>1, FS_Subset
    <2>6. k <= j /\ (j = k => Upto(x) = Upto(y))
      BY <2>4, <2>5
    <2>7. j = k
      BY <1>2, <1>9, <2>6
    <2>8. QED
      BY <2>3, <2>6, <2>7
  <1>10. QED
    BY <1>2, <1>7, <1>8, <1>9 DEF n, t

\* The long steps of the sorted timestamps are the long gaps between those of the log.
LEMMA GapsAreReal ==
    ASSUME NEW D, IsFiniteSet(D), D \subseteq Nat, NEW s \in [D -> Nat]
    PROVE  LET n  == Cardinality(D)
               t  == Sorted(s)
               at == Range(s)
           IN  {<<t[k], t[k + 1]>> : k \in {j \in 1 .. n - 1 : t[j + 1] - t[j] > LongGap}}
                 = {g \in at \X at : /\ g[2] - g[1] > LongGap
                                     /\ \A v \in at : v <= g[1] \/ v >= g[2]}
  <1> DEFINE n  == Cardinality(D)
             t  == Sorted(s)
             at == Range(s)
             L == {<<t[k], t[k + 1]>> : k \in {j \in 1 .. n - 1 : t[j + 1] - t[j] > LongGap}}
             R == {g \in at \X at : /\ g[2] - g[1] > LongGap
                                    /\ \A v \in at : v <= g[1] \/ v >= g[2]}
  <1>1. /\ n \in Nat
        /\ \A k \in 1 .. n : t[k] \in at
        /\ \A v \in at : \E k \in 1 .. n : t[k] = v
        /\ \A j, k \in 1 .. n : j <= k => t[j] <= t[k]
    BY SortedIsInOrder
  <1>2. at \subseteq Nat
    BY DEF Range
  <1> USE <1>1, <1>2
  <1> HIDE DEF n, t, at
  <1>3. ASSUME NEW k \in 1 .. n - 1, t[k + 1] - t[k] > LongGap
        PROVE  <<t[k], t[k + 1]>> \in R
    <2>1. k \in 1 .. n /\ k + 1 \in 1 .. n
      OBVIOUS
    <2>2. t[k] \in at /\ t[k + 1] \in at
      BY <2>1
    <2>3. ASSUME NEW v \in at PROVE v <= t[k] \/ v >= t[k + 1]
      <3>1. PICK j \in 1 .. n : t[j] = v
        OBVIOUS
      <3>2. CASE j <= k
        BY <2>1, <3>1, <3>2
      <3>3. CASE k + 1 <= j
        <4>1. t[k + 1] <= t[j]
          BY <2>1, <3>3
        <4>2. QED
          BY <2>2, <3>1, <4>1
      <3>4. QED
        BY <2>1, <3>2, <3>3
    <2>4. QED
      BY <1>3, <2>2, <2>3
  <1>4. ASSUME NEW x \in at, NEW y \in at, y - x > LongGap, \A v \in at : v <= x \/ v >= y
        PROVE  \E k \in 1 .. n - 1 : t[k] = x /\ t[k + 1] = y
    <2> DEFINE K == {k \in 1 .. n : t[k] <= x}
    <2>1. x < y /\ x \in Nat /\ y \in Nat
      BY <1>4, LogAssumption
    <2>2. PICK i \in 1 .. n : t[i] = x
      OBVIOUS
    <2>3. PICK j \in 1 .. n : t[j] = y
      OBVIOUS
    <2>4. K \subseteq 0 .. n /\ i \in K
      BY <2>1, <2>2
    <2> DEFINE m == Max(K)
    <2>5. m \in K /\ \A k \in K : k <= m
      <3> HIDE DEF K
      <3>1. QED
        BY <2>4, GreatestNumber
    <2> HIDE DEF m
    <2>6. m \in 1 .. n /\ t[m] <= x /\ i <= m /\ t[m] \in Nat
      BY <2>4, <2>5
    <2>7. t[m] = x
      BY <2>1, <2>2, <2>6
    <2>8. m < j
      <3>1. SUFFICES ASSUME j <= m PROVE FALSE
        BY <2>6
      <3>2. t[j] <= t[m]
        BY <2>6, <3>1
      <3>3. QED
        BY <2>1, <2>3, <2>7, <3>2
    <2>9. m \in 1 .. n - 1 /\ m + 1 \in 1 .. n /\ m + 1 <= j /\ m + 1 \notin K
      BY <2>5, <2>6, <2>8
    <2>10. t[m + 1] \in at /\ t[m + 1] <= y /\ ~ (t[m + 1] <= x)
      BY <2>3, <2>9
    <2>11. t[m + 1] = y
      <3>1. t[m + 1] >= y
        BY <1>4, <2>10
      <3>2. t[m + 1] \in Nat
        BY <2>10
      <3>3. QED
        BY <2>1, <2>10, <3>1, <3>2
    <2>12. QED
      BY <2>7, <2>9, <2>11
  <1>5. ASSUME NEW g \in R PROVE g \in L
    <2>1. g = <<g[1], g[2]>> /\ g[1] \in at /\ g[2] \in at /\ g[2] - g[1] > LongGap
          /\ \A v \in at : v <= g[1] \/ v >= g[2]
      OBVIOUS
    <2>2. PICK k \in 1 .. n - 1 : t[k] = g[1] /\ t[k + 1] = g[2]
      BY <1>4, <2>1
    <2>3. QED
      BY <2>1, <2>2
  <1>6. L \subseteq R
    <2> HIDE DEF R
    <2>1. QED
      BY <1>3
  <1>7. L = R
    <2> HIDE DEF L, R
    <2>1. QED
      BY <1>5, <1>6
  <1>8. QED
    BY <1>7 DEF n, t, at

\* The errors with a timestamp are some of the errors: the least of the minutes has no
\* more than the mean of all.
LEMMA LeastMinuteIsNoBurst ==
    ASSUME LogCore, analysis.stage = "done", ErrorMinutes # {}
    PROVE  Bursts # ErrorMinutes
  <1> DEFINE n == analysis.total
             M == ErrorMinutes
             E == LevelUpTo(analysis, n, "ERROR")
             f == [m \in M |-> ErrorsUpTo(analysis, n, m)]
             N == Cardinality(M)
             C == Cardinality(E)
  <1>1. /\ n \in Nat /\ analysis.errors \in [Minute -> Nat]
        /\ \A l \in LogLevel : analysis.counts[l] = Cardinality(LevelUpTo(analysis, n, l))
        /\ \A m \in Minute : analysis.errors[m] = Cardinality(ErrorsUpTo(analysis, n, m))
    BY DoneIsCounted
  <1> HIDE DEF n
  <1>3. /\ analysis.counts["ERROR"] = C
        /\ \A m \in Minute : analysis.errors[m] = Cardinality(ErrorsUpTo(analysis, n, m))
    BY <1>1 DEF LogLevel
  <1>4. IsFiniteSet(1 .. n)
    <2>1. 1 \in Int /\ n \in Int
      BY <1>1
    <2>2. QED
      BY ONLY <2>1, FS_Interval
  <1>5. IsFiniteSet(E) /\ C \in Nat
    <2>1. E \in SUBSET (1 .. n)
      BY DEF LevelUpTo
    <2> HIDE DEF E
    <2>2. QED
      BY <1>4, <2>1, FS_Subset, FS_CardinalityType
  <1>6. \A m \in M : m \in Minute /\ analysis.errors[m] \in Nat /\ analysis.errors[m] > 0
    BY <1>1 DEF ErrorMinutes
  <1>7. /\ f \in [M -> SUBSET E]
        /\ \A x, y \in M : x # y => f[x] \cap f[y] = {}
    BY DEF ErrorsUpTo, LevelUpTo, LevelOf, Timed
  <1>8. \A m \in M : Cardinality(f[m]) = analysis.errors[m]
    BY <1>3, <1>6
  <1>9. IsFiniteSet(M) /\ N \in Nat /\ N # 0
    <2> DEFINE line == [m \in M |-> CHOOSE i \in E : i \in f[m]]
    <2>1. \A m \in M : f[m] # {}
      <3> HIDE DEF M, f
      <3>1. QED
        BY <1>6, <1>8, FS_EmptySet
    <2>2. \A m \in M : line[m] \in E /\ line[m] \in f[m]
      <3> HIDE DEF M, f, E
      <3>1. QED
        BY <1>7, <2>1
    <2>3. line \in Injection(M, E)
      <3> HIDE DEF M, f, E, line
      <3>1. DOMAIN line = M
        BY DEF line
      <3>2. line \in [M -> E]
        BY <2>2 DEF line
      <3>3. \A x, y \in M : line[x] = line[y] => x = y
        BY <1>7, <2>2
      <3>4. QED
        BY <3>2, <3>3 DEF Injection, IsInjective
    <2> HIDE DEF line, M, E
    <2>4. IsFiniteSet(M)
      BY <1>5, <2>3, FS_Injection
    <2>5. M # {}
      BY DEF M
    <2>6. QED
      BY <2>4, <2>5, FS_EmptySet, FS_CardinalityType
  <1>10. PICK m \in M : \A k \in M : analysis.errors[m] <= analysis.errors[k]
    <2> DEFINE S == {analysis.errors[k] : k \in M}
    <2>1. S \subseteq Nat /\ S # {}
      BY <1>6
    <2> HIDE DEF S
    <2>2. PICK v \in S : \A w \in S : v <= w
      BY <2>1, LeastNumber
    <2> HIDE DEF M
    <2>3. QED
      BY <2>2 DEF S
  <1> DEFINE a == analysis.errors[m]
  <1>11. a \in Nat /\ a > 0
    BY <1>6
  <1> HIDE DEF f, M, E, N, C, a
  <1>12. N * a <= C
    <2>1. \A x \in M : a <= Cardinality(f[x])
      BY <1>8, <1>10 DEF a
    <2>2. Cardinality(M) * a <= Cardinality(E)
      BY <1>5, <1>7, <1>9, <1>11, <2>1, PartsFit
    <2>3. QED
      BY <2>2 DEF N, C
  <1>13. N * a >= N /\ N * BurstExcess >= N /\ a * N = N * a /\ BurstExcess \in Nat
         /\ (a - BurstExcess) * N = N * a - N * BurstExcess
    BY <1>9, <1>11, LogAssumption
  <1>14. ~ (a * N >= 3 * C) /\ ~ ((a - BurstExcess) * N >= C)
    <2>1. N * a \in Int /\ N * BurstExcess \in Int
      BY <1>9, <1>11, <1>13
    <2>2. QED
      BY <1>5, <1>9, <1>12, <1>13, <2>1
  <1>15. m \notin Bursts
    BY <1>3, <1>14 DEF Bursts, a, N, M
  <1>16. QED
    BY <1>10, <1>15 DEF M

\* The gaps of a summary are those of its timestamps, and no summary calls every minute a
\* burst: the invariant the run checks, for any lines in any order of time.
THEOREM LogAnomaliesInvariant == LogSpec => []AnomaliesAreReal
  <1>1. ASSUME LogCore, analysis.stage = "done"
        PROVE  LET at == Range(analysis.stamps)
               IN  Gaps = {g \in at \X at : /\ g[2] - g[1] > LongGap
                                            /\ \A t \in at : t <= g[1] \/ t >= g[2]}
    <2> DEFINE s == analysis.stamps
               D == 1 .. Len(s)
    <2>1. s \in Seq(Nat) /\ Len(s) \in Nat /\ DOMAIN s = D /\ D \subseteq Nat
      BY <1>1 DEF LogCore, LogTypeOK, Analysis
    <2>2. s \in [D -> Nat]
      BY <2>1
    <2>3. IsFiniteSet(D)
      <3>1. 1 \in Int /\ Len(s) \in Int
        BY <2>1
      <3>2. QED
        BY ONLY <3>1, FS_Interval
    <2> HIDE DEF s, D
    <2>4. QED
      BY <2>1, <2>2, <2>3, GapsAreReal DEF Gaps, s
  <1>2. LogCore => AnomaliesAreReal
    BY <1>1, LeastMinuteIsNoBurst DEF AnomaliesAreReal
  <1>3. QED
    BY <1>2, LogCoreHolds, PTL

=============================================================================
