----------------------------- MODULE DeviceTable -----------------------------
(* The table of devices as its users see it: each call of DeviceRepository is
   one session. Only ids and names are kept. Names are numbers in their
   alphabetical order. *)

EXTENDS Integers, FiniteSets

CONSTANTS
    DeviceId,   \* ids of rows: 1 .. n
    DeviceName, \* names, in order
    NoRow       \* no device under an id

ASSUME DeviceAssumption ==
    /\ IsFiniteSet(DeviceId) /\ DeviceId \subseteq Nat /\ DeviceName \subseteq Nat
    /\ NoRow \notin DeviceName

VARIABLE
    devices     \* devices[d]: the name of the device with id d, or NoRow

Stored == {d \in DeviceId : devices[d] # NoRow}

\* get_by_name
Named(n) == {d \in Stored : devices[d] = n}

DeviceTypeOK == devices \in [DeviceId -> DeviceName \union {NoRow}]

\* The column "name" is unique.
NamesDiffer == \A d \in Stored : Named(devices[d]) = {d}

\* What earlier sessions left: any devices, each with a name of its own.
DevicesInit ==
    /\ DeviceTypeOK /\ NamesDiffer

DeviceRow(d) == [id |-> d, name |-> devices[d]]

\* list_all: by name. A device's place is the number of names up to its own.
Place(d) == Cardinality({e \in Stored : devices[e] <= devices[d]})
DeviceRows == [i \in 1 .. Cardinality(Stored) |->
                 DeviceRow(CHOOSE d \in Stored : Place(d) = i)]

\* SQLite gives a new row the id after the largest one in use.
FreeIds == {d \in DeviceId : \A e \in Stored : e < d}
FreshId == CHOOSE d \in FreeIds : \A e \in FreeIds : d <= e

\* add: the column "name" is unique, so a second row of a name is refused.
InsertRow(n) ==
    /\ FreeIds # {} /\ Named(n) = {}
    /\ devices' = [devices EXCEPT ![FreshId] = n]

\* update: of a row that exists, to a name that no other row has.
UpdateRow(d, n) ==
    /\ d \in Stored /\ Named(n) \subseteq {d}
    /\ devices' = [devices EXCEPT ![d] = n]

\* delete
DeleteRow(d) ==
    /\ d \in Stored
    /\ devices' = [devices EXCEPT ![d] = NoRow]

=============================================================================
