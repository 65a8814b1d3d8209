----------------------------- MODULE AlertsPage -----------------------------
(* The alerts page on top of AlertService: a list of alerts, newest first, that
   is read again by a timer, when the page is shown and after every
   acknowledgement, while the threads go on raising and resolving. The operator
   acknowledges the alert in the selected row. *)

EXTENDS AlertService

CONSTANT ListLimit    \* the most rows the page reads (200 in the program)

VARIABLES
    records,    \* the alerts in the table: ids, with the flag that is shown
    listing     \* whether the page is shown, and lists open alerts only

alertsPageVars == <<alertVars, records, listing>>

ASSUME AlertsPageAssumption == ListLimit \in Nat

AlertsPageInit ==
    /\ AlertInit
    /\ records = << >>
    /\ listing = [visible |-> FALSE, openOnly |-> FALSE]

\* recent() or unacknowledged(): the newest first, at most ListLimit.
ListedRows(openOnly) ==
    LET ids == {i \in DOMAIN alerts : openOnly => alerts[i].open}
        After(i) == {j \in ids : j >= i}
        rows == {i \in ids : Cardinality(After(i)) <= ListLimit}
        Nth(n) == CHOOSE i \in rows : Cardinality(After(i)) = n
    IN  [n \in 1 .. Cardinality(rows) |-> [id |-> Nth(n), open |-> alerts[Nth(n)].open]]

RefreshAlerts(openOnly) == records' = ListedRows(openOnly)'

ShowAlerts ==
    /\ ~ listing.visible
    /\ listing' = [listing EXCEPT !.visible = TRUE]
    /\ UNCHANGED alertVars
    /\ RefreshAlerts(listing.openOnly)

HideAlerts ==
    /\ listing.visible
    /\ listing' = [listing EXCEPT !.visible = FALSE]
    /\ UNCHANGED <<alertVars, records>>

AlertsTimer ==
    /\ listing.visible
    /\ UNCHANGED <<alertVars, listing>>
    /\ RefreshAlerts(listing.openOnly)

ToggleOpenOnly ==
    /\ listing.visible
    /\ listing' = [listing EXCEPT !.openOnly = ~ @]
    /\ UNCHANGED alertVars
    /\ RefreshAlerts(~ listing.openOnly)

\* Bug: the position is looked up in a list that is read again.
AckSelectedAgain(row) ==
    /\ listing.visible /\ row \in DOMAIN ListedRows(listing.openOnly)
    /\ AcknowledgeRow(ListedRows(listing.openOnly)[row].id)
    /\ UNCHANGED <<call, listing>>
    /\ RefreshAlerts(listing.openOnly)

\* _ack_selected: an alert that is closed by now only gives a message.
AckSelected(row) ==
    /\ listing.visible /\ row \in DOMAIN records
    /\ AcknowledgeRow(records[row].id)
    /\ UNCHANGED <<call, listing>>
    /\ RefreshAlerts(listing.openOnly)

AlertThreads ==
    /\ \/ \E w \in Worker, k \in Key : RaiseFind(w, k) \/ ResolveFind(w, k)
       \/ \E w \in Worker : RaiseInsert(w) \/ ResolveAcknowledge(w) \/ CallFails(w)
    /\ UNCHANGED <<records, listing>>

AlertsPageNext ==
    \/ AlertThreads
    \/ ShowAlerts \/ HideAlerts \/ AlertsTimer \/ ToggleOpenOnly
    \/ \E row \in DOMAIN records : AckSelected(row)

AlertsPageSpec == AlertsPageInit /\ [][AlertsPageNext]_alertsPageVars

\* The operator closes an alert only while it is on the screen, shown as open:
\* not one that has taken its row in the table since, as threads raise and
\* resolve alerts between two refreshes. (A thread that closes one is in a call.)
ClosesWhatIsShown ==
    [][\A i \in DOMAIN alerts :
         alerts[i].open /\ ~ alerts'[i].open /\ call' = call
            => \E row \in DOMAIN records : records[row] = [id |-> i, open |-> TRUE]]_alertsPageVars

=============================================================================
