----------------------------- MODULE AlertInbox -----------------------------
(***************************************************************************)
(* What the alert inbox promises its reader, without threads or tables:    *)
(* how many alerts are open (unacknowledged) for each condition.  A        *)
(* condition is a (type, source) pair.  With Limit = 1 this is the         *)
(* documented rule "at most one unacknowledged alert per pair"; the        *)
(* detailed AlertService implements it with Limit = the number of threads  *)
(* that may raise at the same time.                                        *)
(***************************************************************************)
EXTENDS Naturals

CONSTANTS
    Key,    \* the conditions that can be open
    Limit   \* how many alerts of one condition may be open at once

VARIABLE inbox  \* inbox[k]: how many alerts of condition k are open

InboxTypeOK == inbox \in [Key -> 0..Limit]

InboxInit == inbox = [k \in Key |-> 0]

Open(k) ==  \* a new alert of condition k lands in the inbox
    /\ inbox[k] < Limit
    /\ inbox' = [inbox EXCEPT ![k] = @ + 1]

Close(k) ==  \* one alert of condition k is acknowledged
    /\ inbox[k] > 0
    /\ inbox' = [inbox EXCEPT ![k] = @ - 1]

InboxNext == \E k \in Key : Open(k) \/ Close(k)

InboxSpec == InboxInit /\ [][InboxNext]_inbox

=============================================================================
