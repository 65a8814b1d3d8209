----------------------------- MODULE ResultTable -----------------------------
(***************************************************************************)
(* The results of one device, stored by checks on several threads and      *)
(* pruned by the retention job.  A check takes its timestamp when the ping *)
(* has returned and stores the result later, so the rows are in one order  *)
(* by id and in another by timestamp.  The status shown is that of the     *)
(* largest id, the failures shown are counted in the other order.          *)
(***************************************************************************)
EXTENDS Integers, FiniteSetsExt

CONSTANTS
    Checker,    \* threads that check the device
    Retention,  \* how old a result may become
    MaxTime,    \* bound: the clock
    MaxResult   \* bound: results ever stored

VARIABLES
    clock,
    results,    \* the table: a set of rows
    checking,   \* checking[c]: the result a thread is about to store, or NotChecking
    prune,      \* the cutoff of a retention job in progress, or -1
    lastStore,  \* results stored so far; whether the last one's check was alone
                \* between its timestamp and its storing (history)
    pruned      \* the ages of rows at the moment they were pruned (history)

resultVars == <<clock, results, checking, prune, lastStore, pruned>>

ASSUME ResultAssumption == Retention \in Nat /\ MaxTime \in Nat /\ MaxResult \in Nat

NotChecking == [at |-> -1]

ResultInit ==
    /\ clock = 0 /\ results = {} /\ prune = -1
    /\ checking = [c \in Checker |-> NotChecking]
    /\ lastStore = [count |-> 0, alone |-> TRUE]
    /\ pruned = {}

-----------------------------------------------------------------------------
(* The queries *)

LastId == Max({0} \union {r.id : r \in results})

\* latest_for_devices
Latest == CHOOSE r \in results : r.id = LastId

\* Newer in the order of consecutive_failures: by timestamp, then by id.
Newer(r, s) ==
    \/ r.at > s.at
    \/ r.at = s.at /\ r.id > s.id

\* Bug: the second column of the order is missing, and the database gives rows
\* of the same timestamp in the order of their ids.
FailuresByTime ==
    Cardinality({r \in results : r.offline /\
        \A s \in results : (s.at > r.at \/ (s.at = r.at /\ s.id < r.id)) => s.offline})

\* The failures before any success. (The limit of 200 rows is left out.)
Failures ==
    Cardinality({r \in results : r.offline /\ \A s \in results : Newer(s, r) => s.offline})

-----------------------------------------------------------------------------
(* check_device, up to the result *)

PingReturns(c, offline) ==
    /\ checking[c] = NotChecking
    /\ checking' = [d \in Checker |->
         IF d = c THEN [at |-> clock, offline |-> offline,
                        alone |-> \A e \in Checker : checking[e] = NotChecking]
         ELSE IF checking[d] = NotChecking THEN NotChecking
         ELSE [checking[d] EXCEPT !.alone = FALSE]]
    /\ UNCHANGED <<clock, results, prune, lastStore, pruned>>

StoreRow(c) ==
    /\ checking[c] # NotChecking /\ lastStore.count < MaxResult
    /\ results' = results \union
         {[id |-> LastId + 1, at |-> checking[c].at, offline |-> checking[c].offline]}
    /\ lastStore' = [count |-> lastStore.count + 1, alone |-> checking[c].alone]
    /\ checking' = [checking EXCEPT ![c] = NotChecking]
    /\ UNCHANGED <<clock, prune, pruned>>

-----------------------------------------------------------------------------
(* apply_retention: the cutoff is computed from the clock, then the rows before
   it are deleted. *)

PruneBegins ==
    /\ prune = -1 /\ clock >= Retention
    /\ prune' = clock - Retention
    /\ UNCHANGED <<clock, results, checking, lastStore, pruned>>

Expired(cutoff) == {r \in results : r.at < cutoff}

\* Bug: the rows up to the id of the newest expired row are deleted.
PruneDeletesById ==
    /\ prune # -1
    /\ LET old == {r \in results : \E s \in Expired(prune) : r.id <= s.id}
       IN  /\ results' = results \ old
           /\ pruned' = pruned \union {clock - r.at : r \in old}
    /\ prune' = -1
    /\ UNCHANGED <<clock, checking, lastStore>>

PruneDeletes ==
    /\ prune # -1
    /\ results' = results \ Expired(prune)
    /\ pruned' = pruned \union {clock - r.at : r \in Expired(prune)}
    /\ prune' = -1
    /\ UNCHANGED <<clock, checking, lastStore>>

Tick ==
    /\ clock < MaxTime
    /\ clock' = clock + 1
    /\ UNCHANGED <<results, checking, prune, lastStore, pruned>>

ResultNext ==
    \/ \E c \in Checker : StoreRow(c) \/ \E offline \in BOOLEAN : PingReturns(c, offline)
    \/ PruneBegins \/ PruneDeletes \/ Tick

ResultSpec == ResultInit /\ [][ResultNext]_resultVars

-----------------------------------------------------------------------------
(* Properties *)

ResultTypeOK ==
    /\ clock \in 0 .. MaxTime
    /\ lastStore \in [count : 0 .. MaxResult, alone : BOOLEAN]
    /\ IsFiniteSet(results)
    /\ results \subseteq [id : 1 .. lastStore.count, at : 0 .. clock, offline : BOOLEAN]
    /\ checking \in [Checker -> {NotChecking} \union
                                 [at : 0 .. clock, offline : BOOLEAN, alone : BOOLEAN]]
    /\ prune = -1 \/ prune \in 0 .. clock - Retention

\* The status and the failures that a page shows may contradict each other after
\* checks that overlapped, in spite of their two orders only until a check that
\* was alone has stored its result: then the last status is offline exactly if
\* failures are counted, also when results share a timestamp or were pruned.
LoneCheckSettles ==
    lastStore.alone /\ results # {} => (Latest.offline <=> Failures > 0)

\* Why: a check that is alone stores the newest result, which stays the newest one
\* until another check stores one, or it is pruned with all the others.
ResultInv ==
    /\ ResultTypeOK /\ LoneCheckSettles
    /\ \A r, s \in results : r.id = s.id => r = s
    /\ \A c \in Checker : checking[c] # NotChecking /\ checking[c].alone =>
         /\ \A d \in Checker \ {c} : checking[d] = NotChecking
         /\ \A r \in results : r.at <= checking[c].at
    /\ lastStore.alone =>
         \A r \in results : (\A s \in results : s.id <= r.id) => \A s \in results : s.at <= r.at

\* Only results past the retention are pruned, although checks that are slow to
\* store put old results at the end of the table while the job runs.
PruneKeepsRecent == \A age \in pruned : age > Retention

=============================================================================
