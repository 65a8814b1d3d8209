------------------------------- MODULE FanOut -------------------------------
(* The fan-out of NetworkScanService._run_checks and MonitorService.run_round:
   a call makes a pool of its own, submits one check per item, takes finished
   futures as they come, tests its cancellation token after each, and leaves
   through "finally: pool.shutdown(wait=True, cancel_futures=True)".

   Pool threads may take items in any order, and as_completed may hand over
   finished futures in any order; the caller sorts what it got. *)

EXTENDS CancelToken, FiniteSets, Integers

CONSTANTS Item,       \* hosts of the network, or enabled devices
          PoolSize    \* min(scan_max_workers, number of items)

ASSUME FanAssumption ==
    /\ IsFiniteSet(Item) /\ Item # {}
    /\ PoolSize \in Nat \ {0}

VARIABLES future,     \* future[c][i]: the future of item i
          fan         \* fan[c]: where call c is, and its local variables

fanVars == <<token, future, fan>>

(* collecting: in the loop over as_completed; closing: on its way to
   pool.shutdown; waiting: inside it; returned: it has a result or raised. *)
Stage == {"idle", "collecting", "closing", "waiting", "returned"}
FutureState == {"none", "pending", "running", "done", "raised", "cancelled"}

FanTypeOK ==
    /\ token \in [Call -> BOOLEAN]
    /\ future \in [Call -> [Item -> FutureState]]
    /\ fan \in [Call -> [stage : Stage, results : SUBSET Item,
                         cancelled : BOOLEAN, raised : BOOLEAN]]

FanInit ==
    /\ TokenInit
    /\ future = [c \in Call |-> [i \in Item |-> "none"]]
    /\ fan = [c \in Call |-> [stage |-> "idle", results |-> {},
                              cancelled |-> FALSE, raised |-> FALSE]]

In(c, s) == {i \in Item : future[c][i] = s}

CancelFan(c) == CancelCall(c) /\ UNCHANGED <<future, fan>>

\* A new pool, and pool.submit for every item.
BeginFan(c) ==
    /\ fan[c].stage = "idle"
    /\ fan' = [fan EXCEPT ![c].stage = "collecting"]
    /\ future' = [future EXCEPT ![c] = [i \in Item |-> "pending"]]
    /\ UNCHANGED token

StartCheck(c, i) ==
    /\ future[c][i] = "pending"
    /\ Cardinality(In(c, "running")) < PoolSize
    /\ future' = [future EXCEPT ![c][i] = "running"]
    /\ UNCHANGED <<token, fan>>

\* A check returns a result, reachable or not, or raises.
FinishCheck(c, i) ==
    /\ future[c][i] = "running"
    /\ \E s \in {"done", "raised"} : future' = [future EXCEPT ![c][i] = s]
    /\ UNCHANGED <<token, fan>>

\* as_completed hands over a future that has finished and was not taken yet.
Yields(c, i) ==
    /\ fan[c].stage = "collecting"
    /\ future[c][i] \in {"done", "raised"}
    /\ i \notin fan[c].results

CollectResult(c, i) ==
    /\ Yields(c, i) /\ ~ token[c]
    /\ future[c][i] = "done"
    /\ fan' = [fan EXCEPT ![c].results = @ \cup {i}]
    /\ UNCHANGED <<token, future>>

\* The token was cancelled: the future that revealed it is dropped.
CollectCancelled(c, i) ==
    /\ Yields(c, i) /\ token[c]
    /\ fan' = [fan EXCEPT ![c].stage = "closing", ![c].cancelled = TRUE]
    /\ UNCHANGED <<token, future>>

\* future.result() raises what the check raised.
CollectRaised(c, i) ==
    /\ Yields(c, i) /\ ~ token[c]
    /\ future[c][i] = "raised"
    /\ fan' = [fan EXCEPT ![c].stage = "closing", ![c].raised = TRUE]
    /\ UNCHANGED <<token, future>>

CollectedAll(c) ==
    /\ fan[c].stage = "collecting" /\ fan[c].results = Item
    /\ fan' = [fan EXCEPT ![c].stage = "closing"]
    /\ UNCHANGED <<token, future>>

Collect(c) ==
    \/ \E i \in Item : \/ CollectResult(c, i) \/ CollectCancelled(c, i)
                       \/ CollectRaised(c, i)
    \/ CollectedAll(c)

\* cancel_futures=True: what no thread has taken yet will not be taken.
ShutdownPool(c) ==
    /\ fan[c].stage = "closing"
    /\ fan' = [fan EXCEPT ![c].stage = "waiting"]
    /\ future' = [future EXCEPT ![c] =
         [i \in Item |-> IF @[i] = "pending" THEN "cancelled" ELSE @[i]]]
    /\ UNCHANGED token

\* Bug: shutdown(wait=False): the call returns while its checks run.
ReturnAtOnce(c) ==
    /\ fan[c].stage = "waiting"
    /\ fan' = [fan EXCEPT ![c].stage = "returned",
                          ![c].cancelled = @ \/ (token[c] /\ ~ fan[c].raised)]
    /\ UNCHANGED <<token, future>>

(* wait=True: the threads have ended. A token cancelled after the last result
   still makes the result a cancelled one. The test that follows in
   _run_checks (cancelled, but not by the token) cannot succeed: see
   CancelledByToken. *)
ReturnFan(c) ==
    /\ fan[c].stage = "waiting"
    /\ In(c, "running") = {}
    /\ fan' = [fan EXCEPT ![c].stage = "returned",
                          ![c].cancelled = @ \/ (token[c] /\ ~ fan[c].raised)]
    /\ UNCHANGED <<token, future>>

FanStep(c) == Collect(c) \/ ShutdownPool(c) \/ ReturnFan(c)
PoolStep(c) == \E i \in Item : StartCheck(c, i) \/ FinishCheck(c, i)

FanNext ==
    \E c \in Call : CancelFan(c) \/ BeginFan(c) \/ FanStep(c) \/ PoolStep(c)

FanSpec == FanInit /\ [][FanNext]_fanVars

-----------------------------------------------------------------------------
(* Properties *)

\* Results are of checks that returned, never of one that raised or was dropped.
ResultsAreDone == \A c \in Call : fan[c].results \subseteq In(c, "done")

\* A scan is only ever cancelled by its token.
CancelledByToken == \A c \in Call : fan[c].cancelled => token[c]

\* An exception leaves the loop only if a check raised it.
RaisedByCheck == \A c \in Call : fan[c].raised => In(c, "raised") # {}

\* A loop that ended by itself has every result.
CompleteOrStopped ==
    \A c \in Call :
        fan[c].stage \in {"closing", "waiting", "returned"}
            => fan[c].cancelled \/ fan[c].raised \/ fan[c].results = Item

\* No check waits in the pool of a call that is not collecting or about to
\* shut it down, and none runs once the call has returned.
PoolEmptied ==
    \A c \in Call :
        /\ fan[c].stage = "idle" => In(c, "none") = Item
        /\ fan[c].stage \in {"waiting", "returned"} => In(c, "pending") = {}
        /\ fan[c].stage = "returned" => In(c, "running") = {}

\* In the loop neither flag is set; only one of them ends it.
FlagsEndLoop ==
    \A c \in Call :
        /\ fan[c].stage \in {"idle", "collecting"} => ~ (fan[c].cancelled \/ fan[c].raised)
        /\ ~ (fan[c].cancelled /\ fan[c].raised)

\* The inductive invariant of the fan-out.
FanInv ==
    /\ FanTypeOK
    /\ ResultsAreDone /\ CancelledByToken /\ RaisedByCheck
    /\ CompleteOrStopped /\ PoolEmptied /\ FlagsEndLoop

AnswerOf(c) ==
    IF fan[c].stage # "returned" THEN [kind |-> "none", of |-> {}]
    ELSE IF fan[c].raised THEN [kind |-> "failed", of |-> {}]
    ELSE IF fan[c].cancelled THEN [kind |-> "cancelled", of |-> fan[c].results]
    ELSE [kind |-> "complete", of |-> fan[c].results]

Promise ==
    INSTANCE Sweep WITH asked <- token,
                        checked <- [c \in Call |-> In(c, "done")],
                        broken <- [c \in Call |-> In(c, "raised")],
                        answer <- [c \in Call |-> AnswerOf(c)]

\* The fan-out keeps the promise of Sweep: complete unless cancelled, failed
\* only by a check, and no check of an answered call goes on.
ImplementsSweep == Promise!SweepSpec

=============================================================================
